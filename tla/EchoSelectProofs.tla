-------------------------- MODULE EchoSelectProofs --------------------------
(***************************************************************************)
(* For any number of clients and streams, any sizes and buffers: the one   *)
(* buffer of the select server never mixes up its clients (NothingLost).   *)
(* As long as every recv returns the whole packet it waits for, a client   *)
(* is served to its end or not at all, unless one is stopped               *)
(* (ServedOrNot).                                                          *)
(***************************************************************************)
EXTENDS EchoSelect, TLAPS

(***************************************************************************)
(* Streams                                                                 *)
(***************************************************************************)

\* The minimum of two numbers.
LEMMA MinTwo ==
  ASSUME NEW m \in Int, NEW n \in Int
  PROVE  Min({m, n}) = IF m <= n THEN m ELSE n
<1> DEFINE least == IF m <= n THEN m ELSE n
<1>1. least \in {m, n} /\ \A y \in {m, n} : least <= y
  OBVIOUS
<1>2. \A x \in {m, n} : (\A y \in {m, n} : x <= y) => x = least
  OBVIOUS
<1> QED
  BY <1>1, <1>2 DEF Min

\* The minimum of three numbers is one of them and none is less.
LEMMA MinThree ==
  ASSUME NEW m \in Int, NEW n \in Int, NEW k \in Int
  PROVE  /\ Min({m, n, k}) \in {m, n, k}
         /\ Min({m, n, k}) <= m /\ Min({m, n, k}) <= n /\ Min({m, n, k}) <= k
<1> DEFINE least == IF m <= n THEN (IF m <= k THEN m ELSE k)
                              ELSE (IF n <= k THEN n ELSE k)
<1>1. least \in {m, n, k} /\ \A y \in {m, n, k} : least <= y
  OBVIOUS
<1>2. \A x \in {m, n, k} : (\A y \in {m, n, k} : x <= y) => x = least
  OBVIOUS
<1>3. Min({m, n, k}) = least
  BY <1>1, <1>2 DEF Min
<1> QED
  BY <1>1, <1>3

\* A segment moves bytes within a stream and loses none; one that carries all
\* the bytes there are leaves nothing behind.
LEMMA MovedStream ==
  ASSUME NEW s \in Streams
  PROVE  /\ Segment(s) \in Nat
         /\ Moved(s) \in Streams
         /\ InFlight(Moved(s)) = InFlight(s)
         /\ s.out <= SEGMENT /\ s.out + s.in <= RCVBUF =>
              Moved(s).out = 0 /\ Moved(s).in = InFlight(s)
<1>1. s.out \in 0 .. SNDBUF /\ s.in \in 0 .. RCVBUF
  BY DEF Streams
<1>2. SEGMENT \in Nat /\ SNDBUF \in Nat /\ RCVBUF \in Nat
  BY StreamAssumption
<1>3. /\ Segment(s) \in {SEGMENT, s.out, RCVBUF - s.in}
      /\ Segment(s) <= SEGMENT /\ Segment(s) <= s.out /\ Segment(s) <= RCVBUF - s.in
  <2>1. SEGMENT \in Int /\ s.out \in Int /\ RCVBUF - s.in \in Int
    BY <1>1, <1>2
  <2> HIDE <1>1, <1>2
  <2> QED
    BY <2>1, MinThree DEF Segment
<1>4. Segment(s) \in Nat
  BY <1>1, <1>2, <1>3
<1>5. Moved(s).out = s.out - Segment(s) /\ Moved(s).in = s.in + Segment(s)
  BY DEF Moved
<1>6. Moved(s) \in Streams
  BY <1>1, <1>2, <1>3, <1>4 DEF Moved, Streams
<1> QED
  BY <1>1, <1>2, <1>3, <1>4, <1>5, <1>6 DEF InFlight

\* send hands over what there is room for.
LEMMA SentStream ==
  ASSUME NEW s \in Streams, NEW n \in Nat
  PROVE  LET k == Accepted(s, n) IN
         /\ k \in 0 .. n
         /\ Sent(s, k) \in Streams
         /\ InFlight(Sent(s, k)) = InFlight(s) + k
         /\ Sent(s, k).out = s.out + k /\ Sent(s, k).in = s.in
         /\ s.out + n <= SNDBUF => k = n
<1>1. s = [out |-> s.out, in |-> s.in] /\ s.out \in 0 .. SNDBUF /\ s.in \in 0 .. RCVBUF
  BY DEF Streams
<1>2. SNDBUF \in Nat /\ RCVBUF \in Nat
  BY StreamAssumption
<1>3. Accepted(s, n) = IF n <= SNDBUF - s.out THEN n ELSE SNDBUF - s.out
  BY <1>1, <1>2, MinTwo DEF Accepted
<1>4. Sent(s, Accepted(s, n)) = [out |-> s.out + Accepted(s, n), in |-> s.in]
  BY <1>1 DEF Sent
<1> QED
  BY <1>1, <1>2, <1>3, <1>4 DEF Streams, InFlight

\* recv takes what is there, up to the room it was given.
LEMMA TakenStream ==
  ASSUME NEW s \in Streams, NEW n \in Nat
  PROVE  LET k == Received(s, n) IN
         /\ k \in 0 .. n
         /\ Taken(s, k) \in Streams
         /\ InFlight(Taken(s, k)) = InFlight(s) - k
         /\ Taken(s, k).out = s.out /\ Taken(s, k).in = s.in - k
         /\ s.in <= n => k = s.in
         /\ n > 0 /\ s.in > 0 => k > 0
<1>1. s = [out |-> s.out, in |-> s.in] /\ s.out \in 0 .. SNDBUF /\ s.in \in 0 .. RCVBUF
  BY DEF Streams
<1>2. SNDBUF \in Nat /\ RCVBUF \in Nat
  BY StreamAssumption
<1>3. Received(s, n) = IF n <= s.in THEN n ELSE s.in
  BY <1>1, <1>2, MinTwo DEF Received
<1>4. Taken(s, Received(s, n)) = [out |-> s.out, in |-> s.in - Received(s, n)]
  BY <1>1 DEF Taken
<1> QED
  BY <1>1, <1>2, <1>3, <1>4 DEF Streams, InFlight

\* The contents of a stream are numbers.
LEMMA StreamNat == ASSUME NEW s \in Streams
                   PROVE  s.out \in Nat /\ s.in \in Nat /\ InFlight(s) \in Nat
BY StreamAssumption DEF Streams, InFlight

(***************************************************************************)
(* The invariant                                                            *)
(***************************************************************************)

\* The server holds bytes, and a socket to send them to, only between recv and
\* send.
ServerSide ==
  IF spc = "send" THEN target # NULL /\ held > 0
                  ELSE spc # "failed" => target = NULL /\ held = 0

\* A socket whose turn to connect has not come.
Unconnected(s) == cpc[s[1]] = "connect" /\ s[2] >= stream[s[1]]

\* Nothing was ever sent on such a socket.
NotConnected ==
  \A s \in Sockets : Unconnected(s) =>
    conn[s] = "none" /\ up[s] = EmptyStream /\ down[s] = EmptyStream /\ owed[s] = 0
      /\ s \notin sockets

Counts ==
  /\ stream \in [Clients -> Nat] /\ left \in [Clients -> Nat]
  /\ owed \in [Sockets -> Int]
  /\ \A c \in Clients : cpc[c] \in {"send", "recv"} => phase[c] > 0

IInv == TypeOK /\ Counts /\ ServerSide /\ NotConnected /\ NothingLost

USE SelectAssumption

\* A socket is one of the streams of one of the clients.
LEMMA SocketParts ==
  /\ \A s \in Sockets : s = <<s[1], s[2]>> /\ s[1] \in Clients /\ s[2] \in 1 .. STREAMS[s[1]]
  /\ \A c \in Clients : \A i \in 1 .. STREAMS[c] : <<c, i>> \in Sockets
  /\ \A c \in Clients : \A i : <<c, i>> \in Sockets => i \in 1 .. STREAMS[c]
<1>1. \A s : s \in Sockets <=> \E c \in Clients : s \in {c} \X (1 .. STREAMS[c])
  OBVIOUS
<1> HIDE SelectAssumption
<1>2. \A s \in Sockets : s = <<s[1], s[2]>> /\ s[1] \in Clients /\ s[2] \in 1 .. STREAMS[s[1]]
  BY <1>1
<1>3. \A c \in Clients : \A i \in 1 .. STREAMS[c] : <<c, i>> \in Sockets
  BY <1>1
<1>4. \A c \in Clients : \A i : <<c, i>> \in Sockets => i \in 1 .. STREAMS[c]
  <2> SUFFICES ASSUME NEW c \in Clients, NEW i, <<c, i>> \in Sockets
               PROVE  i \in 1 .. STREAMS[c]
    OBVIOUS
  <2> DEFINE s == <<c, i>>
  <2>1. s[1] = c /\ s[2] = i
    OBVIOUS
  <2> QED
    BY <1>2, <2>1
<1> QED
  BY <1>2, <1>3, <1>4

\* A size is a positive number.
LEMMA SizeType == ASSUME NEW i \in 1 .. Len(SIZES) PROVE SIZES[i] \in Nat \ {0}
OBVIOUS

\* The socket of a client's call is one of its own.
LEMMA OwnSocket ==
  ASSUME TypeOK, Counts, NEW c \in Clients
  PROVE  /\ SocketOf(c) \in Sockets /\ SocketOf(c)[1] = c /\ SocketOf(c)[2] = stream[c]
         /\ stream[c] \in 1 .. STREAMS[c] /\ STREAMS[c] \in Nat \ {0}
         /\ \A s \in Sockets : s[1] = c /\ s[2] = stream[c] => s = SocketOf(c)
<1>1. SocketOf(c) \in Sockets
  BY DEF TypeOK
<1>2. stream[c] \in 1 .. STREAMS[c]
  BY <1>1, SocketParts DEF SocketOf
<1>3. \A s \in Sockets : s[1] = c /\ s[2] = stream[c] => s = SocketOf(c)
  BY SocketParts DEF SocketOf
<1> QED
  BY <1>1, <1>2, <1>3 DEF SocketOf

\* The initial state satisfies the invariant.
LEMMA InitInv == Init => IInv
<1> SUFFICES ASSUME Init PROVE IInv
  OBVIOUS
<1>1. EmptyStream \in Streams /\ InFlight(EmptyStream) = 0
  BY StreamAssumption DEF EmptyStream, Streams, InFlight
<1>2. \A c \in Clients : <<c, 1>> \in Sockets
  BY SocketParts
<1>3. TypeOK
  <2>1. 0 \in 0 .. BUFFER /\ 0 \in 0 .. Len(SIZES) /\ 0 \in 0 .. PACKETS
    OBVIOUS
  <2> QED
    BY <1>1, <1>2, <2>1 DEF Init, TypeOK, NetInit, ConnStates, SocketOf, Calls
<1>4. ServerSide /\ Counts
  BY DEF Init, ServerSide, Counts
<1>5. NotConnected
  BY DEF Init, NetInit, NotConnected
<1>6. NothingLost
  BY DEF Init, NetInit, NothingLost, Live
<1> QED
  BY <1>3, <1>4, <1>5, <1>6 DEF IInv

\* The server's steps that move no byte.
LEMMA ServerLooksInv ==
  ASSUME IInv, Listen \/ Select \/ TimesOut \/ Visited PROVE IInv'
<1>1. /\ spc \in {"start", "select", "visit"}
      /\ spc' \in {"select", "accept", "visit", "leaving"}
      /\ ready' \subseteq sockets
      /\ UNCHANGED <<sockets, target, held, clientVars, netVars, owed, short>>
  BY DEF Listen, Select, TimesOut, Visited, Watched, IInv, TypeOK
<1> USE DEF IInv, clientVars, netVars
<1>2. TypeOK'
  BY <1>1 DEF TypeOK, SocketOf
<1>3. ServerSide' /\ Counts'
  BY <1>1 DEF ServerSide, Counts
<1>4. NotConnected' /\ NothingLost'
  BY <1>1 DEF NotConnected, Unconnected, NothingLost
<1> QED
  BY <1>2, <1>3, <1>4

\* With the server every connection is gone.
LEMMA ServerEndsInv == ASSUME IInv, KillServer \/ ServerFails PROVE IInv'
<1>1. /\ \/ spc' = "ended" /\ spc = "leaving"
         \/ spc' = "failed"
      /\ conn' = [s \in Sockets |-> IF conn[s] = "none" THEN "none" ELSE "reset"]
      /\ UNCHANGED <<sockets, ready, target, held, clientVars, up, down, owed, short>>
  BY DEF KillServer, ServerFails, ServerGone
<1> USE DEF IInv, clientVars
<1>2. TypeOK'
  BY <1>1 DEF TypeOK, ConnStates, SocketOf
<1>3. ServerSide' /\ Counts'
  BY <1>1 DEF ServerSide, Counts
<1>4. NotConnected'
  BY <1>1 DEF NotConnected, Unconnected
<1>5. NothingLost'
  BY <1>1 DEF NothingLost, Live
<1> QED
  BY <1>2, <1>3, <1>4, <1>5

\* A connection comes into the select set.
LEMMA AcceptInv == ASSUME IInv, NEW s \in Sockets, Accept(s) PROVE IInv'
<1>1. /\ spc = "accept" /\ spc' = "visit" /\ sockets' = sockets \cup {s}
      /\ conn[s] \in {"queued", "finished"}
      /\ conn' = [conn EXCEPT ![s] = IF conn[s] = "queued" THEN "open" ELSE conn[s]]
      /\ UNCHANGED <<ready, target, held, clientVars, up, down, owed, short>>
  BY DEF Accept, Waiting
<1> USE DEF IInv, clientVars
<1>2. TypeOK'
  BY <1>1 DEF TypeOK, ConnStates, SocketOf
<1>3. ServerSide' /\ Counts'
  BY <1>1 DEF ServerSide, Counts
<1>4. NotConnected'
  BY <1>1 DEF TypeOK, NotConnected, Unconnected
<1>5. NothingLost'
  BY <1>1 DEF TypeOK, NothingLost, Live
<1> QED
  BY <1>2, <1>3, <1>4, <1>5

\* It leaves the set and the server closes it.
LEMMA EndOfStreamInv == ASSUME IInv, NEW s \in Sockets, EndOfStream(s) PROVE IInv'
<1>1. /\ spc = "visit" /\ spc' = spc /\ sockets' = sockets \ {s} /\ ready' = ready \ {s}
      /\ conn[s] = "finished" /\ conn' = [conn EXCEPT ![s] = "none"]
      /\ UNCHANGED <<target, held, clientVars, up, down, owed, short>>
  BY DEF EndOfStream, Erase
<1> USE DEF IInv, clientVars
<1>2. target = NULL
  BY <1>1 DEF ServerSide
<1>3. TypeOK'
  BY <1>1, <1>2 DEF TypeOK, ConnStates, SocketOf
<1>4. ServerSide' /\ Counts'
  BY <1>1 DEF ServerSide, Counts
<1>5. NotConnected'
  BY <1>1 DEF TypeOK, NotConnected, Unconnected
<1>6. NothingLost'
  BY <1>1 DEF TypeOK, NothingLost, Live
<1> QED
  BY <1>3, <1>4, <1>5, <1>6

\* recv takes as many bytes from the stream as the buffer then holds.
LEMMA EchoClientInv == ASSUME IInv, NEW s \in Sockets, EchoClient(s) PROVE IInv'
<1> DEFINE n == Received(up[s], BUFFER)
           rest == Taken(up[s], n)
<1>1. up[s] \in Streams /\ BUFFER \in Nat \ {0} /\ s \in sockets /\ up[s].in > 0
  BY DEF IInv, TypeOK, EchoClient
<1>2. n \in 1 .. BUFFER /\ rest \in Streams /\ InFlight(rest) = InFlight(up[s]) - n
  <2>1. n \in 0 .. BUFFER /\ rest \in Streams /\ InFlight(rest) = InFlight(up[s]) - n
    BY <1>1, TakenStream
  <2>2. BUFFER \in Nat /\ BUFFER > 0
    OBVIOUS
  <2>3. n > 0
    BY <1>1, <2>2, TakenStream
  <2> QED
    BY <1>1, <2>1, <2>2, <2>3
<1>3. /\ spc = "visit" /\ spc' = "send" /\ held' = n /\ target' = s
      /\ up' = [up EXCEPT ![s] = rest] /\ ready' = ready \ {s}
      /\ UNCHANGED <<sockets, clientVars, conn, down, owed, short>>
  BY DEF EchoClient, Echoed
<1> HIDE DEF n, rest
<1> USE DEF IInv, clientVars
<1>4. target = NULL /\ held = 0
  BY <1>3 DEF ServerSide
<1>5. TypeOK'
  BY <1>1, <1>2, <1>3 DEF TypeOK, SocketOf
<1>6. ServerSide' /\ Counts'
  BY <1>2, <1>3 DEF ServerSide, Counts
<1>7. NotConnected'
  BY <1>1, <1>3 DEF TypeOK, NotConnected, Unconnected
<1>8. NothingLost'
  <2> SUFFICES ASSUME NEW t \in Sockets, conn[t] \in Live
               PROVE  owed[t] = InFlight(up'[t]) + InFlight(down[t])
                                + (IF s = t THEN n ELSE 0)
    BY <1>3 DEF NothingLost
  <2>1. owed[t] = InFlight(up[t]) + InFlight(down[t]) + (IF target = t THEN held ELSE 0)
    BY DEF NothingLost
  <2>2. up'[t] = IF s = t THEN rest ELSE up[t]
    BY <1>1, <1>3 DEF TypeOK
  <2>3. InFlight(up[t]) \in Nat /\ InFlight(down[t]) \in Nat
    BY StreamNat DEF TypeOK
  <2> QED
    BY <1>1, <1>2, <1>4, <2>1, <2>2, <2>3
<1> QED
  BY <1>5, <1>6, <1>7, <1>8

\* send passes on as many as the buffer gives away.
LEMMA SendBackInv == ASSUME IInv, SendBack PROVE IInv'
<1> DEFINE n == Accepted(down[target], held)
           more == Sent(down[target], n)
<1>1. /\ target \in Sockets /\ target \in sockets
      /\ down[target] \in Streams /\ held \in Nat /\ BUFFER \in Nat
  BY DEF IInv, TypeOK, ServerSide, SendBack
<1>2. /\ n \in 1 .. held /\ more \in Streams
      /\ InFlight(more) = InFlight(down[target]) + n
  <2>1. n \in 0 .. held /\ more \in Streams /\ InFlight(more) = InFlight(down[target]) + n
    BY <1>1, SentStream
  <2>2. n > 0
    BY DEF SendBack
  <2> QED
    BY <1>1, <2>1, <2>2
<1>3. /\ held' = held - n /\ down' = [down EXCEPT ![target] = more]
      /\ spc = "send"
      /\ IF held' = 0 THEN spc' = "visit" /\ target' = NULL
                      ELSE spc' = "send" /\ target' = target
      /\ UNCHANGED <<sockets, ready, clientVars, conn, up, owed, short>>
  BY DEF SendBack
<1> HIDE DEF n, more
<1> USE DEF IInv, clientVars
<1>4. held' \in 0 .. BUFFER
  BY <1>1, <1>2, <1>3 DEF TypeOK
<1>5. TypeOK'
  BY <1>1, <1>2, <1>3, <1>4 DEF TypeOK, SocketOf
<1>6. ServerSide' /\ Counts'
  BY <1>1, <1>3, <1>4 DEF ServerSide, Counts
<1>7. NotConnected'
  BY <1>1, <1>3 DEF NotConnected, Unconnected
<1>8. NothingLost'
  <2> SUFFICES ASSUME NEW t \in Sockets, conn[t] \in Live
               PROVE  owed[t] = InFlight(up[t]) + InFlight(down'[t])
                                + (IF target = t THEN held - n ELSE 0)
    BY <1>1, <1>2, <1>3 DEF NothingLost
  <2>1. owed[t] = InFlight(up[t]) + InFlight(down[t]) + (IF target = t THEN held ELSE 0)
    BY DEF NothingLost
  <2>2. down'[t] = IF target = t THEN more ELSE down[t]
    BY <1>1, <1>3 DEF TypeOK
  <2>3. InFlight(up[t]) \in Nat /\ InFlight(down[t]) \in Nat
    BY StreamNat DEF TypeOK
  <2> QED
    BY <1>1, <1>2, <2>1, <2>2, <2>3
<1> QED
  BY <1>5, <1>6, <1>7, <1>8

\* What the types say of the clients' own variables.
ClientTypes ==
  /\ cpc \in [Clients -> Calls \cup {"done", "failed", "stopped"}]
  /\ \A c \in Clients : SocketOf(c) \in Sockets
  /\ phase \in [Clients -> 0 .. Len(SIZES)] /\ todo \in [Clients -> 0 .. PACKETS]
  /\ stream \in [Clients -> Nat] /\ left \in [Clients -> Nat]
  /\ \A c \in Clients : cpc[c] \in {"send", "recv"} => phase[c] > 0

\* They hold after one of its calls.
LEMMA GoesType ==
  ASSUME TypeOK, Counts, NEW c \in Clients, NEW what \in Calls, NEW i \in 1 .. STREAMS[c],
         NEW p \in 0 .. Len(SIZES), NEW k \in 0 .. PACKETS, p = 0 => what = "connect",
         Goes(c, what, i, p, k)
  PROVE  ClientTypes'
<1>1. cpc' \in [Clients -> Calls \cup {"done", "failed", "stopped"}]
  BY DEF Goes, TypeOK
<1>2. \A d \in Clients : SocketOf(d)' \in Sockets
  BY SocketParts DEF Goes, TypeOK, Counts, SocketOf
<1>3. phase' \in [Clients -> 0 .. Len(SIZES)] /\ todo' \in [Clients -> 0 .. PACKETS]
  BY DEF Goes, TypeOK
<1>4. stream' \in [Clients -> Nat]
  BY DEF Goes, Counts
<1>5. left' \in [Clients -> Nat]
  <2>1. what = "send" => SIZES[p] \in Nat
    BY SizeType
  <2> QED
    BY <2>1 DEF Goes, Counts
<1>6. \A d \in Clients : cpc'[d] \in {"send", "recv"} => phase'[d] > 0
  BY DEF Goes, TypeOK, Counts
<1> QED
  BY <1>1, <1>2, <1>3, <1>4, <1>5, <1>6 DEF ClientTypes

\* After its send and after its recv a client makes one of its calls.
LEMMA AfterSendGoes ==
  ASSUME TypeOK, Counts, NEW c \in Clients, cpc[c] = "send", AfterSend(c)
  PROVE  \E what \in {"send", "recv"}, i \in 1 .. STREAMS[c] :
           Goes(c, what, i, phase[c], todo[c])
<1>1. 1 \in 1 .. STREAMS[c] /\ stream[c] \in 1 .. STREAMS[c]
      /\ (~Last(c) => stream[c] + 1 \in 1 .. STREAMS[c])
  BY OwnSocket DEF Last
<1> QED
  BY <1>1 DEF AfterSend, OnStream

LEMMA AfterRecvGoes ==
  ASSUME TypeOK, Counts, NEW c \in Clients, cpc[c] = "recv", AfterRecv(c)
  PROVE  \E what \in {"send", "recv", "close"}, i \in 1 .. STREAMS[c],
            p \in 1 .. Len(SIZES), k \in 0 .. PACKETS : Goes(c, what, i, p, k)
<1>1. 1 \in 1 .. STREAMS[c] /\ stream[c] \in 1 .. STREAMS[c]
      /\ (~Last(c) => stream[c] + 1 \in 1 .. STREAMS[c])
  BY OwnSocket DEF Last
<1>2. phase[c] \in 1 .. Len(SIZES) /\ todo[c] \in 0 .. PACKETS
  BY DEF TypeOK, Counts
<1>3. todo[c] > 0 => todo[c] - 1 \in 0 .. PACKETS
  BY <1>2
<1>4. phase[c] < Len(SIZES) => phase[c] + 1 \in 1 .. Len(SIZES) /\ PACKETS \in 0 .. PACKETS
  BY <1>2
<1> HIDE SelectAssumption
<1>5. CASE phase[c] = 1 /\ OnStream(c, "send", stream[c])
  BY <1>1, <1>2, <1>5 DEF OnStream
<1>6. CASE ~Last(c) /\ OnStream(c, IF todo[c] = 0 THEN "send" ELSE "recv", stream[c] + 1)
  BY <1>1, <1>2, <1>6 DEF OnStream
<1>7. CASE Last(c) /\ todo[c] > 0 /\ Goes(c, "send", 1, phase[c], todo[c] - 1)
  BY <1>1, <1>2, <1>3, <1>7
<1>8. CASE /\ Last(c) /\ todo[c] = 0
           /\ IF phase[c] < Len(SIZES) THEN Goes(c, "send", 1, phase[c] + 1, PACKETS)
                                       ELSE OnStream(c, "close", 1)
  <2>1. CASE phase[c] < Len(SIZES)
    BY <1>1, <1>4, <1>8, <2>1
  <2>2. CASE ~(phase[c] < Len(SIZES))
    BY <1>1, <1>2, <1>8, <2>2 DEF OnStream
  <2> QED
    BY <2>1, <2>2
<1> QED
  BY <1>5, <1>6, <1>7, <1>8 DEF AfterRecv

\* A client that leaves the state connect has connected all its sockets.
LEMMA ConnectInv == ASSUME IInv, NEW c \in Clients, Connect(c) PROVE IInv'
<1> DEFINE me == SocketOf(c)
<1> USE DEF IInv, serverVars
<1>1. /\ me \in Sockets /\ me[1] = c /\ me[2] = stream[c]
      /\ stream[c] \in 1 .. STREAMS[c] /\ 1 \in 1 .. STREAMS[c]
      /\ (~Last(c) => stream[c] + 1 \in 1 .. STREAMS[c])
  BY OwnSocket DEF Last
<1>2. cpc[c] = "connect" /\ UNCHANGED <<serverVars, up, down, owed, short>>
  BY DEF Connect
<1>3. CASE ~Listening
  <2>1. cpc' = [cpc EXCEPT ![c] = "failed"]
        /\ UNCHANGED <<stream, phase, todo, left, conn>>
    BY <1>3 DEF Connect, Ends
  <2>2. TypeOK'
    BY <1>2, <2>1 DEF TypeOK, SocketOf
  <2>3. ServerSide' /\ Counts' /\ NotConnected' /\ NothingLost'
    <3>1. ServerSide' /\ NothingLost'
      BY <1>2, <2>1 DEF ServerSide, NothingLost
    <3>2. \A d \in Clients : cpc'[d] = IF d = c THEN "failed" ELSE cpc[d]
      BY <2>1 DEF TypeOK
    <3>3. Counts'
      BY <1>2, <2>1, <3>2 DEF Counts
    <3>4. NotConnected'
      <4>1. \A s \in Sockets : Unconnected(s)' => Unconnected(s)
        BY <2>1, <3>2, SocketParts DEF Unconnected
      <4> QED
        BY <1>2, <2>1, <4>1 DEF NotConnected
    <3> QED
      BY <3>1, <3>3, <3>4
  <2> QED
    BY <2>2, <2>3
<1>4. CASE Listening
  <2>1. /\ conn' = [conn EXCEPT ![me] = "queued"]
        /\ \/ Last(c) /\ Goes(c, "send", 1, 1, 0)
           \/ ~Last(c) /\ Goes(c, "connect", stream[c] + 1, phase[c], todo[c])
    BY <1>4 DEF Connect, OnStream
  <2>2. \E what \in {"send", "connect"}, i \in 1 .. STREAMS[c], p \in 0 .. Len(SIZES),
           k \in 0 .. PACKETS : (p = 0 => what = "connect") /\ Goes(c, what, i, p, k)
    <3>1. 1 \in 0 .. Len(SIZES) /\ 0 \in 0 .. PACKETS
          /\ phase[c] \in 0 .. Len(SIZES) /\ todo[c] \in 0 .. PACKETS
      BY DEF TypeOK
    <3> HIDE SelectAssumption
    <3> QED
      BY <1>1, <2>1, <3>1
  <2>3. ClientTypes'
    <3>1. TypeOK /\ Counts
      OBVIOUS
    <3> HIDE SelectAssumption DEF IInv
    <3> QED
      BY <2>2, <3>1, GoesType DEF Calls
  <2>4. TypeOK' /\ ServerSide' /\ Counts'
    <3>1. conn' \in [Sockets -> ConnStates]
      BY <2>1 DEF TypeOK, ConnStates
    <3>2. TypeOK'
      BY <1>2, <2>3, <3>1 DEF TypeOK, ClientTypes
    <3> QED
      BY <1>2, <2>3, <3>2 DEF ServerSide, Counts, ClientTypes
  <2>5. conn[me] = "none" /\ up[me] = EmptyStream /\ down[me] = EmptyStream
        /\ owed[me] = 0 /\ me \notin sockets
    <3>1. Unconnected(me)
      BY <1>1, <1>2 DEF Unconnected
    <3> QED
      BY <1>1, <3>1 DEF NotConnected
  <2>6. NotConnected'
    <3> SUFFICES ASSUME NEW s \in Sockets, Unconnected(s)'
                 PROVE  s # me /\ Unconnected(s)
      BY <1>1, <1>2, <2>1 DEF NotConnected, TypeOK
    <3>1. s[1] \in Clients /\ s[2] \in Nat
      BY SocketParts
    <3>2. CASE s[1] # c
      BY <1>1, <2>1, <3>1, <3>2 DEF Unconnected, Goes, TypeOK, Counts
    <3>3. CASE s[1] = c
      <4>1. s[2] >= stream[c] + 1
        BY <1>1, <2>1, <3>1, <3>3 DEF Unconnected, Goes, TypeOK, Counts
      <4> QED
        BY <1>1, <1>2, <3>1, <3>3, <4>1 DEF Unconnected
    <3> QED
      BY <3>2, <3>3
  <2>7. NothingLost'
    <3> SUFFICES ASSUME NEW s \in Sockets, conn'[s] \in Live
                 PROVE  owed[s] = InFlight(up[s]) + InFlight(down[s])
                                  + (IF target = s THEN held ELSE 0)
      BY <1>2 DEF NothingLost
    <3>1. CASE s = me
      BY <2>5, <3>1, SelectAssumption DEF InFlight, EmptyStream, TypeOK
    <3>2. CASE s # me
      BY <1>1, <2>1, <3>2 DEF TypeOK, NothingLost
    <3> QED
      BY <3>1, <3>2
  <2> QED
    BY <2>4, <2>6, <2>7
<1> QED
  BY <1>3, <1>4

\* What its send hands over is owed from then on.
LEMMA SendInv == ASSUME IInv, NEW c \in Clients, Send(c) PROVE IInv'
<1> DEFINE me == SocketOf(c)
           n == Accepted(up[me], left[c])
           more == Sent(up[me], n)
<1>1. TypeOK /\ Counts /\ ServerSide /\ NotConnected /\ NothingLost
  BY DEF IInv
<1>2. /\ me \in Sockets /\ me[1] = c /\ up[me] \in Streams /\ left[c] \in Nat
      /\ owed[me] \in Int
  BY <1>1, OwnSocket DEF TypeOK, Counts
<1>3. n \in 1 .. left[c] /\ more \in Streams /\ InFlight(more) = InFlight(up[me]) + n
  <2>1. n \in 0 .. left[c] /\ more \in Streams /\ InFlight(more) = InFlight(up[me]) + n
    BY <1>2, SentStream
  <2>2. n > 0
    BY DEF Send
  <2> QED
    BY <1>2, <2>1, <2>2
<1>4. /\ up' = [up EXCEPT ![me] = more] /\ owed' = [owed EXCEPT ![me] = owed[me] + n]
      /\ cpc[c] = "send" /\ conn[me] \in Live
      /\ IF n = left[c] THEN AfterSend(c)
         ELSE left' = [left EXCEPT ![c] = left[c] - n] /\ UNCHANGED <<cpc, stream, phase, todo>>
      /\ UNCHANGED <<serverVars, conn, down, short>>
  BY DEF Send
<1> HIDE DEF n, more, me
<1>5. ClientTypes' /\ \A d \in Clients : cpc'[d] = "connect" => d # c /\ cpc[d] = "connect"
                                                          /\ stream'[d] = stream[d]
  <2>1. CASE n = left[c]
    <3>1. PICK what \in {"send", "recv"}, i \in 1 .. STREAMS[c] :
            Goes(c, what, i, phase[c], todo[c])
      BY <1>1, <1>4, <2>1, AfterSendGoes
    <3>2. phase[c] \in 0 .. Len(SIZES) /\ todo[c] \in 0 .. PACKETS /\ phase[c] # 0
      BY <1>1, <1>4 DEF TypeOK, Counts
    <3>3. ClientTypes'
      BY <1>1, <3>1, <3>2, GoesType DEF Calls
    <3>4. \A d \in Clients : cpc'[d] = "connect" => d # c /\ cpc[d] = "connect"
                                                  /\ stream'[d] = stream[d]
      BY <1>1, <3>1 DEF Goes, TypeOK, Counts
    <3> QED
      BY <3>3, <3>4
  <2>2. CASE n # left[c]
    <3>1. /\ left' = [left EXCEPT ![c] = left[c] - n] /\ UNCHANGED <<cpc, stream, phase, todo>>
          /\ left[c] - n \in Nat
      BY <1>2, <1>3, <1>4, <2>2
    <3> QED
      BY <1>1, <1>4, <3>1 DEF TypeOK, Counts, ClientTypes, SocketOf
  <2> QED
    BY <2>1, <2>2
<1>6. TypeOK'
  BY <1>1, <1>3, <1>4, <1>5 DEF TypeOK, ClientTypes, serverVars
<1>7. ServerSide' /\ Counts'
  <2>1. owed' \in [Sockets -> Int]
    BY <1>1, <1>2, <1>3, <1>4 DEF Counts
  <2> QED
    BY <1>1, <1>4, <1>5, <2>1 DEF ServerSide, Counts, ClientTypes, serverVars
<1>8. NotConnected'
  <2> SUFFICES ASSUME NEW s \in Sockets, Unconnected(s)' PROVE s # me /\ Unconnected(s)
    BY <1>1, <1>2, <1>4 DEF NotConnected, TypeOK, Counts, serverVars
  <2> QED
    BY <1>2, <1>5, SocketParts DEF Unconnected
<1>9. NothingLost'
  <2> SUFFICES ASSUME NEW s \in Sockets, conn[s] \in Live
               PROVE  owed'[s] = InFlight(up'[s]) + InFlight(down[s])
                                 + (IF target = s THEN held ELSE 0)
    BY <1>4 DEF NothingLost, serverVars
  <2>1. owed[s] = InFlight(up[s]) + InFlight(down[s]) + (IF target = s THEN held ELSE 0)
    BY <1>1 DEF NothingLost
  <2>2. /\ up'[s] = IF me = s THEN more ELSE up[s]
        /\ owed'[s] = IF me = s THEN owed[s] + n ELSE owed[s]
    BY <1>1, <1>4 DEF TypeOK, Counts
  <2>3. InFlight(up[s]) \in Nat /\ InFlight(down[s]) \in Nat /\ held \in Nat
    BY <1>1, StreamNat DEF TypeOK
  <2> HIDE SelectAssumption
  <2>4. CASE s = me
    BY <1>2, <1>3, <2>1, <2>2, <2>3, <2>4
  <2>5. CASE s # me
    BY <2>1, <2>2, <2>5
  <2> QED
    BY <2>4, <2>5
<1> QED
  BY <1>6, <1>7, <1>8, <1>9 DEF IInv

\* What its recv returns is owed no more.
LEMMA RecvInv == ASSUME IInv, NEW c \in Clients, Recv(c) PROVE IInv'
<1> DEFINE me == SocketOf(c)
           n == Received(down[me], Asked(c))
           rest == Taken(down[me], n)
<1>1. TypeOK /\ Counts /\ ServerSide /\ NotConnected /\ NothingLost
  BY DEF IInv
<1>2. /\ me \in Sockets /\ me[1] = c /\ down[me] \in Streams /\ Asked(c) \in Nat
      /\ owed[me] \in Int
  <2>1. phase[c] \in 1 .. Len(SIZES)
    BY <1>1 DEF Recv, TypeOK, Counts
  <2> QED
    BY <1>1, <2>1, OwnSocket, SizeType DEF TypeOK, Counts, Asked
<1>3. n \in 0 .. Asked(c) /\ rest \in Streams /\ InFlight(rest) = InFlight(down[me]) - n
  BY <1>2, TakenStream
<1>4. /\ down' = [down EXCEPT ![me] = rest] /\ owed' = [owed EXCEPT ![me] = owed[me] - n]
      /\ cpc[c] = "recv" /\ conn[me] \in Live /\ AfterRecv(c)
      /\ UNCHANGED <<serverVars, conn, up>> /\ short' \in BOOLEAN
  BY DEF Recv
<1> HIDE DEF n, rest, me
<1>5. ClientTypes' /\ \A d \in Clients : cpc'[d] = "connect" => d # c /\ cpc[d] = "connect"
                                                          /\ stream'[d] = stream[d]
  <2>1. PICK what \in {"send", "recv", "close"}, i \in 1 .. STREAMS[c],
             p \in 1 .. Len(SIZES), k \in 0 .. PACKETS : Goes(c, what, i, p, k)
    BY <1>1, <1>4, AfterRecvGoes
  <2>2. p \in 0 .. Len(SIZES) /\ p # 0
    OBVIOUS
  <2>3. ClientTypes'
    BY <1>1, <2>1, <2>2, GoesType DEF Calls
  <2>4. \A d \in Clients : cpc'[d] = "connect" => d # c /\ cpc[d] = "connect"
                                                /\ stream'[d] = stream[d]
    BY <1>1, <2>1 DEF Goes, TypeOK, Counts
  <2> QED
    BY <2>3, <2>4
<1>6. TypeOK'
  BY <1>1, <1>3, <1>4, <1>5 DEF TypeOK, ClientTypes, serverVars
<1>7. ServerSide' /\ Counts'
  <2>1. owed' \in [Sockets -> Int]
    BY <1>1, <1>2, <1>3, <1>4 DEF Counts
  <2> QED
    BY <1>1, <1>4, <1>5, <2>1 DEF ServerSide, Counts, ClientTypes, serverVars
<1>8. NotConnected'
  <2> SUFFICES ASSUME NEW s \in Sockets, Unconnected(s)' PROVE s # me /\ Unconnected(s)
    BY <1>1, <1>2, <1>4 DEF NotConnected, TypeOK, Counts, serverVars
  <2> QED
    BY <1>2, <1>5, SocketParts DEF Unconnected
<1>9. NothingLost'
  <2> SUFFICES ASSUME NEW s \in Sockets, conn[s] \in Live
               PROVE  owed'[s] = InFlight(up[s]) + InFlight(down'[s])
                                 + (IF target = s THEN held ELSE 0)
    BY <1>4 DEF NothingLost, serverVars
  <2>1. owed[s] = InFlight(up[s]) + InFlight(down[s]) + (IF target = s THEN held ELSE 0)
    BY <1>1 DEF NothingLost
  <2>2. /\ down'[s] = IF me = s THEN rest ELSE down[s]
        /\ owed'[s] = IF me = s THEN owed[s] - n ELSE owed[s]
    BY <1>1, <1>4 DEF TypeOK, Counts
  <2>3. InFlight(up[s]) \in Nat /\ InFlight(down[s]) \in Nat /\ held \in Nat
    BY <1>1, StreamNat DEF TypeOK
  <2> HIDE SelectAssumption
  <2>4. CASE s = me
    BY <1>2, <1>3, <2>1, <2>2, <2>3, <2>4
  <2>5. CASE s # me
    BY <2>1, <2>2, <2>5
  <2> QED
    BY <2>4, <2>5
<1> QED
  BY <1>6, <1>7, <1>8, <1>9 DEF IInv

\* Closing a live connection disturbs nothing, whatever becomes of its client.
LEMMA HangsInv ==
  ASSUME IInv, ClientTypes', UNCHANGED <<serverVars, up, down, owed, short>>,
         \A c \in Clients : cpc'[c] = "connect" => cpc[c] = "connect" /\ stream'[c] = stream[c],
         conn' \in [Sockets -> ConnStates],
         \A s \in Sockets : conn'[s] = conn[s] \/ (conn[s] \in Live /\ conn'[s] \notin Live)
  PROVE  IInv'
<1> USE DEF IInv, serverVars
<1>1. TypeOK'
  BY DEF TypeOK, ClientTypes
<1>2. ServerSide' /\ Counts'
  BY DEF ServerSide, Counts, ClientTypes
<1>3. NotConnected'
  <2>1. \A s \in Sockets : Unconnected(s)' => Unconnected(s)
    BY SocketParts DEF Unconnected
  <2> QED
    BY <2>1 DEF NotConnected, Live
<1>4. NothingLost'
  BY DEF NothingLost
<1> QED
  BY <1>1, <1>2, <1>3, <1>4

LEMMA CloseInv == ASSUME IInv, NEW c \in Clients, Close(c) PROVE IInv'
<1>1. TypeOK /\ Counts
  BY DEF IInv
<1>2. /\ SocketOf(c) \in Sockets
      /\ ~Last(c) => stream[c] + 1 \in 1 .. STREAMS[c]
  BY <1>1, OwnSocket DEF Last
<1>3. /\ cpc[c] = "close" /\ UNCHANGED <<serverVars, up, down, owed, short>>
      /\ conn' = [conn EXCEPT ![SocketOf(c)] =
                    IF conn[SocketOf(c)] \in Live
                    THEN Hangs(SocketOf(c), Pending(SocketOf(c))) ELSE conn[SocketOf(c)]]
      /\ \/ Last(c) /\ Ends(c, "done")
         \/ ~Last(c) /\ Goes(c, "close", stream[c] + 1, phase[c], todo[c])
  BY DEF Close, OnStream
<1>4. ClientTypes' /\ \A d \in Clients : cpc'[d] = "connect" => cpc[d] = "connect"
                                                         /\ stream'[d] = stream[d]
  <2>1. CASE Last(c) /\ Ends(c, "done")
    BY <1>1, <1>3, <2>1 DEF Ends, TypeOK, Counts, ClientTypes, SocketOf
  <2>2. CASE ~Last(c) /\ Goes(c, "close", stream[c] + 1, phase[c], todo[c])
    <3>1. \A d \in Clients : cpc'[d] = "connect" => cpc[d] = "connect"
                                                /\ stream'[d] = stream[d]
      BY <1>1, <2>2 DEF Goes, TypeOK, Counts
    <3>2. cpc' = [cpc EXCEPT ![c] = "close"] /\ UNCHANGED <<phase, todo>>
      BY <1>1, <2>2 DEF Goes, TypeOK
    <3>3. stream' \in [Clients -> Nat] /\ left' \in [Clients -> Nat]
      BY <1>1, <1>2, <2>2 DEF Goes, Counts
    <3>4. \A d \in Clients : SocketOf(d)' \in Sockets
      BY <1>1, <1>2, <2>2, SocketParts DEF Goes, TypeOK, Counts, SocketOf
    <3>5. ClientTypes'
      BY <1>1, <3>2, <3>3, <3>4 DEF TypeOK, Counts, ClientTypes, Calls
    <3> QED
      BY <3>1, <3>5
  <2> QED
    BY <1>3, <2>1, <2>2
<1>5. /\ conn' \in [Sockets -> ConnStates]
      /\ \A s \in Sockets : conn'[s] = conn[s] \/ (conn[s] \in Live /\ conn'[s] \notin Live)
  BY <1>1, <1>2, <1>3 DEF TypeOK, Hangs, ConnStates, Live
<1> QED
  BY <1>3, <1>4, <1>5, HangsInv

LEMMA ClientEndsInv ==
  ASSUME IInv, NEW c \in Clients, ClientFails(c) \/ Stop(c) PROVE IInv'
<1>1. TypeOK /\ Counts
  BY DEF IInv
<1>2. /\ \E how \in {"failed", "stopped"} : Ends(c, how)
      /\ UNCHANGED <<serverVars, up, down, owed, short>>
      /\ \/ conn' = conn
         \/ conn' = [s \in Sockets |-> IF s[1] = c /\ conn[s] \in Live
                                       THEN Hangs(s, Pending(s)) ELSE conn[s]]
  BY DEF ClientFails, Stop, netVars
<1>3. ClientTypes' /\ \A d \in Clients : cpc'[d] = "connect" => cpc[d] = "connect"
                                                         /\ stream'[d] = stream[d]
  BY <1>1, <1>2 DEF Ends, TypeOK, Counts, ClientTypes, SocketOf
<1>4. /\ conn' \in [Sockets -> ConnStates]
      /\ \A s \in Sockets : conn'[s] = conn[s] \/ (conn[s] \in Live /\ conn'[s] \notin Live)
  BY <1>1, <1>2 DEF TypeOK, Hangs, ConnStates, Live
<1> QED
  BY <1>2, <1>3, <1>4, HangsInv

\* A segment moves bytes within a stream.
LEMMA FlowInv == ASSUME IInv, NEW s \in Sockets, Flow(s) PROVE IInv'
<1>1. /\ up[s] \in Streams /\ Moved(up[s]) \in Streams
      /\ InFlight(Moved(up[s])) = InFlight(up[s])
      /\ down[s] \in Streams /\ Moved(down[s]) \in Streams
      /\ InFlight(Moved(down[s])) = InFlight(down[s])
  BY MovedStream DEF IInv, TypeOK
<1>2. /\ conn[s] \in Live \cup {"finished"}
      /\ UNCHANGED <<serverVars, clientVars, owed, short, conn>>
      /\ \/ up' = [up EXCEPT ![s] = Moved(up[s])] /\ down' = down
         \/ down' = [down EXCEPT ![s] = Moved(down[s])] /\ up' = up
  BY DEF Flow, FlowUp, FlowDown
<1> USE DEF IInv, serverVars, clientVars
<1>3. TypeOK'
  <2>1. up' \in [Sockets -> Streams] /\ down' \in [Sockets -> Streams]
    <3>1. up \in [Sockets -> Streams] /\ down \in [Sockets -> Streams]
      BY DEF TypeOK
    <3> HIDE SelectAssumption DEF IInv
    <3> QED
      BY <1>1, <1>2, <3>1
  <2> QED
    BY <1>2, <2>1 DEF TypeOK, SocketOf
<1>4. ServerSide' /\ Counts'
  BY <1>2 DEF ServerSide, Counts
<1>5. NotConnected'
  BY <1>2 DEF TypeOK, NotConnected, Unconnected, Live
<1>6. NothingLost'
  BY <1>1, <1>2 DEF TypeOK, NothingLost
<1> QED
  BY <1>3, <1>4, <1>5, <1>6

\* Every step keeps the invariant.
LEMMA StepInv == ASSUME IInv, [Next]_vars PROVE IInv'
<1>1. CASE ServerStep
  BY <1>1, ServerLooksInv, ServerEndsInv, AcceptInv, EchoClientInv, EndOfStreamInv,
     SendBackInv DEF ServerStep
<1>2. ASSUME NEW c \in Clients, ClientStep(c) \/ Stop(c) PROVE IInv'
  BY <1>2, ConnectInv, SendInv, RecvInv, CloseInv, ClientEndsInv DEF ClientStep
<1>3. CASE UNCHANGED vars
  BY <1>3 DEF vars, serverVars, clientVars, netVars, IInv, TypeOK, SocketOf, Counts,
       ServerSide, NotConnected, Unconnected, NothingLost
<1> QED
  BY <1>1, <1>2, <1>3, FlowInv DEF Next

\* IInv is an invariant of the server and its clients.
THEOREM SelectInvariant == Spec => []IInv
<1> QED
  BY InitInv, StepInv, PTL DEF Spec

\* The variables keep their types: no buffer holds more than its size, and only
\* sockets of the select set are ready and echoed to.
THEOREM SelectTypeOK == Spec => []TypeOK
<1>1. IInv => TypeOK
  BY DEF IInv
<1> QED
  BY <1>1, SelectInvariant, PTL

\* No byte is lost, made up or sent to another client.
THEOREM SelectNothingLost == Spec => []NothingLost
<1>1. IInv => NothingLost
  BY DEF IInv
<1> QED
  BY <1>1, SelectInvariant, PTL

(***************************************************************************)
(* Whole packets                                                            *)
(***************************************************************************)

Size(c) == SIZES[phase[c]]

\* A packet is under way on s: sent and not received back.
UnderWay(s) ==
  LET c == s[1] IN
  \/ cpc[c] = "send" /\ todo[c] > 0 /\ s[2] < stream[c]
  \/ cpc[c] = "recv" /\ todo[c] > 0 /\ s[2] >= stream[c]
  \/ cpc[c] = "recv" /\ todo[c] = 0 /\ s[2] = stream[c]

\* What is owed on s: that packet, what has been sent of the next, or nothing.
Owes(s) ==
  LET c == s[1] IN
  owed[s] = IF UnderWay(s) THEN Size(c)
            ELSE IF cpc[c] = "send" /\ s[2] = stream[c] THEN Size(c) - left[c] ELSE 0

Accounts == \A s \in Sockets : conn[s] \in Live => Owes(s)

\* The sockets a client has connected and not yet closed.
Joined(s) ==
  LET c == s[1] IN
  \/ cpc[c] = "connect" /\ s[2] < stream[c]
  \/ cpc[c] \in {"send", "recv"}
  \/ cpc[c] = "close" /\ s[2] >= stream[c]

\* No connection is reset before the server has ended; one that its client has
\* closed is empty.
Connection(s) ==
  /\ Joined(s) => conn[s] \in Live \cup {"reset"}
  /\ conn[s] = "reset" => spc = "ended"
  /\ conn[s] = "queued" => InFlight(down[s]) = 0 /\ s \notin sockets
  /\ conn[s] = "open" => s \in sockets
  /\ conn[s] = "none" => s \notin sockets
  /\ conn[s] = "finished" => InFlight(up[s]) = 0 /\ InFlight(down[s]) = 0 /\ target # s

Connections == \A s \in Sockets : Connection(s)

\* A client that has received nothing yet.
Early(c) == phase[c] = 0 \/ (phase[c] = 1 /\ stream[c] = 1)

\* A client's counters fit its call.
Counters(c) ==
  /\ cpc[c] = "connect" => phase[c] = 0
  /\ phase[c] <= 1 => todo[c] = 0
  /\ cpc[c] = "send" => left[c] \in 0 .. Size(c)
  /\ cpc[c] = "failed" => Early(c)

Measuring == \A c \in Clients : Counters(c)

\* When the server has no sockets any more, nobody has been left half served.
Ending ==
  /\ spc # "failed"
  /\ spc \in {"leaving", "ended"} =>
       /\ sockets = {}
       /\ \A c \in Clients : cpc[c] = "done" \/ (cpc[c] # "close" /\ Early(c))
  /\ spc = "leaving" => \A s \in Sockets : conn[s] \in {"none", "queued"}
  /\ spc = "ended" => \A s \in Sockets : conn[s] \in {"none", "reset"}

Served == Accounts /\ Connections /\ Measuring /\ Ending

Stopped == \E c \in Clients : cpc[c] = "stopped"

ServedInv == IInv /\ (Stopped \/ short \/ Served)

\* The bytes of a live connection are counts that add up to what is owed.
LEMMA Sum ==
  ASSUME IInv, NEW s \in Sockets
  PROVE  /\ up[s] \in Streams /\ down[s] \in Streams
         /\ up[s].out \in Nat /\ up[s].in \in Nat /\ down[s].out \in Nat /\ down[s].in \in Nat
         /\ InFlight(up[s]) = up[s].out + up[s].in
         /\ InFlight(down[s]) = down[s].out + down[s].in
         /\ held \in Nat /\ owed[s] \in Int
         /\ target = s /\ spc # "failed" => held > 0 /\ spc = "send"
         /\ conn[s] \in Live => owed[s] = up[s].out + up[s].in + down[s].out + down[s].in
                                          + (IF target = s THEN held ELSE 0)
<1>1. up[s] \in Streams /\ down[s] \in Streams /\ held \in 0 .. BUFFER /\ owed[s] \in Int
  BY DEF IInv, TypeOK, Counts
<1>2. up[s].out \in Nat /\ up[s].in \in Nat /\ down[s].out \in Nat /\ down[s].in \in Nat
  BY <1>1, StreamNat
<1>3. InFlight(up[s]) = up[s].out + up[s].in /\ InFlight(down[s]) = down[s].out + down[s].in
  BY DEF InFlight
<1>4. conn[s] \in Live => owed[s] = InFlight(up[s]) + InFlight(down[s])
                                    + (IF target = s THEN held ELSE 0)
  BY DEF IInv, NothingLost
<1>5. target = s /\ spc # "failed" => held > 0 /\ spc = "send"
  BY DEF IInv, ServerSide
<1> HIDE SelectAssumption
<1> QED
  BY <1>1, <1>2, <1>3, <1>4, <1>5

\* When nothing is owed on a connection, nothing is in it.
LEMMA NothingOwed ==
  ASSUME IInv, NEW s \in Sockets, conn[s] \in Live, owed[s] = 0
  PROVE  /\ InFlight(up[s]) = 0 /\ InFlight(down[s]) = 0
         /\ target = s => held = 0
<1> DEFINE uo == up[s].out
           ui == up[s].in
           do == down[s].out
           di == down[s].in
           h == IF target = s THEN held ELSE 0
<1>1. uo \in Nat /\ ui \in Nat /\ do \in Nat /\ di \in Nat /\ h \in Nat
  BY Sum
<1>2. 0 = uo + ui + do + di + h
  BY Sum
<1>3. InFlight(up[s]) = uo + ui /\ InFlight(down[s]) = do + di
  BY Sum
<1> HIDE DEF uo, ui, do, di, h
<1>4. uo = 0 /\ ui = 0 /\ do = 0 /\ di = 0 /\ h = 0
  BY <1>1, <1>2
<1> QED
  BY <1>3, <1>4 DEF h

\* ServedInv holds at first.
LEMMA InitServes == ASSUME Init PROVE ServedInv
<1>1. Accounts /\ Measuring /\ Ending
  BY DEF Init, NetInit, Accounts, Live, Measuring, Counters, Ending
<1>2. Connections
  <2> SUFFICES ASSUME NEW s \in Sockets PROVE Connection(s)
    BY DEF Connections
  <2>1. s[1] \in Clients /\ s[2] \in Nat \ {0}
    BY SocketParts
  <2>2. ~Joined(s) /\ conn[s] = "none" /\ sockets = {}
    BY <2>1 DEF Init, NetInit, Joined
  <2> QED
    BY <2>2 DEF Connection
<1> QED
  BY <1>1, <1>2, InitInv DEF ServedInv, Served

\* Steps that change neither a connection nor a byte nor a client.
LEMMA ServerLooksServes ==
  ASSUME IInv, Served, ~Stopped, Listen \/ Select \/ TimesOut \/ Visited
  PROVE  Served'
<1>1. /\ spc \in {"start", "select", "visit"}
      /\ spc' \in {"select", "accept", "visit", "leaving"}
      /\ UNCHANGED <<sockets, target, held, clientVars, netVars, owed, short>>
  BY DEF Listen, Select, TimesOut, Visited
<1> USE DEF clientVars, netVars
<1>2. Accounts'
  BY <1>1 DEF Served, Accounts, Owes, UnderWay, Size
<1>3. Connections'
  BY <1>1 DEF Served, Connections, Connection, Joined
<1>4. Measuring'
  BY <1>1 DEF Served, Measuring, Counters, Early, Size
<1>5. Ending'
  <2>1. CASE spc' # "leaving"
    BY <1>1, <2>1 DEF Ending
  <2>2. CASE spc' = "leaving"
    <3>1. sockets = {} /\ Waiting = {} /\ spc = "select"
      BY <2>2, <1>1 DEF Listen, Select, TimesOut, Visited
    <3>2. \A s \in Sockets : conn[s] = "none"
      BY <3>1 DEF IInv, TypeOK, ConnStates, Waiting, Served, Connections, Connection
    <3>3. \A s \in Sockets : ~Joined(s)
      BY <3>2 DEF Served, Connections, Connection, Live
    <3> SUFFICES ASSUME NEW c \in Clients
                 PROVE  cpc[c] = "done" \/ (cpc[c] # "close" /\ Early(c))
      BY <1>1, <2>2, <3>1, <3>2 DEF Ending, Early
    <3>4. ~Joined(SocketOf(c)) /\ SocketOf(c)[1] = c /\ SocketOf(c)[2] = stream[c]
          /\ stream[c] \in Nat
      BY <3>3, OwnSocket DEF IInv
    <3>5. cpc[c] \notin {"send", "recv", "close"}
      BY <3>4 DEF Joined
    <3>6. cpc[c] # "stopped" /\ Counters(c)
      BY DEF Stopped, Served, Measuring
    <3> QED
      BY <3>5, <3>6 DEF Counters, Early, IInv, TypeOK, Calls
  <2> QED
    BY <2>1, <2>2
<1> QED
  BY <1>2, <1>3, <1>4, <1>5 DEF Served

\* When the server leaves nobody has been served by half.
LEMMA KillServerServes == ASSUME IInv, Served, KillServer PROVE Served'
<1>1. /\ spc = "leaving" /\ spc' = "ended"
      /\ conn' = [s \in Sockets |-> IF conn[s] = "none" THEN "none" ELSE "reset"]
      /\ UNCHANGED <<sockets, ready, target, held, clientVars, up, down, owed, short>>
  BY DEF KillServer, ServerGone
<1> USE DEF clientVars
<1>2. Accounts'
  BY <1>1 DEF Accounts, Live
<1>3. Connections'
  BY <1>1 DEF Served, Connections, Connection, Joined, Live
<1>4. Measuring' /\ Ending'
  BY <1>1 DEF Served, Measuring, Counters, Early, Size, Ending
<1> QED
  BY <1>2, <1>3, <1>4 DEF Served

\* The server never fails.
LEMMA NeverFails == ASSUME IInv, Served PROVE ~ServerFails
<1> SUFFICES ASSUME ServerFails PROVE FALSE
  OBVIOUS
<1> USE DEF Served, Connections, Connection
<1>1. CASE spc = "visit" /\ \E s \in ready : up[s].in = 0 /\ conn[s] = "reset"
  BY <1>1 DEF IInv, TypeOK
<1>2. CASE spc = "send" /\ conn[target] \in {"reset", "finished"}
  BY <1>2 DEF IInv, TypeOK, ServerSide
<1> QED
  BY <1>1, <1>2 DEF ServerFails

\* Taking in a connection and letting it go.
LEMMA AcceptServes == ASSUME IInv, Served, NEW s \in Sockets, Accept(s) PROVE Served'
<1>1. /\ spc = "accept" /\ spc' = "visit" /\ sockets' = sockets \cup {s}
      /\ conn[s] \in {"queued", "finished"}
      /\ conn' = [conn EXCEPT ![s] = IF conn[s] = "queued" THEN "open" ELSE conn[s]]
      /\ UNCHANGED <<ready, target, held, clientVars, up, down, owed, short>>
  BY DEF Accept, Waiting
<1> USE DEF clientVars
<1>2. \A t \in Sockets : conn'[t] = IF t = s /\ conn[s] = "queued" THEN "open" ELSE conn[t]
  BY <1>1 DEF IInv, TypeOK
<1>3. Accounts'
  BY <1>1, <1>2 DEF Served, Accounts, Owes, UnderWay, Size, Live
<1>4. Connections'
  BY <1>1, <1>2 DEF Served, Connections, Connection, Joined, Live
<1>5. Measuring' /\ Ending'
  BY <1>1 DEF Served, Measuring, Counters, Early, Size, Ending
<1> QED
  BY <1>3, <1>4, <1>5 DEF Served

LEMMA EndOfStreamServes == ASSUME IInv, Served, NEW s \in Sockets, EndOfStream(s) PROVE Served'
<1>1. /\ spc = "visit" /\ spc' = spc /\ sockets' = sockets \ {s}
      /\ conn[s] = "finished" /\ conn' = [conn EXCEPT ![s] = "none"]
      /\ UNCHANGED <<target, held, clientVars, up, down, owed, short>>
  BY DEF EndOfStream, Erase
<1> USE DEF clientVars
<1>2. \A t \in Sockets : conn'[t] = IF t = s THEN "none" ELSE conn[t]
  BY <1>1 DEF IInv, TypeOK
<1>3. Accounts'
  BY <1>1, <1>2 DEF Served, Accounts, Owes, UnderWay, Size, Live
<1>4. Connections'
  BY <1>1, <1>2 DEF Served, Connections, Connection, Joined, Live
<1>5. Measuring' /\ Ending'
  BY <1>1 DEF Served, Measuring, Counters, Early, Size, Ending
<1> QED
  BY <1>3, <1>4, <1>5 DEF Served

\* recv takes what has come, if its client is still there.
LEMMA EchoClientServes == ASSUME IInv, Served, NEW s \in Sockets, EchoClient(s) PROVE Served'
<1>1. /\ spc = "visit" /\ spc' = "send" /\ target' = s
      /\ up' = [up EXCEPT ![s] = Taken(up[s], Received(up[s], BUFFER))]
      /\ up[s].in > 0 /\ s \in ready
      /\ UNCHANGED <<sockets, clientVars, conn, down, owed, short>>
  BY DEF EchoClient, Echoed
<1>2. conn[s] = "open"
  <2>1. s \in sockets /\ conn[s] \in ConnStates
    BY <1>1 DEF IInv, TypeOK
  <2>2. conn[s] \notin {"none", "queued", "reset"}
    BY <1>1, <2>1 DEF Served, Connections, Connection
  <2>3. conn[s] # "finished"
    <3> SUFFICES ASSUME conn[s] = "finished" PROVE FALSE
      OBVIOUS
    <3>1. InFlight(up[s]) = 0
      BY DEF Served, Connections, Connection
    <3>2. up[s].out \in Nat /\ up[s].in \in Nat /\ InFlight(up[s]) = up[s].out + up[s].in
      BY Sum
    <3> HIDE SelectAssumption
    <3> QED
      BY <1>1, <3>1, <3>2
  <2> QED
    BY <2>1, <2>2, <2>3 DEF ConnStates
<1> USE DEF clientVars
<1>3. \A t \in Sockets : t # s => up'[t] = up[t]
  BY <1>1 DEF IInv, TypeOK
<1>4. Accounts'
  BY <1>1 DEF Served, Accounts, Owes, UnderWay, Size
<1>5. Connections'
  <2> SUFFICES ASSUME NEW t \in Sockets PROVE Connection(t)'
    BY DEF Connections
  <2>1. Connection(t)
    BY DEF Served, Connections
  <2> QED
    BY <1>1, <1>2, <1>3, <2>1 DEF Connection, Joined
<1>6. Measuring' /\ Ending'
  BY <1>1 DEF Served, Measuring, Counters, Early, Size, Ending
<1> QED
  BY <1>4, <1>5, <1>6 DEF Served

\* send passes some of it on, to a connection that is open.
LEMMA SendBackServes == ASSUME IInv, Served, SendBack PROVE Served'
<1>1. /\ \E more : down' = [down EXCEPT ![target] = more]
      /\ spc = "send" /\ spc' \in {"send", "visit"} /\ conn[target] = "open"
      /\ target' \in {NULL, target}
      /\ UNCHANGED <<sockets, ready, clientVars, conn, up, owed, short>>
  BY DEF SendBack
<1> USE DEF clientVars
<1>2. target \in Sockets /\ NULL \notin Sockets
  BY <1>1 DEF IInv, TypeOK, ServerSide
<1>3. \A t \in Sockets : t # target => down'[t] = down[t]
  BY <1>1 DEF IInv, TypeOK
<1>4. Accounts'
  BY <1>1 DEF Served, Accounts, Owes, UnderWay, Size
<1>5. Connections'
  <2> SUFFICES ASSUME NEW t \in Sockets PROVE Connection(t)'
    BY DEF Connections
  <2>1. Connection(t)
    BY DEF Served, Connections
  <2> QED
    BY <1>1, <1>2, <1>3, <2>1 DEF Connection, Joined
<1>6. Measuring' /\ Ending'
  BY <1>1 DEF Served, Measuring, Counters, Early, Size, Ending
<1> QED
  BY <1>4, <1>5, <1>6 DEF Served

\* What Goes makes of the counters; those of the other clients stay.
Others(c) ==
  \A d \in Clients \ {c} :
    /\ cpc'[d] = cpc[d] /\ stream'[d] = stream[d] /\ phase'[d] = phase[d]
    /\ todo'[d] = todo[d] /\ left'[d] = left[d]

LEMMA GoesTo ==
  ASSUME TypeOK, Counts, NEW c \in Clients, NEW what, NEW i, NEW p, NEW k, Goes(c, what, i, p, k)
  PROVE  /\ cpc'[c] = what /\ stream'[c] = i /\ phase'[c] = p /\ todo'[c] = k
         /\ what = "send" => left'[c] = SIZES[p]
         /\ Others(c)
BY DEF Goes, TypeOK, Counts, Others

LEMMA EndsAt ==
  ASSUME TypeOK, Counts, NEW c \in Clients, NEW how, Ends(c, how)
  PROVE  /\ cpc'[c] = how /\ Others(c)
         /\ UNCHANGED <<stream, phase, todo, left>>
BY DEF Ends, TypeOK, Counts, Others

\* A step of c leaves the sockets of the others as they were for them.
LEMMA OthersKept ==
  ASSUME NEW c \in Clients, Others(c), NEW s \in Sockets, s[1] # c
  PROVE  /\ UnderWay(s)' <=> UnderWay(s)
         /\ Joined(s)' <=> Joined(s)
         /\ Size(s[1])' = Size(s[1])
<1>1. s[1] \in Clients \ {c}
  BY SocketParts
<1> QED
  BY <1>1 DEF Others, UnderWay, Joined, Size

\* Nor is anything else owed on them.
LEMMA OthersOwe ==
  ASSUME NEW c \in Clients, Others(c), NEW s \in Sockets, s[1] # c, Owes(s), owed'[s] = owed[s]
  PROVE  Owes(s)'
<1>1. s[1] \in Clients \ {c}
  BY SocketParts
<1> QED
  BY <1>1, OthersKept DEF Others, Owes

\* Of the clients only c has anything to show.
LEMMA ClientServes ==
  ASSUME IInv, Served, NEW c \in Clients, Others(c), spc' = spc, sockets' = sockets,
         Counters(c)',
         spc \in {"leaving", "ended"} =>
           cpc'[c] = "done" \/ (cpc'[c] # "close" /\ Early(c)'),
         spc = "leaving" => \A s \in Sockets : conn'[s] \in {"none", "queued"},
         spc = "ended" => \A s \in Sockets : conn'[s] \in {"none", "reset"}
  PROVE  Measuring' /\ Ending'
<1>1. Measuring'
  <2> SUFFICES ASSUME NEW d \in Clients \ {c} PROVE Counters(d)'
    BY DEF Measuring
  <2> QED
    BY DEF Served, Measuring, Counters, Early, Size, Others
<1>2. Ending'
  BY DEF Served, Ending, Early, Others
<1> QED
  BY <1>1, <1>2

\* A client connects before it has sent anything.
LEMMA ConnectServes == ASSUME IInv, Served, NEW c \in Clients, Connect(c) PROVE Served'
<1> DEFINE me == SocketOf(c)
<1>1. TypeOK /\ Counts /\ NotConnected
  BY DEF IInv
<1>2. /\ me \in Sockets /\ me[1] = c /\ me[2] = stream[c]
      /\ stream[c] \in 1 .. STREAMS[c] /\ STREAMS[c] \in Nat \ {0}
      /\ \A s \in Sockets : s[1] = c /\ s[2] = stream[c] => s = me
  BY <1>1, OwnSocket
<1>3. cpc[c] = "connect" /\ UNCHANGED <<serverVars, up, down, owed, short>> /\ Counters(c)
  BY DEF Connect, Served, Measuring
<1>4. phase[c] = 0 /\ todo[c] = 0
  BY <1>3 DEF Counters
<1> HIDE DEF me
<1> USE DEF serverVars
<1>5. CASE ~Listening
  <2>1. Ends(c, "failed") /\ conn' = conn
    BY <1>5 DEF Connect
  <2>2. cpc'[c] = "failed" /\ Others(c) /\ UNCHANGED <<stream, phase, todo, left>>
    BY <1>1, <2>1, EndsAt
  <2>3. \A s \in Sockets : s[1] = c => ~UnderWay(s) /\ ~UnderWay(s)' /\ ~Joined(s)'
    BY <1>3, <2>2 DEF UnderWay, Joined
  <2>4. Accounts'
    <3> SUFFICES ASSUME NEW s \in Sockets, conn[s] \in Live PROVE Owes(s)'
      BY <2>1 DEF Accounts
    <3>1. Owes(s) /\ owed'[s] = owed[s]
      BY <1>3 DEF Served, Accounts
    <3>2. CASE s[1] = c
      BY <1>3, <2>2, <2>3, <3>1, <3>2 DEF Owes
    <3>3. CASE s[1] # c
      BY <2>2, <3>1, <3>3, OthersOwe
    <3> QED
      BY <3>2, <3>3
  <2>5. Connections'
    BY <1>3, <2>1, <2>2, <2>3, OthersKept DEF Served, Connections, Connection
  <2>6. Measuring' /\ Ending'
    <3>1. Counters(c)' /\ Early(c)'
      BY <1>4, <2>2 DEF Counters, Early
    <3> QED
      BY <1>3, <2>1, <2>2, <3>1, ClientServes DEF Served, Ending
  <2> QED
    BY <2>4, <2>5, <2>6 DEF Served
<1>6. CASE Listening
  <2>1. /\ conn' = [conn EXCEPT ![me] = "queued"]
        /\ \/ Last(c) /\ Goes(c, "send", 1, 1, 0)
           \/ ~Last(c) /\ Goes(c, "connect", stream[c] + 1, 0, 0)
    BY <1>4, <1>6 DEF Connect, OnStream, me
  <2>2. \A s \in Sockets : conn'[s] = IF s = me THEN "queued" ELSE conn[s]
    BY <1>1, <2>1 DEF TypeOK
  <2>3. /\ Others(c) /\ todo'[c] = 0
        /\ \/ stream[c] = STREAMS[c] /\ cpc'[c] = "send" /\ stream'[c] = 1 /\ phase'[c] = 1
              /\ left'[c] = SIZES[1]
           \/ cpc'[c] = "connect" /\ stream'[c] = stream[c] + 1 /\ phase'[c] = 0
    BY <1>1, <2>1, GoesTo DEF Last
  <2>4. \A s \in Sockets : s[1] = c => ~UnderWay(s) /\ ~UnderWay(s)'
                                     /\ (Joined(s)' => Joined(s) \/ s = me)
    <3> SUFFICES ASSUME NEW s \in Sockets, s[1] = c
                 PROVE  ~UnderWay(s) /\ ~UnderWay(s)' /\ (Joined(s)' => Joined(s) \/ s = me)
      OBVIOUS
    <3>1. s[2] \in 1 .. STREAMS[c]
      BY SocketParts
    <3>2. ~UnderWay(s) /\ ~UnderWay(s)'
      BY <1>3, <2>3 DEF UnderWay
    <3>3. Joined(s)' => s[2] <= stream[c]
      BY <1>2, <1>3, <2>3, <3>1 DEF Joined
    <3>4. s[2] < stream[c] => Joined(s)
      BY <1>3 DEF Joined
    <3> QED
      BY <1>2, <3>1, <3>2, <3>3, <3>4
  <2>5. conn[me] = "none" /\ up[me] = EmptyStream /\ down[me] = EmptyStream
        /\ owed[me] = 0 /\ me \notin sockets /\ target # me
    <3>1. Unconnected(me)
      BY <1>2, <1>3 DEF Unconnected
    <3> QED
      BY <1>1, <1>2, <3>1 DEF NotConnected, TypeOK
  <2>6. Accounts'
    <3> SUFFICES ASSUME NEW s \in Sockets, conn'[s] \in Live PROVE Owes(s)'
      BY DEF Accounts
    <3>1. owed'[s] = owed[s] /\ SIZES[1] \in Nat
      BY <1>3, SizeType
    <3>2. CASE s[1] = c
      <4>1. ~UnderWay(s) /\ ~UnderWay(s)' /\ owed[s] = 0
        <5>1. CASE s = me
          BY <2>4, <2>5, <3>2, <5>1
        <5>2. CASE s # me
          BY <1>3, <2>2, <2>4, <3>2, <5>2 DEF Served, Accounts, Owes
        <5> QED
          BY <5>1, <5>2
      <4>2. cpc'[c] = "send" => left'[c] = SIZES[1] /\ Size(c)' = SIZES[1]
        BY <2>3 DEF Size
      <4> QED
        BY <3>1, <3>2, <4>1, <4>2 DEF Owes
    <3>3. CASE s[1] # c
      <4>1. Owes(s)
        BY <1>2, <2>2, <3>3 DEF Served, Accounts
      <4> QED
        BY <2>3, <3>1, <3>3, <4>1, OthersOwe
    <3> QED
      BY <3>2, <3>3
  <2>7. Connections'
    <3> SUFFICES ASSUME NEW s \in Sockets PROVE Connection(s)'
      BY DEF Connections
    <3>1. Connection(s) /\ (Joined(s)' => Joined(s) \/ s = me)
      BY <2>3, <2>4, OthersKept DEF Served, Connections
    <3>2. InFlight(EmptyStream) = 0
      BY DEF InFlight, EmptyStream
    <3> QED
      BY <1>3, <2>2, <2>5, <3>1, <3>2 DEF Connection, Live
  <2>8. Measuring' /\ Ending'
    <3>1. Counters(c)' /\ Early(c)' /\ cpc'[c] # "close"
      <4>1. SIZES[1] \in Nat
        BY SizeType
      <4> QED
        BY <2>3, <4>1 DEF Counters, Early, Size
    <3> QED
      BY <1>3, <1>6, <2>2, <2>3, <3>1, ClientServes DEF Served, Ending, Listening
  <2> QED
    BY <2>6, <2>7, <2>8 DEF Served
<1> QED
  BY <1>5, <1>6

\* A client sends a piece of its packet, on a socket with nothing else under way.
LEMMA SendServes == ASSUME IInv, Served, NEW c \in Clients, Send(c) PROVE Served'
<1> DEFINE me == SocketOf(c)
           n == Accepted(up[me], left[c])
           more == Sent(up[me], n)
<1>1. TypeOK /\ Counts
  BY DEF IInv
<1>2. /\ me \in Sockets /\ me[1] = c /\ me[2] = stream[c]
      /\ stream[c] \in 1 .. STREAMS[c] /\ STREAMS[c] \in Nat \ {0}
      /\ \A s \in Sockets : s[1] = c /\ s[2] = stream[c] => s = me
  BY <1>1, OwnSocket
<1>3. /\ up' = [up EXCEPT ![me] = more] /\ owed' = [owed EXCEPT ![me] = owed[me] + n]
      /\ cpc[c] = "send" /\ conn[me] \in Live
      /\ IF n = left[c] THEN AfterSend(c)
         ELSE left' = [left EXCEPT ![c] = left[c] - n] /\ UNCHANGED <<cpc, stream, phase, todo>>
      /\ UNCHANGED <<serverVars, conn, down, short>>
  BY DEF Send
<1>4. /\ Counters(c) /\ left[c] \in 0 .. Size(c) /\ Size(c) \in Nat
      /\ todo[c] \in Nat /\ phase[c] \in 1 .. Len(SIZES)
  <2>1. Counters(c) /\ todo[c] \in Nat /\ phase[c] \in 1 .. Len(SIZES)
    BY <1>1, <1>3 DEF Served, Measuring, TypeOK, Counts
  <2> QED
    BY <1>3, <2>1, SizeType DEF Counters, Size
<1>5. ~UnderWay(me)
  BY <1>2, <1>3 DEF UnderWay
<1>6. owed[me] = Size(c) - left[c]
  BY <1>2, <1>3, <1>5 DEF Served, Accounts, Owes
<1>7. n \in 0 .. left[c]
  <2>1. up[me] \in Streams /\ left[c] \in Nat
    BY <1>2, <1>4, Sum
  <2> HIDE SelectAssumption
  <2> QED
    BY <2>1, SentStream
<1> HIDE DEF me, n, more
<1> USE DEF serverVars
<1>8. /\ Others(c) /\ phase'[c] = phase[c] /\ todo'[c] = todo[c]
      /\ \/ n # left[c] /\ cpc'[c] = "send" /\ stream'[c] = stream[c] /\ left'[c] = left[c] - n
         \/ n = left[c] /\ todo[c] = 0 /\ cpc'[c] = "recv" /\ stream'[c] = stream[c]
         \/ /\ n = left[c] /\ todo[c] > 0 /\ stream[c] = STREAMS[c]
            /\ cpc'[c] = "recv" /\ stream'[c] = 1
         \/ /\ n = left[c] /\ todo[c] > 0 /\ stream[c] # STREAMS[c] /\ cpc'[c] = "send"
            /\ stream'[c] = stream[c] + 1 /\ left'[c] = Size(c)
  <2>1. CASE n = left[c]
    BY <1>1, <1>3, <1>4, <2>1, GoesTo DEF AfterSend, OnStream, Last, Size
  <2>2. CASE n # left[c]
    BY <1>1, <1>3, <2>2 DEF Others, Counts
  <2> QED
    BY <2>1, <2>2
<1>9. \A s \in Sockets : s[1] = c => /\ UnderWay(s)' <=> UnderWay(s) \/ (s = me /\ n = left[c])
                                     /\ Joined(s)' <=> Joined(s)
  <2> SUFFICES ASSUME NEW s \in Sockets, s[1] = c
               PROVE  /\ UnderWay(s)' <=> UnderWay(s) \/ (s = me /\ n = left[c])
                      /\ Joined(s)' <=> Joined(s)
    OBVIOUS
  <2>1. s[2] \in 1 .. STREAMS[c] /\ (s[2] = stream[c] <=> s = me)
    BY <1>2, SocketParts
  <2>2. UnderWay(s) <=> todo[c] > 0 /\ s[2] < stream[c]
    BY <1>3 DEF UnderWay
  <2>3. Joined(s)' /\ Joined(s)
    BY <1>3, <1>8 DEF Joined
  <2>4. CASE n # left[c] /\ cpc'[c] = "send" /\ stream'[c] = stream[c]
    <3>1. UnderWay(s)' <=> todo[c] > 0 /\ s[2] < stream[c]
      BY <1>8, <2>4 DEF UnderWay
    <3> QED
      BY <2>2, <2>3, <2>4, <3>1
  <2>5. CASE n = left[c] /\ todo[c] = 0 /\ cpc'[c] = "recv" /\ stream'[c] = stream[c]
    <3>1. UnderWay(s)' <=> s[2] = stream[c]
      BY <1>8, <2>5 DEF UnderWay
    <3>2. ~UnderWay(s)
      BY <2>2, <2>5
    <3> QED
      BY <2>1, <2>3, <2>5, <3>1, <3>2
  <2>6. CASE n = left[c] /\ todo[c] > 0 /\ stream[c] = STREAMS[c]
             /\ cpc'[c] = "recv" /\ stream'[c] = 1
    <3>1. UnderWay(s)'
      BY <1>8, <2>1, <2>6 DEF UnderWay
    <3>2. UnderWay(s) \/ s[2] = stream[c]
      BY <1>2, <2>1, <2>2, <2>6
    <3> QED
      BY <2>1, <2>3, <2>6, <3>1, <3>2
  <2>7. CASE n = left[c] /\ todo[c] > 0 /\ cpc'[c] = "send" /\ stream'[c] = stream[c] + 1
    <3>1. UnderWay(s)' <=> s[2] < stream[c] + 1
      BY <1>8, <2>7 DEF UnderWay
    <3>2. s[2] < stream[c] + 1 <=> s[2] < stream[c] \/ s[2] = stream[c]
      BY <1>2, <2>1
    <3> QED
      BY <2>1, <2>2, <2>3, <2>7, <3>1, <3>2
  <2> QED
    BY <1>8, <2>4, <2>5, <2>6, <2>7
<1>10. \A s \in Sockets : /\ up'[s] = IF s = me THEN more ELSE up[s]
                          /\ owed'[s] = IF s = me THEN owed[s] + n ELSE owed[s]
  BY <1>1, <1>3 DEF TypeOK, Counts
<1>11. Size(c)' = Size(c)
  BY <1>8 DEF Size
<1>12. Accounts'
  <2> SUFFICES ASSUME NEW s \in Sockets, conn[s] \in Live PROVE Owes(s)'
    BY <1>3 DEF Accounts
  <2>1. CASE s = me /\ n = left[c]
    <3>1. owed'[s] = Size(c) /\ UnderWay(s)'
      BY <1>2, <1>4, <1>6, <1>9, <1>10, <2>1
    <3> QED
      BY <1>2, <1>11, <2>1, <3>1 DEF Owes
  <2>2. CASE s = me /\ n # left[c]
    <3>1. owed'[s] = Size(c) - (left[c] - n) /\ ~UnderWay(s)'
      BY <1>2, <1>4, <1>5, <1>6, <1>7, <1>9, <1>10, <2>2
    <3> QED
      BY <1>2, <1>8, <1>11, <2>2, <3>1 DEF Owes
  <2>3. CASE s # me /\ s[1] = c
    <3>1. Owes(s) /\ (UnderWay(s)' <=> UnderWay(s)) /\ s[2] # stream[c]
      BY <1>2, <1>9, <2>3 DEF Served, Accounts
    <3>2. owed'[s] = owed[s] /\ owed[s] = (IF UnderWay(s) THEN Size(c) ELSE 0)
      BY <1>10, <2>3, <3>1 DEF Owes
    <3>3. ~UnderWay(s)' => ~(cpc'[c] = "send" /\ s[2] = stream'[c]) \/ left'[c] = Size(c)
      BY <1>8, <3>1
    <3> QED
      BY <1>4, <1>11, <2>3, <3>1, <3>2, <3>3 DEF Owes
  <2>4. CASE s[1] # c
    BY <1>2, <1>8, <1>10, <2>4, OthersOwe DEF Served, Accounts
  <2> QED
    BY <2>1, <2>2, <2>3, <2>4
<1>13. Connections'
  <2> SUFFICES ASSUME NEW s \in Sockets PROVE Connection(s)'
    BY DEF Connections
  <2>1. Connection(s) /\ (Joined(s)' <=> Joined(s))
    BY <1>8, <1>9, OthersKept DEF Served, Connections
  <2>2. conn[s] = "finished" => up'[s] = up[s]
    BY <1>3, <1>10 DEF Live
  <2> QED
    BY <1>3, <2>1, <2>2 DEF Connection
<1>14. Measuring' /\ Ending'
  <2>1. Counters(c)' /\ cpc'[c] # "close"
    BY <1>4, <1>7, <1>8, <1>11 DEF Counters
  <2>2. spc \in {"leaving", "ended"} => Early(c)'
    <3>1. spc \in {"leaving", "ended"} => Early(c)
      BY <1>3 DEF Served, Ending
    <3> QED
      BY <1>4, <1>8, <3>1 DEF Early, Counters
  <2> QED
    BY <1>3, <1>8, <2>1, <2>2, ClientServes DEF Served, Ending
<1> QED
  BY <1>12, <1>13, <1>14 DEF Served

\* A client receives all of its packet, from a server that has taken it in.
LEMMA RecvServes ==
  ASSUME IInv, Served, NEW c \in Clients, Recv(c), ~short'
  PROVE  Served'
<1> DEFINE me == SocketOf(c)
           n == Received(down[me], Asked(c))
           rest == Taken(down[me], n)
<1>1. TypeOK /\ Counts
  BY DEF IInv
<1>2. /\ me \in Sockets /\ me[1] = c /\ me[2] = stream[c]
      /\ stream[c] \in 1 .. STREAMS[c] /\ STREAMS[c] \in Nat \ {0}
      /\ \A s \in Sockets : s[1] = c /\ s[2] = stream[c] => s = me
  BY <1>1, OwnSocket
<1>3. /\ down' = [down EXCEPT ![me] = rest] /\ owed' = [owed EXCEPT ![me] = owed[me] - n]
      /\ cpc[c] = "recv" /\ conn[me] \in Live /\ n > 0 /\ AfterRecv(c)
      /\ UNCHANGED <<serverVars, conn, up>> /\ ~(n < Asked(c))
  BY DEF Recv
<1>4. Counters(c) /\ todo[c] \in Nat /\ phase[c] \in 1 .. Len(SIZES) /\ phase[c] \in Nat
  BY <1>1, <1>3 DEF Served, Measuring, TypeOK, Counts
<1>5. UnderWay(me)
  BY <1>2, <1>3, <1>4 DEF UnderWay
<1>6. /\ Owes(me) /\ down[me] \in Streams /\ down[me].in \in Nat
      /\ Size(c) \in Nat \ {0}
  <2>1. Size(c) \in Nat \ {0}
    BY <1>4, SizeType DEF Size
  <2> QED
    BY <1>2, <1>3, <2>1, Sum DEF Served, Accounts
<1>7. owed[me] = Size(c)
  BY <1>2, <1>5, <1>6 DEF Owes
<1>8. n = Size(c) /\ down[me].in >= Size(c)
  <2>1. n \in 0 .. Size(c) /\ rest.in = down[me].in - n /\ rest \in Streams
    BY <1>6, TakenStream DEF Asked, Size
  <2>2. ~(n < Size(c))
    BY <1>3 DEF Asked, Size
  <2>3. rest.in \in Nat
    BY <2>1, StreamNat
  <2> HIDE SelectAssumption DEF n, rest
  <2> QED
    BY <1>6, <2>1, <2>2, <2>3
<1>10. conn[me] = "open" /\ spc \notin {"leaving", "ended"}
  <2>1. InFlight(down[me]) # 0
    <3>1. down[me].out \in Nat /\ InFlight(down[me]) = down[me].out + down[me].in
      BY <1>2, Sum
    <3> HIDE SelectAssumption DEF me
    <3> QED
      BY <1>6, <1>8, <3>1
  <2>2. conn[me] # "queued"
    BY <1>2, <2>1 DEF Served, Connections, Connection
  <2> QED
    BY <1>2, <1>3, <2>2 DEF Live, Served, Ending
<1> HIDE DEF me, n, rest
<1> USE DEF serverVars
<1>11. /\ Others(c)
       /\ \/ /\ todo[c] = 0 /\ cpc'[c] = "send" /\ left'[c] = Size(c)'
             /\ todo'[c] = 0 /\ phase'[c] = phase[c]
          \/ /\ todo[c] > 0 /\ stream[c] # STREAMS[c] /\ cpc'[c] = "recv"
             /\ stream'[c] = stream[c] + 1 /\ todo'[c] = todo[c] /\ phase'[c] = phase[c]
          \/ /\ stream[c] = STREAMS[c] /\ cpc'[c] = "send" /\ left'[c] = Size(c)'
             /\ stream'[c] = 1 /\ phase'[c] \in Nat /\ phase'[c] > 1
          \/ /\ stream[c] = STREAMS[c] /\ todo[c] = 0 /\ cpc'[c] = "close"
             /\ stream'[c] = 1 /\ todo'[c] = 0 /\ phase'[c] = phase[c]
  <2> USE DEF Size, Last, OnStream
  <2>1. CASE phase[c] = 1 /\ OnStream(c, "send", stream[c])
    <3>1. todo[c] = 0
      BY <1>4, <2>1 DEF Counters
    <3> QED
      BY <1>1, <2>1, <3>1, GoesTo
  <2>2. CASE ~Last(c) /\ OnStream(c, IF todo[c] = 0 THEN "send" ELSE "recv", stream[c] + 1)
    BY <1>1, <1>4, <2>2, GoesTo
  <2>3. CASE Last(c) /\ todo[c] > 0 /\ Goes(c, "send", 1, phase[c], todo[c] - 1)
    <3>1. phase[c] \in Nat /\ phase[c] > 1
      BY <1>4, <2>3 DEF Counters
    <3> QED
      BY <1>1, <2>3, <3>1, GoesTo
  <2>4. CASE Last(c) /\ todo[c] = 0 /\ phase[c] < Len(SIZES)
             /\ Goes(c, "send", 1, phase[c] + 1, PACKETS)
    <3>1. phase[c] + 1 \in Nat /\ phase[c] + 1 > 1
      BY <1>4
    <3> QED
      BY <1>1, <2>4, <3>1, GoesTo
  <2>5. CASE Last(c) /\ todo[c] = 0 /\ OnStream(c, "close", 1)
    BY <1>1, <2>5, GoesTo
  <2> QED
    BY <1>3, <2>1, <2>2, <2>3, <2>4, <2>5 DEF AfterRecv
<1>12. \A s \in Sockets : s[1] = c => /\ UnderWay(s)' <=> UnderWay(s) /\ s # me
                                      /\ Joined(s)' <=> Joined(s)
  <2> SUFFICES ASSUME NEW s \in Sockets, s[1] = c
               PROVE  (UnderWay(s)' <=> UnderWay(s) /\ s # me) /\ (Joined(s)' <=> Joined(s))
    OBVIOUS
  <2>1. s[2] \in 1 .. STREAMS[c] /\ (s[2] = stream[c] <=> s = me)
    BY <1>2, SocketParts
  <2>2. UnderWay(s) <=> IF todo[c] = 0 THEN s[2] = stream[c] ELSE s[2] >= stream[c]
    BY <1>3, <1>4 DEF UnderWay
  <2>3. Joined(s)' /\ Joined(s)
    BY <1>3, <1>11, <2>1 DEF Joined
  <2>4. CASE todo[c] = 0 /\ cpc'[c] = "send" /\ todo'[c] = 0
    BY <2>1, <2>2, <2>3, <2>4 DEF UnderWay
  <2>5. CASE todo[c] > 0 /\ cpc'[c] = "recv" /\ stream'[c] = stream[c] + 1 /\ todo'[c] = todo[c]
    <3>1. UnderWay(s)' <=> s[2] >= stream[c] + 1
      BY <2>5 DEF UnderWay
    <3>2. s[2] >= stream[c] + 1 <=> s[2] >= stream[c] /\ s[2] # stream[c]
      BY <1>2, <2>1
    <3> QED
      BY <2>1, <2>2, <2>3, <2>5, <3>1, <3>2
  <2>6. CASE stream[c] = STREAMS[c] /\ (cpc'[c] = "close" \/ (cpc'[c] = "send" /\ stream'[c] = 1))
    <3>1. ~UnderWay(s)'
      BY <2>1, <2>6 DEF UnderWay
    <3>2. UnderWay(s) => s[2] = stream[c]
      BY <1>2, <2>1, <2>2, <2>6
    <3> QED
      BY <2>1, <2>3, <3>1, <3>2
  <2> QED
    BY <1>11, <2>4, <2>5, <2>6
<1>13. \A s \in Sockets : /\ down'[s] = IF s = me THEN rest ELSE down[s]
                          /\ owed'[s] = IF s = me THEN owed[s] - n ELSE owed[s]
  BY <1>1, <1>3 DEF TypeOK, Counts
<1>17. IInv'
  BY RecvInv
<1>18. cpc'[c] = "send" => left'[c] = Size(c)' /\ Size(c)' \in Nat
  <2> SUFFICES ASSUME cpc'[c] = "send" PROVE Size(c)' \in Nat
    BY <1>11
  <2>1. phase'[c] \in 1 .. Len(SIZES)
    BY <1>17 DEF IInv, TypeOK, Counts
  <2> QED
    BY <2>1, SizeType DEF Size
<1>14. Accounts'
  <2> SUFFICES ASSUME NEW s \in Sockets, conn[s] \in Live PROVE Owes(s)'
    BY <1>3 DEF Accounts
  <2>1. CASE s = me
    <3>1. owed'[s] = 0 /\ ~UnderWay(s)'
      BY <1>2, <1>6, <1>7, <1>8, <1>12, <1>13, <2>1
    <3> QED
      BY <1>2, <1>18, <2>1, <3>1 DEF Owes
  <2>2. CASE s # me
    <3>1. Owes(s)
      BY DEF Served, Accounts
    <3>2. UnderWay(s)' <=> UnderWay(s)
      BY <1>11, <1>12, <2>2, OthersKept
    <3>3. UnderWay(s) => Size(s[1])' = Size(s[1])
      <4>1. CASE s[1] # c
        BY <1>11, <4>1, OthersKept
      <4>2. CASE s[1] = c /\ UnderWay(s)
        <5>1. UnderWay(s)'
          BY <3>2, <4>2
        <5>2. phase'[c] = phase[c]
          <6>1. s[2] \in 1 .. STREAMS[c] /\ s[2] # stream[c]
            BY <1>2, <2>2, <4>2, SocketParts
          <6>2. todo[c] # 0 /\ s[2] >= stream[c]
            BY <1>3, <4>2, <6>1 DEF UnderWay
          <6> QED
            BY <1>2, <1>11, <6>1, <6>2
        <5> QED
          BY <4>2, <5>2 DEF Size
      <4> QED
        BY <4>1, <4>2
    <3>4. CASE s[1] = c
      BY <1>3, <1>13, <1>18, <2>2, <3>1, <3>2, <3>3, <3>4 DEF Owes
    <3>5. CASE s[1] # c
      BY <1>11, <1>13, <2>2, <3>1, <3>5, OthersOwe
    <3> QED
      BY <3>4, <3>5
  <2> QED
    BY <2>1, <2>2
<1>15. Connections'
  <2> SUFFICES ASSUME NEW s \in Sockets PROVE Connection(s)'
    BY DEF Connections
  <2>1. Connection(s) /\ (Joined(s)' <=> Joined(s))
    BY <1>11, <1>12, OthersKept DEF Served, Connections
  <2>2. conn[s] \in {"queued", "finished"} => down'[s] = down[s]
    BY <1>10, <1>13
  <2> QED
    BY <1>3, <2>1, <2>2 DEF Connection
<1>16. Measuring' /\ Ending'
  <2>1. Counters(c)'
    BY <1>4, <1>11, <1>18 DEF Counters
  <2> QED
    BY <1>3, <1>10, <1>11, <2>1, ClientServes
<1> QED
  BY <1>14, <1>15, <1>16 DEF Served

\* A client closes connections with nothing under way: none is reset.
LEMMA CloseServes == ASSUME IInv, Served, NEW c \in Clients, Close(c) PROVE Served'
<1> DEFINE me == SocketOf(c)
<1>1. TypeOK /\ Counts
  BY DEF IInv
<1>2. /\ me \in Sockets /\ me[1] = c /\ me[2] = stream[c]
      /\ stream[c] \in 1 .. STREAMS[c]
      /\ \A s \in Sockets : s[1] = c /\ s[2] = stream[c] => s = me
  BY <1>1, OwnSocket
<1>3. /\ cpc[c] = "close" /\ UNCHANGED <<serverVars, up, down, owed, short>>
      /\ conn' = [conn EXCEPT ![me] = IF conn[me] \in Live THEN Hangs(me, Pending(me))
                                                          ELSE conn[me]]
      /\ \/ Last(c) /\ Ends(c, "done")
         \/ ~Last(c) /\ Goes(c, "close", stream[c] + 1, phase[c], todo[c])
  BY DEF Close, OnStream
<1>4. Counters(c) /\ spc \notin {"leaving", "ended", "failed"}
  BY <1>3 DEF Served, Measuring, Ending
<1>5. conn[me] \in Live /\ ~UnderWay(me)
  <2>1. Joined(me) /\ ~UnderWay(me)
    BY <1>2, <1>3 DEF Joined, UnderWay
  <2> QED
    BY <1>2, <1>4, <2>1 DEF Served, Connections, Connection
<1>6. target # me /\ InFlight(up[me]) = 0 /\ InFlight(down[me]) = 0
  <2>1. owed[me] = 0
    BY <1>2, <1>3, <1>5 DEF Served, Accounts, Owes
  <2>2. target # me
    BY <1>2, <1>4, <1>5, <2>1, Sum, NothingOwed
  <2> QED
    BY <1>2, <1>5, <2>1, <2>2, NothingOwed
<1>7. \A s \in Sockets : conn'[s] = IF s = me THEN "finished" ELSE conn[s]
  BY <1>1, <1>3, <1>5, <1>6 DEF TypeOK, Hangs, Pending
<1> HIDE DEF me
<1> USE DEF serverVars
<1>8. /\ Others(c) /\ phase'[c] = phase[c] /\ todo'[c] = todo[c]
      /\ cpc'[c] \in {"done", "close"}
      /\ cpc'[c] = "close" => stream'[c] = stream[c] + 1
  BY <1>1, <1>3, GoesTo, EndsAt
<1>9. \A s \in Sockets : s[1] = c => ~UnderWay(s) /\ ~UnderWay(s)'
                                   /\ (Joined(s)' => Joined(s) /\ s # me)
  <2> SUFFICES ASSUME NEW s \in Sockets, s[1] = c
               PROVE  ~UnderWay(s) /\ ~UnderWay(s)' /\ (Joined(s)' => Joined(s) /\ s # me)
    OBVIOUS
  <2>1. s[2] \in Nat /\ stream[c] \in Nat
    BY <1>2, SocketParts
  <2> QED
    BY <1>2, <1>3, <1>8, <2>1 DEF UnderWay, Joined
<1>10. Accounts'
  <2> SUFFICES ASSUME NEW s \in Sockets, conn'[s] \in Live PROVE Owes(s)'
    BY DEF Accounts
  <2>1. Owes(s)
    BY <1>7 DEF Served, Accounts, Live
  <2>2. CASE s[1] = c
    BY <1>3, <1>8, <1>9, <2>1, <2>2 DEF Owes
  <2>3. CASE s[1] # c
    BY <1>3, <1>8, <2>1, <2>3, OthersOwe
  <2> QED
    BY <2>2, <2>3
<1>11. Connections'
  <2> SUFFICES ASSUME NEW s \in Sockets PROVE Connection(s)'
    BY DEF Connections
  <2>1. Connection(s) /\ (Joined(s)' => Joined(s) /\ s # me)
    <3>1. s = me => s[1] = c
      BY <1>2
    <3> QED
      BY <1>8, <1>9, <3>1, OthersKept DEF Served, Connections
  <2> QED
    BY <1>3, <1>6, <1>7, <2>1 DEF Connection, Live
<1>12. Measuring' /\ Ending'
  <2>1. Counters(c)'
    BY <1>4, <1>8 DEF Counters
  <2> QED
    BY <1>3, <1>4, <1>8, <2>1, ClientServes
<1> QED
  BY <1>10, <1>11, <1>12 DEF Served

\* A call fails only when the server has ended without the client.
LEMMA ClientFailsServes == ASSUME IInv, Served, NEW c \in Clients, ClientFails(c) PROVE Served'
<1>1. TypeOK /\ Counts
  BY DEF IInv
<1>2. /\ cpc[c] \in {"send", "recv"} /\ conn[SocketOf(c)] = "reset"
      /\ cpc'[c] = "failed" /\ Others(c)
      /\ UNCHANGED <<stream, phase, todo, left, serverVars, netVars, owed, short>>
  BY <1>1, EndsAt DEF ClientFails, Ends
<1> USE DEF serverVars, netVars
<1>3. spc = "ended" /\ Early(c) /\ Counters(c)
  <2>1. spc = "ended"
    BY <1>1, <1>2, OwnSocket DEF Served, Connections, Connection
  <2> QED
    BY <1>2, <2>1 DEF Served, Ending, Measuring
<1>4. Accounts'
  BY <1>2, <1>3 DEF Served, Ending, Accounts, Live
<1>5. Connections'
  <2>1. \A s \in Sockets : Joined(s)' => Joined(s)
    <3>1. \A s \in Sockets : s[1] = c => ~Joined(s)'
      BY <1>2 DEF Joined
    <3> QED
      BY <1>2, <3>1, OthersKept
  <2> QED
    BY <1>2, <2>1 DEF Served, Connections, Connection
<1>6. Measuring' /\ Ending'
  <2>1. Counters(c)' /\ Early(c)'
    BY <1>2, <1>3 DEF Counters, Early
  <2> QED
    BY <1>2, <1>3, <2>1, ClientServes DEF Served, Ending
<1> QED
  BY <1>4, <1>5, <1>6 DEF Served

\* A segment leaves a stream as many bytes as it had.
LEMMA FlowServes == ASSUME IInv, Served, NEW s \in Sockets, Flow(s) PROVE Served'
<1> USE DEF serverVars, clientVars
<1>1. /\ up[s] \in Streams /\ InFlight(Moved(up[s])) = InFlight(up[s])
      /\ down[s] \in Streams /\ InFlight(Moved(down[s])) = InFlight(down[s])
  BY Sum, MovedStream
<1>2. /\ UNCHANGED <<serverVars, clientVars, owed, short, conn>>
      /\ \/ up' = [up EXCEPT ![s] = Moved(up[s])] /\ down' = down
         \/ down' = [down EXCEPT ![s] = Moved(down[s])] /\ up' = up
  BY DEF Flow, FlowUp, FlowDown
<1>3. /\ \A t \in Sockets : t # s => up'[t] = up[t] /\ down'[t] = down[t]
      /\ up'[s] \in {up[s], Moved(up[s])} /\ down'[s] \in {down[s], Moved(down[s])}
  BY <1>2 DEF IInv, TypeOK
<1>4. Accounts'
  BY <1>2 DEF Served, Accounts, Owes, UnderWay, Size
<1>5. \A t \in Sockets : InFlight(up'[t]) = InFlight(up[t])
                        /\ InFlight(down'[t]) = InFlight(down[t])
  BY <1>1, <1>3
<1>6. Connections'
  BY <1>2, <1>5 DEF Served, Connections, Connection, Joined
<1>7. Measuring' /\ Ending'
  BY <1>2 DEF Served, Measuring, Counters, Early, Size, Ending
<1> QED
  BY <1>4, <1>6, <1>7 DEF Served

\* Every step keeps the invariant; a client that was stopped stays it.
LEMMA StepServes == ASSUME ServedInv, [Next]_vars PROVE ServedInv'
<1>1. IInv'
  BY StepInv DEF ServedInv
<1>2. CASE Stopped
  <2>1. PICK c \in Clients : cpc[c] = "stopped"
    BY <1>2 DEF Stopped
  <2>2. cpc'[c] = "stopped"
    <3>1. ASSUME NEW d \in Clients, ClientStep(d) \/ Stop(d) PROVE d # c /\ Others(d)
      <4>1. cpc[d] \in Calls
        BY <3>1 DEF ClientStep, Connect, Send, Recv, Close, ClientFails, Stop, Calls
      <4>2. d # c
        BY <2>1, <4>1 DEF Calls
      <4>3. TypeOK /\ Counts
        BY DEF ServedInv, IInv
      <4>4. \/ \E what, i, p, k : Goes(d, what, i, p, k)
            \/ \E how : Ends(d, how)
            \/ left' = [left EXCEPT ![d] = left[d] - Accepted(up[SocketOf(d)], left[d])]
               /\ UNCHANGED <<cpc, stream, phase, todo>>
        <5> HIDE SelectAssumption
        <5>1. ASSUME NEW what, NEW i, OnStream(d, what, i) PROVE \E w, j, p, k : Goes(d, w, j, p, k)
          BY <5>1 DEF OnStream
        <5>2. CASE Connect(d)
          BY <5>1, <5>2 DEF Connect
        <5>3. CASE Send(d)
          BY <5>1, <5>3 DEF Send, AfterSend
        <5>4. CASE Recv(d)
          BY <5>1, <5>4 DEF Recv, AfterRecv
        <5>5. CASE Close(d)
          BY <5>1, <5>5 DEF Close
        <5>6. CASE ClientFails(d) \/ Stop(d)
          BY <5>6 DEF ClientFails, Stop
        <5> QED
          BY <3>1, <5>2, <5>3, <5>4, <5>5, <5>6 DEF ClientStep
      <4> QED
        BY <4>2, <4>3, <4>4, GoesTo, EndsAt DEF Others, Counts
    <3>2. ASSUME ServerStep PROVE UNCHANGED cpc
      BY <3>2 DEF ServerStep, Listen, Select, TimesOut, KillServer, SendBack, Visited,
           ServerFails, Accept, EchoClient, EndOfStream, clientVars
    <3>3. ASSUME NEW s \in Sockets, Flow(s) PROVE UNCHANGED cpc
      BY <3>3 DEF Flow, clientVars
    <3> QED
      BY <2>1, <3>1, <3>2, <3>3 DEF Next, Others, vars, clientVars
  <2> QED
    BY <1>1, <2>2 DEF ServedInv, Stopped
<1>3. CASE short /\ ~Stopped
  <2>1. short'
    BY <1>3 DEF Next, ServerStep, ClientStep, Listen, Select, TimesOut, KillServer, SendBack,
         Visited, ServerFails, Accept, EchoClient, EndOfStream, Connect, Send, Recv, Close,
         ClientFails, Stop, Flow, vars
  <2> QED
    BY <1>1, <2>1 DEF ServedInv
<1>4. CASE ~short /\ ~Stopped
  <2>1. IInv /\ Served
    BY <1>4 DEF ServedInv
  <2>2. ASSUME ServerStep PROVE Served'
    BY <1>4, <2>1, <2>2, ServerLooksServes, KillServerServes, NeverFails, AcceptServes,
       EchoClientServes, EndOfStreamServes, SendBackServes DEF ServerStep
  <2>3. ASSUME NEW c \in Clients, ClientStep(c), ~short' PROVE Served'
    BY <2>1, <2>3, ConnectServes, SendServes, RecvServes, CloseServes, ClientFailsServes
    DEF ClientStep
  <2>4. ASSUME NEW c \in Clients, Stop(c) PROVE Stopped'
    BY <2>1, <2>4 DEF Stop, Ends, Stopped, IInv, TypeOK
  <2>5. CASE UNCHANGED vars
    <3> USE <2>5 DEF vars, serverVars, clientVars, netVars
    <3>1. Accounts'
      BY <2>1 DEF Served, Accounts, Owes, UnderWay, Size
    <3>2. Connections'
      BY <2>1 DEF Served, Connections, Connection, Joined
    <3>3. Measuring' /\ Ending'
      BY <2>1 DEF Served, Measuring, Counters, Early, Size, Ending
    <3> QED
      BY <1>1, <3>1, <3>2, <3>3 DEF ServedInv, Served
  <2> QED
    BY <1>1, <2>1, <2>2, <2>3, <2>4, <2>5, FlowServes DEF ServedInv, Next
<1> QED
  BY <1>2, <1>3, <1>4

\* ServedInv is an invariant, whatever the sizes of packets and buffers.
THEOREM SelectServes == Spec => []ServedInv
<1> QED
  BY InitServes, StepServes, PTL DEF Spec

\* Unless a client is stopped or some recv has returned less than its packet, the
\* server never fails, and a client fails only before it has received anything.
THEOREM SelectServedOrNot == Spec => []ServedOrNot
<1>1. ServedInv => ServedOrNot
  BY DEF ServedInv, Stopped, Served, Ending, Measuring, Counters, Early, ServedOrNot
<1> QED
  BY <1>1, SelectServes, PTL
=============================================================================
