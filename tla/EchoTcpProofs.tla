--------------------------- MODULE EchoTcpProofs ---------------------------
(***************************************************************************)
(* For any number of clients, sizes and buffers: the echo server loses no  *)
(* byte (NothingLost).  Where every packet fits in the buffers and in a    *)
(* segment it also stays in one piece, so that the single recv of a client *)
(* takes all of its echo (PacketsApart) and the server ends with an error  *)
(* only if its client was stopped (ServerEndsWell).                        *)
(***************************************************************************)
EXTENDS EchoTcp, TLAPS

(***************************************************************************)
(* Streams                                                                 *)
(***************************************************************************)

\* The minimum of two numbers.
LEMMA MinTwo ==
  ASSUME NEW m \in Int, NEW n \in Int
  PROVE  Min({m, n}) = IF m <= n THEN m ELSE n
<1> DEFINE least == IF m <= n THEN m ELSE n
<1>1. least \in {m, n} /\ \A y \in {m, n} : least <= y
  OBVIOUS
<1>2. \A x \in {m, n} : (\A y \in {m, n} : x <= y) => x = least
  OBVIOUS
<1> QED
  BY <1>1, <1>2 DEF Min

\* The minimum of three numbers is one of them and none is less.
LEMMA MinThree ==
  ASSUME NEW m \in Int, NEW n \in Int, NEW k \in Int
  PROVE  /\ Min({m, n, k}) \in {m, n, k}
         /\ Min({m, n, k}) <= m /\ Min({m, n, k}) <= n /\ Min({m, n, k}) <= k
<1> DEFINE least == IF m <= n THEN (IF m <= k THEN m ELSE k)
                              ELSE (IF n <= k THEN n ELSE k)
<1>1. least \in {m, n, k} /\ \A y \in {m, n, k} : least <= y
  OBVIOUS
<1>2. \A x \in {m, n, k} : (\A y \in {m, n, k} : x <= y) => x = least
  OBVIOUS
<1>3. Min({m, n, k}) = least
  BY <1>1, <1>2 DEF Min
<1> QED
  BY <1>1, <1>3

\* A segment moves bytes within a stream and loses none; one that carries all
\* the bytes there are leaves nothing behind.
LEMMA MovedStream ==
  ASSUME NEW s \in Streams
  PROVE  /\ Segment(s) \in Nat
         /\ Moved(s) \in Streams
         /\ InFlight(Moved(s)) = InFlight(s)
         /\ s.out <= SEGMENT /\ s.out + s.in <= RCVBUF =>
              Moved(s).out = 0 /\ Moved(s).in = InFlight(s)
<1>1. s.out \in 0 .. SNDBUF /\ s.in \in 0 .. RCVBUF
  BY DEF Streams
<1>2. SEGMENT \in Nat /\ SNDBUF \in Nat /\ RCVBUF \in Nat
  BY StreamAssumption
<1>3. /\ Segment(s) \in {SEGMENT, s.out, RCVBUF - s.in}
      /\ Segment(s) <= SEGMENT /\ Segment(s) <= s.out /\ Segment(s) <= RCVBUF - s.in
  <2>1. SEGMENT \in Int /\ s.out \in Int /\ RCVBUF - s.in \in Int
    BY <1>1, <1>2
  <2> HIDE <1>1, <1>2
  <2> QED
    BY <2>1, MinThree DEF Segment
<1>4. Segment(s) \in Nat
  BY <1>1, <1>2, <1>3
<1>5. Moved(s).out = s.out - Segment(s) /\ Moved(s).in = s.in + Segment(s)
  BY DEF Moved
<1>6. Moved(s) \in Streams
  BY <1>1, <1>2, <1>3, <1>4 DEF Moved, Streams
<1> QED
  BY <1>1, <1>2, <1>3, <1>4, <1>5, <1>6 DEF InFlight

\* send hands over what there is room for.
LEMMA SentStream ==
  ASSUME NEW s \in Streams, NEW n \in Nat
  PROVE  LET k == Accepted(s, n) IN
         /\ k \in 0 .. n
         /\ Sent(s, k) \in Streams
         /\ InFlight(Sent(s, k)) = InFlight(s) + k
         /\ Sent(s, k).out = s.out + k /\ Sent(s, k).in = s.in
         /\ s.out + n <= SNDBUF => k = n
<1>1. s = [out |-> s.out, in |-> s.in] /\ s.out \in 0 .. SNDBUF /\ s.in \in 0 .. RCVBUF
  BY DEF Streams
<1>2. SNDBUF \in Nat /\ RCVBUF \in Nat
  BY StreamAssumption
<1>3. Accepted(s, n) = IF n <= SNDBUF - s.out THEN n ELSE SNDBUF - s.out
  BY <1>1, <1>2, MinTwo DEF Accepted
<1>4. Sent(s, Accepted(s, n)) = [out |-> s.out + Accepted(s, n), in |-> s.in]
  BY <1>1 DEF Sent
<1> QED
  BY <1>1, <1>2, <1>3, <1>4 DEF Streams, InFlight

\* recv takes what is there, up to the room it was given.
LEMMA TakenStream ==
  ASSUME NEW s \in Streams, NEW n \in Nat
  PROVE  LET k == Received(s, n) IN
         /\ k \in 0 .. n
         /\ Taken(s, k) \in Streams
         /\ InFlight(Taken(s, k)) = InFlight(s) - k
         /\ Taken(s, k).out = s.out /\ Taken(s, k).in = s.in - k
         /\ s.in <= n => k = s.in
         /\ n > 0 /\ s.in > 0 => k > 0
<1>1. s = [out |-> s.out, in |-> s.in] /\ s.out \in 0 .. SNDBUF /\ s.in \in 0 .. RCVBUF
  BY DEF Streams
<1>2. SNDBUF \in Nat /\ RCVBUF \in Nat
  BY StreamAssumption
<1>3. Received(s, n) = IF n <= s.in THEN n ELSE s.in
  BY <1>1, <1>2, MinTwo DEF Received
<1>4. Taken(s, Received(s, n)) = [out |-> s.out, in |-> s.in - Received(s, n)]
  BY <1>1 DEF Taken
<1> QED
  BY <1>1, <1>2, <1>3, <1>4 DEF Streams, InFlight

\* The contents of a stream are numbers.
LEMMA StreamNat == ASSUME NEW s \in Streams
                   PROVE  s.out \in Nat /\ s.in \in Nat /\ InFlight(s) \in Nat
BY StreamAssumption DEF Streams, InFlight

(***************************************************************************)
(* The invariant                                                           *)
(***************************************************************************)

\* The server holds bytes only between recv and send, and has a client from
\* accept on.
ServerSide ==
  /\ spc \in {"start", "accept"} => served = NULL
  /\ spc \in {"recv", "send", "ended", "failed"} => served \in Clients
  /\ spc \in {"start", "accept", "recv"} => held = 0
  /\ spc = "send" => held > 0

\* A client that has not connected has sent nothing, and every other one is
\* sending at first.
NotConnected ==
  \A c \in Clients :
    /\ conn[c] = "none" => /\ up[c] = EmptyStream /\ down[c] = EmptyStream
                           /\ owed[c] = 0 /\ served # c
    /\ conn[c] \in Live => cpc[c] \in {"send", "recv", "closed"}
    /\ cpc[c] = "start" => conn[c] = "none"

Counts == owed \in [Clients -> Int] /\ left \in [Clients -> Nat]

IInv == TypeOK /\ Counts /\ ServerSide /\ NotConnected /\ NothingLost

USE EchoAssumption DEF Clients

\* A size is a positive number.
LEMMA SizeType == ASSUME NEW i \in 1 .. Len(SIZES) PROVE SIZES[i] \in Nat \ {0}
OBVIOUS

\* The initial state satisfies the invariant.
LEMMA InitInv == Init => IInv
<1> SUFFICES ASSUME Init PROVE IInv
  OBVIOUS
<1>1. EmptyStream \in Streams /\ InFlight(EmptyStream) = 0
  BY StreamAssumption DEF EmptyStream, Streams, InFlight
<1>2. 1 \in 1 .. Len(SIZES)
  OBVIOUS
<1>3. TypeOK
  BY <1>1, <1>2 DEF Init, TypeOK, NetInit, ConnStates
<1> QED
  BY <1>3 DEF Init, NetInit, IInv, Counts, ServerSide, NotConnected,
       NothingLost, Live

\* The server's steps that send or receive nothing.
LEMMA ListenInv == ASSUME IInv, Listen PROVE IInv'
<1> USE DEF IInv, Listen, clientVars, netVars
<1>1. TypeOK'
  BY DEF TypeOK
<1> QED
  BY <1>1 DEF Counts, ServerSide, NotConnected, NothingLost

\* The server takes its one client.
LEMMA AcceptInv == ASSUME IInv, NEW c \in Clients, Accept(c) PROVE IInv'
<1> USE DEF IInv, Accept, clientVars
<1>1. TypeOK'
  BY DEF TypeOK, ConnStates
<1>2. ServerSide' /\ Counts'
  BY DEF ServerSide, Counts
<1>3. NotConnected'
  BY DEF TypeOK, NotConnected, Live
<1>4. NothingLost'
  BY DEF TypeOK, ServerSide, NothingLost, Live
<1> QED
  BY <1>1, <1>2, <1>3, <1>4

\* With the server every connection is gone.
LEMMA ServerEndsInv == ASSUME IInv, EndOfStream \/ ServerFails PROVE IInv'
<1>1. /\ spc' \in {"ended", "failed"} /\ spc \in {"recv", "send"}
      /\ conn' = [c \in Clients |-> IF conn[c] \in Live \/ c = served
                                    THEN "reset" ELSE conn[c]]
      /\ UNCHANGED <<served, held, clientVars, up, down, owed>>
  BY DEF EndOfStream, ServerFails, ServerGone
<1> USE <1>1 DEF IInv, clientVars
<1>2. TypeOK'
  BY DEF TypeOK, ConnStates
<1>3. ServerSide' /\ Counts'
  BY DEF ServerSide, Counts
<1>4. NotConnected'
  BY DEF TypeOK, NotConnected, Live
<1>5. NothingLost'
  BY DEF TypeOK, NothingLost, Live
<1> QED
  BY <1>2, <1>3, <1>4, <1>5

\* The server's recv takes as many bytes from the stream as it keeps.
LEMMA ReceiveInv == ASSUME IInv, Receive PROVE IInv'
<1> DEFINE n == Received(up[served], BUFFER)
           s == Taken(up[served], n)
<1>1. served \in Clients /\ up[served] \in Streams /\ BUFFER \in Nat /\ held = 0
  BY DEF IInv, TypeOK, ServerSide, Receive
<1>2. /\ n \in 1 .. BUFFER /\ s \in Streams
      /\ InFlight(s) = InFlight(up[served]) - n
  <2>1. n \in 0 .. BUFFER /\ s \in Streams /\ InFlight(s) = InFlight(up[served]) - n
    BY <1>1, TakenStream
  <2>2. up[served].in > 0 /\ BUFFER > 0
    BY DEF Receive, Arrived
  <2>3. n > 0
    BY <1>1, <2>2, TakenStream
  <2> QED
    BY <1>1, <2>1, <2>3
<1>3. /\ held' = n /\ up' = [up EXCEPT ![served] = s] /\ spc' = "send" /\ spc = "recv"
      /\ conn[served] \in {"open", "finished"}
      /\ UNCHANGED <<served, clientVars, conn, down, owed>>
  BY DEF Receive, Echoed
<1> HIDE DEF n, s
<1> USE DEF IInv, clientVars
<1>4. TypeOK'
  BY <1>1, <1>2, <1>3 DEF TypeOK
<1>5. ServerSide' /\ Counts'
  BY <1>1, <1>2, <1>3 DEF ServerSide, Counts
<1>6. NotConnected'
  BY <1>1, <1>3 DEF TypeOK, NotConnected, Live
<1>7. NothingLost'
  <2> SUFFICES ASSUME NEW c \in Clients, conn[c] \in Live
               PROVE  owed[c] = InFlight(up'[c]) + InFlight(down[c])
                                + (IF served = c THEN n ELSE 0)
    BY <1>3 DEF NothingLost
  <2>1. owed[c] = InFlight(up[c]) + InFlight(down[c]) + (IF served = c THEN held ELSE 0)
    BY DEF NothingLost
  <2>2. up'[c] = IF served = c THEN s ELSE up[c]
    BY <1>1, <1>3 DEF TypeOK
  <2>3. InFlight(up[c]) \in Nat /\ InFlight(down[c]) \in Nat
    BY StreamNat DEF TypeOK
  <2> QED
    BY <1>1, <1>2, <2>1, <2>2, <2>3
<1> QED
  BY <1>4, <1>5, <1>6, <1>7

\* Its send passes on as many as it gives away.
LEMMA SendBackInv == ASSUME IInv, SendBack PROVE IInv'
<1> DEFINE n == Accepted(down[served], held)
           s == Sent(down[served], n)
<1>1. served \in Clients /\ down[served] \in Streams /\ held \in Nat /\ BUFFER \in Nat
  BY DEF IInv, TypeOK, ServerSide, SendBack
<1>2. /\ n \in 1 .. held /\ s \in Streams
      /\ InFlight(s) = InFlight(down[served]) + n
  <2>1. n \in 0 .. held /\ s \in Streams /\ InFlight(s) = InFlight(down[served]) + n
    BY <1>1, SentStream
  <2>2. n > 0
    BY DEF SendBack
  <2> QED
    BY <1>1, <2>1, <2>2
<1>3. /\ held' = held - n /\ down' = [down EXCEPT ![served] = s]
      /\ spc = "send" /\ spc' = IF held' = 0 THEN "recv" ELSE "send"
      /\ conn[served] = "open"
      /\ UNCHANGED <<served, clientVars, conn, up, owed>>
  BY DEF SendBack
<1> HIDE DEF n, s
<1> USE DEF IInv, clientVars
<1>4. held' \in 0 .. BUFFER
  BY <1>1, <1>2, <1>3 DEF TypeOK
<1>5. TypeOK'
  BY <1>1, <1>2, <1>3, <1>4 DEF TypeOK
<1>6. ServerSide' /\ Counts'
  BY <1>1, <1>3, <1>4 DEF ServerSide, Counts
<1>7. NotConnected'
  BY <1>1, <1>3 DEF TypeOK, NotConnected, Live
<1>8. NothingLost'
  <2> SUFFICES ASSUME NEW c \in Clients, conn[c] \in Live
               PROVE  owed[c] = InFlight(up[c]) + InFlight(down'[c])
                                + (IF served = c THEN held - n ELSE 0)
    BY <1>3 DEF NothingLost
  <2>1. owed[c] = InFlight(up[c]) + InFlight(down[c]) + (IF served = c THEN held ELSE 0)
    BY DEF NothingLost
  <2>2. down'[c] = IF served = c THEN s ELSE down[c]
    BY <1>1, <1>3 DEF TypeOK
  <2>3. InFlight(up[c]) \in Nat /\ InFlight(down[c]) \in Nat
    BY StreamNat DEF TypeOK
  <2> QED
    BY <1>1, <1>2, <2>1, <2>2, <2>3
<1> QED
  BY <1>5, <1>6, <1>7, <1>8

\* A client connects with nothing sent.
LEMMA ConnectInv == ASSUME IInv, NEW c \in Clients, Connect(c) PROVE IInv'
<1> USE DEF IInv, Connect, serverVars
<1>1. SIZES[1] \in Nat
  BY SizeType
<1>2. TypeOK'
  BY DEF TypeOK, ConnStates
<1>3. ServerSide' /\ Counts'
  BY <1>1 DEF ServerSide, Counts
<1>4. NotConnected'
  BY DEF TypeOK, NotConnected, Live, Listening
<1>5. NothingLost'
  <2>1. InFlight(EmptyStream) = 0
    BY DEF InFlight, EmptyStream
  <2>2. conn[c] = "none"
    BY DEF NotConnected
  <2> QED
    BY <2>1, <2>2 DEF TypeOK, NotConnected, NothingLost, Live
<1> QED
  BY <1>2, <1>3, <1>4, <1>5

\* What its send hands over is owed from then on.
LEMMA SendInv == ASSUME IInv, NEW c \in Clients, Send(c) PROVE IInv'
<1> DEFINE n == Accepted(up[c], left[c])
           s == Sent(up[c], n)
<1>1. up[c] \in Streams /\ left[c] \in Nat /\ owed[c] \in Int
  BY DEF IInv, TypeOK, Counts
<1>2. n \in 1 .. left[c] /\ s \in Streams /\ InFlight(s) = InFlight(up[c]) + n
  <2>1. n \in 0 .. left[c] /\ s \in Streams /\ InFlight(s) = InFlight(up[c]) + n
    BY <1>1, SentStream
  <2>2. n > 0
    BY DEF Send
  <2> QED
    BY <1>1, <2>1, <2>2
<1>3. /\ up' = [up EXCEPT ![c] = s] /\ left' = [left EXCEPT ![c] = left[c] - n]
      /\ owed' = [owed EXCEPT ![c] = owed[c] + n]
      /\ cpc[c] = "send" /\ conn[c] \in Live
      /\ cpc' = [cpc EXCEPT ![c] = IF left'[c] = 0 THEN "recv" ELSE "send"]
      /\ UNCHANGED <<serverVars, phase, todo, conn, down>>
  BY DEF Send
<1> HIDE DEF n, s
<1> USE DEF IInv, serverVars
<1>4. left[c] - n \in Nat /\ owed[c] + n \in Int
  BY <1>1, <1>2
<1>5. TypeOK'
  BY <1>2, <1>3 DEF TypeOK
<1>6. ServerSide' /\ Counts'
  BY <1>3, <1>4 DEF ServerSide, Counts
<1>7. NotConnected'
  BY <1>3 DEF TypeOK, NotConnected, Live
<1>8. NothingLost'
  <2> SUFFICES ASSUME NEW d \in Clients, conn[d] \in Live
               PROVE  owed'[d] = InFlight(up'[d]) + InFlight(down[d])
                                 + (IF served = d THEN held ELSE 0)
    BY <1>3 DEF NothingLost
  <2>1. owed[d] = InFlight(up[d]) + InFlight(down[d]) + (IF served = d THEN held ELSE 0)
    BY DEF NothingLost
  <2>2. /\ up'[d] = IF c = d THEN s ELSE up[d]
        /\ owed'[d] = IF c = d THEN owed[d] + n ELSE owed[d]
    BY <1>3 DEF TypeOK, Counts
  <2>3. InFlight(up[d]) \in Nat /\ InFlight(down[d]) \in Nat /\ held \in Nat
    BY StreamNat DEF TypeOK
  <2> QED
    BY <1>1, <1>2, <2>1, <2>2, <2>3
<1> QED
  BY <1>5, <1>6, <1>7, <1>8

\* The next packet touches nothing but the client's own counters.
LEMMA NextPacketType ==
  ASSUME TypeOK, Counts, NEW c \in Clients, NextPacket(c)
  PROVE  /\ phase' \in [Clients -> 1 .. Len(SIZES)] /\ todo' \in [Clients -> 0 .. PACKETS]
         /\ left' \in [Clients -> Nat]
         /\ \E p \in {"send", "closed"} : cpc' = [cpc EXCEPT ![c] = p]
<1>1. ASSUME NEW p \in 1 .. Len(SIZES), NEW k \in 0 .. PACKETS, Begin(c, p, k)
      PROVE  /\ phase' \in [Clients -> 1 .. Len(SIZES)] /\ todo' \in [Clients -> 0 .. PACKETS]
             /\ left' \in [Clients -> Nat]
             /\ cpc' = [cpc EXCEPT ![c] = "send"]
  <2>1. SIZES[p] \in Nat
    BY SizeType
  <2> QED
    BY <1>1, <2>1 DEF Begin, TypeOK, Counts
<1>2. phase[c] \in 1 .. Len(SIZES) /\ todo[c] \in 0 .. PACKETS /\ PACKETS \in Nat
  BY DEF TypeOK
<1>3. CASE phase[c] = 1 /\ Begin(c, 1, 0)
  BY <1>1, <1>2, <1>3
<1>4. CASE todo[c] > 1 /\ Begin(c, phase[c], todo[c] - 1)
  <2>1. todo[c] - 1 \in 0 .. PACKETS
    BY <1>2, <1>4
  <2> QED
    BY <1>1, <1>2, <1>4, <2>1
<1>5. CASE todo[c] <= 1 /\ phase[c] < Len(SIZES) /\ Begin(c, phase[c] + 1, PACKETS)
  <2>1. phase[c] + 1 \in 1 .. Len(SIZES) /\ PACKETS \in 0 .. PACKETS
    BY <1>2, <1>5
  <2> QED
    BY <1>1, <1>5, <2>1
<1>6. CASE cpc' = [cpc EXCEPT ![c] = "closed"] /\ UNCHANGED <<phase, todo, left>>
  BY <1>6 DEF TypeOK, Counts
<1> QED
  BY <1>3, <1>4, <1>5, <1>6 DEF NextPacket

\* What its recv returns is owed no more.
LEMMA RecvInv == ASSUME IInv, NEW c \in Clients, Recv(c) PROVE IInv'
<1> DEFINE n == Received(down[c], Asked(c))
           s == Taken(down[c], n)
<1>1. down[c] \in Streams /\ Asked(c) \in Nat /\ owed[c] \in Int
  BY SizeType DEF IInv, TypeOK, Counts, Asked
<1>2. n \in 0 .. Asked(c) /\ s \in Streams /\ InFlight(s) = InFlight(down[c]) - n
  BY <1>1, TakenStream
<1>3. /\ down' = [down EXCEPT ![c] = s] /\ owed' = [owed EXCEPT ![c] = owed[c] - n]
      /\ cpc[c] = "recv" /\ conn[c] \in Live /\ NextPacket(c)
      /\ UNCHANGED <<serverVars, conn, up>>
  BY DEF Recv
<1> HIDE DEF n, s
<1> USE DEF IInv, serverVars
<1>4. PICK p \in {"send", "closed"} : cpc' = [cpc EXCEPT ![c] = p]
  BY <1>3, NextPacketType
<1>5. TypeOK'
  BY <1>2, <1>3, <1>4, NextPacketType DEF TypeOK
<1>6. ServerSide' /\ Counts'
  BY <1>1, <1>2, <1>3, NextPacketType DEF ServerSide, Counts
<1>7. NotConnected'
  BY <1>3, <1>4 DEF TypeOK, NotConnected, Live
<1>8. NothingLost'
  <2> SUFFICES ASSUME NEW d \in Clients, conn[d] \in Live
               PROVE  owed'[d] = InFlight(up[d]) + InFlight(down'[d])
                                 + (IF served = d THEN held ELSE 0)
    BY <1>3 DEF NothingLost
  <2>1. owed[d] = InFlight(up[d]) + InFlight(down[d]) + (IF served = d THEN held ELSE 0)
    BY DEF NothingLost
  <2>2. /\ down'[d] = IF c = d THEN s ELSE down[d]
        /\ owed'[d] = IF c = d THEN owed[d] - n ELSE owed[d]
    BY <1>3 DEF TypeOK, Counts
  <2>3. InFlight(up[d]) \in Nat /\ InFlight(down[d]) \in Nat /\ held \in Nat
    BY StreamNat DEF TypeOK
  <2> QED
    BY <1>1, <1>2, <2>1, <2>2, <2>3
<1> QED
  BY <1>5, <1>6, <1>7, <1>8

\* A client that stops takes its connection with it.
LEMMA ClientEndsInv ==
  ASSUME IInv, NEW c \in Clients, Hang(c) \/ ClientFails(c) PROVE IInv'
<1>1. /\ \E p \in {cpc[c], "killed", "failed"} : cpc' = [cpc EXCEPT ![c] = p]
      /\ \/ \E r \in {"reset", "finished"} : conn[c] \in Live /\ conn' = [conn EXCEPT ![c] = r]
         \/ conn[c] = "reset" /\ conn' = conn
      /\ cpc[c] # "start"
      /\ UNCHANGED <<serverVars, phase, todo, left, up, down, owed>>
  BY DEF Hang, ClientFails, Hangs, netVars, IInv, TypeOK
<1> USE <1>1 DEF IInv, serverVars
<1>2. TypeOK'
  BY DEF TypeOK, ConnStates
<1>3. ServerSide' /\ Counts'
  BY DEF ServerSide, Counts
<1>4. NotConnected'
  BY DEF TypeOK, NotConnected, Live
<1>5. NothingLost'
  BY DEF TypeOK, NothingLost, Live
<1> QED
  BY <1>2, <1>3, <1>4, <1>5

\* A segment moves bytes within a stream.
LEMMA FlowInv == ASSUME IInv, NEW c \in Clients, Flow(c) PROVE IInv'
<1>1. /\ up[c] \in Streams /\ Moved(up[c]) \in Streams
      /\ InFlight(Moved(up[c])) = InFlight(up[c])
      /\ down[c] \in Streams /\ Moved(down[c]) \in Streams
      /\ InFlight(Moved(down[c])) = InFlight(down[c])
  BY MovedStream DEF IInv, TypeOK
<1>2. /\ conn[c] \in Live \cup {"finished"}
      /\ UNCHANGED <<serverVars, clientVars, owed, conn>>
      /\ \/ up' = [up EXCEPT ![c] = Moved(up[c])] /\ down' = down
         \/ down' = [down EXCEPT ![c] = Moved(down[c])] /\ up' = up
  BY DEF Flow, FlowUp, FlowDown
<1> USE <1>1, <1>2 DEF IInv, serverVars, clientVars
<1>3. TypeOK'
  <2>1. up' \in [Clients -> Streams] /\ down' \in [Clients -> Streams]
    <3>1. up \in [Clients -> Streams] /\ down \in [Clients -> Streams]
      BY DEF TypeOK
    <3> QED
      BY <1>1, <1>2, <3>1
  <2>2. UNCHANGED <<spc, served, held, cpc, phase, todo, conn>>
    OBVIOUS
  <2> QED
    BY <2>1, <2>2 DEF TypeOK
<1>4. ServerSide' /\ Counts'
  BY DEF ServerSide, Counts
<1>5. NotConnected'
  BY DEF TypeOK, NotConnected, Live
<1>6. NothingLost'
  BY DEF TypeOK, NothingLost
<1> QED
  BY <1>3, <1>4, <1>5, <1>6

\* Every step keeps the invariant.
LEMMA StepInv == ASSUME IInv, [Next]_vars PROVE IInv'
<1>1. CASE ServerStep
  BY <1>1, ListenInv, AcceptInv, ServerEndsInv, ReceiveInv, SendBackInv DEF ServerStep
<1>2. ASSUME NEW c \in Clients, ClientStep(c) \/ Hang(c) \/ Flow(c) PROVE IInv'
  BY <1>2, ConnectInv, SendInv, RecvInv, ClientEndsInv, FlowInv DEF ClientStep
<1>3. CASE UNCHANGED vars
  BY <1>3 DEF vars, serverVars, clientVars, netVars, IInv, TypeOK, Counts,
       ServerSide, NotConnected, NothingLost
<1> QED
  BY <1>1, <1>2, <1>3 DEF Next

\* IInv is an invariant of the echo programs.
THEOREM EchoInvariant == Spec => []IInv
<1> QED
  BY InitInv, StepInv, PTL DEF Spec

\* The variables keep their types: no buffer holds more than its size, and
\* the server never counts less than nothing left to send.
THEOREM EchoTypeOK == Spec => []TypeOK
<1>1. IInv => TypeOK
  BY DEF IInv
<1> QED
  BY <1>1, EchoInvariant, PTL

\* No byte is lost or made up between a client and the server it talks to.
THEOREM EchoNothingLost == Spec => []NothingLost
<1>1. IInv => NothingLost
  BY DEF IInv
<1> QED
  BY <1>1, EchoInvariant, PTL

(***************************************************************************)
(* Packets that fit                                                        *)
(***************************************************************************)

\* Every packet fits in a segment, in both buffers of the sockets and in the
\* server's.
PacketsFit ==
  \A i \in 1 .. Len(SIZES) : \A b \in {SEGMENT, SNDBUF, RCVBUF, BUFFER} : SIZES[i] <= b

Size(c) == SIZES[phase[c]]

\* A packet is nowhere or, whole, in one of five places.
OnePiece ==
  \A c \in Clients :
    /\ cpc[c] = "start" => phase[c] = 1
    /\ cpc[c] = "send" => left[c] = Size(c) /\ owed[c] = 0
    /\ cpc[c] = "recv" /\ conn[c] \in Live =>
         /\ owed[c] = Size(c)
         /\ {up[c].out, up[c].in, down[c].out, down[c].in} \subseteq {0, Size(c)}
         /\ served = c => held \in {0, Size(c)}
    /\ cpc[c] = "closed" => owed[c] = 0

\* A client that closed left nothing behind; the server's connection is reset
\* only if the client was stopped.
Endings ==
  /\ \A c \in Clients :
       /\ conn[c] = "finished" => cpc[c] \in {"closed", "killed"}
       /\ conn[c] = "finished" /\ cpc[c] = "closed" =>
            InFlight(up[c]) = 0 /\ (served = c => spc # "send")
  /\ spc \in {"recv", "send"} /\ conn[served] = "reset" => cpc[served] = "killed"
  /\ ServerEndsWell

FitInv == IInv /\ OnePiece /\ Endings

\* The bytes of a live connection are counts that add up to what is owed.
LEMMA Sum ==
  ASSUME IInv, NEW c \in Clients
  PROVE  /\ up[c] \in Streams /\ down[c] \in Streams
         /\ up[c].out \in Nat /\ up[c].in \in Nat /\ down[c].out \in Nat /\ down[c].in \in Nat
         /\ InFlight(up[c]) = up[c].out + up[c].in
         /\ InFlight(down[c]) = down[c].out + down[c].in
         /\ held \in Nat
         /\ Size(c) \in Nat \ {0}
         /\ conn[c] \in Live => owed[c] = up[c].out + up[c].in + down[c].out + down[c].in
                                          + (IF served = c THEN held ELSE 0)
<1>1. up[c] \in Streams /\ down[c] \in Streams /\ held \in 0 .. BUFFER
      /\ phase[c] \in 1 .. Len(SIZES)
  BY DEF IInv, TypeOK
<1>2. up[c].out \in Nat /\ up[c].in \in Nat /\ down[c].out \in Nat /\ down[c].in \in Nat
  BY <1>1, StreamNat
<1>3. InFlight(up[c]) = up[c].out + up[c].in /\ InFlight(down[c]) = down[c].out + down[c].in
  BY DEF InFlight
<1>4. Size(c) \in Nat \ {0}
  BY <1>1, SizeType DEF Size
<1>5. conn[c] \in Live => owed[c] = InFlight(up[c]) + InFlight(down[c])
                                    + (IF served = c THEN held ELSE 0)
  BY DEF IInv, NothingLost
<1> QED
  BY <1>1, <1>2, <1>3, <1>4, <1>5

\* What is owed is all in one place when it fills that place.
LEMMA OnlyPlace ==
  ASSUME IInv, NEW c \in Clients, conn[c] \in Live
  PROVE  /\ owed[c] = 0 => /\ up[c].out = 0 /\ up[c].in = 0
                           /\ down[c].out = 0 /\ down[c].in = 0
                           /\ served = c => held = 0
         /\ owed[c] = up[c].out => up[c].in = 0
         /\ owed[c] = held /\ served = c => down[c].out = 0
         /\ owed[c] = down[c].out => down[c].in = 0
<1> DEFINE uo == up[c].out
           ui == up[c].in
           do == down[c].out
           di == down[c].in
           h == IF served = c THEN held ELSE 0
           o == owed[c]
<1>1. uo \in Nat /\ ui \in Nat /\ do \in Nat /\ di \in Nat /\ h \in Nat
  BY Sum
<1>2. o = uo + ui + do + di + h
  BY Sum
<1> HIDE DEF uo, ui, do, di, h, o
<1>3. /\ o = 0 => uo = 0 /\ ui = 0 /\ do = 0 /\ di = 0 /\ h = 0
      /\ o = uo => ui = 0
      /\ o = h => do = 0
      /\ o = do => di = 0
  BY <1>1, <1>2
<1> QED
  BY <1>3 DEF uo, ui, do, di, h, o

\* FitInv holds at first.
LEMMA InitFit == ASSUME Init PROVE FitInv
<1>1. OnePiece
  BY DEF Init, OnePiece, NetInit, Live
<1>2. Endings
  BY DEF Init, Endings, NetInit, ServerEndsWell
<1> QED
  BY <1>1, <1>2, InitInv DEF FitInv

\* Steps that neither move a byte nor start a packet.
LEMMA ServerQuietFit ==
  ASSUME FitInv, Listen \/ EndOfStream \/ ServerFails \/ \E c \in Clients : Accept(c)
  PROVE  FitInv'
<1> USE DEF FitInv
<1>1. IInv'
  BY ListenInv, AcceptInv, ServerEndsInv
<1>2. CASE Listen
  <2> USE <1>2 DEF Listen, clientVars, netVars
  <2>1. OnePiece'
    BY DEF OnePiece, Size
  <2>2. Endings'
    BY DEF Endings, ServerEndsWell
  <2> QED
    BY <1>1, <2>1, <2>2
<1>3. ASSUME NEW c \in Clients, Accept(c) PROVE FitInv'
  <2> USE <1>3 DEF Accept, clientVars
  <2>1. OnePiece'
    BY DEF IInv, ServerSide, TypeOK, OnePiece, Size, Live
  <2>2. Endings'
    BY DEF IInv, TypeOK, Endings, ServerEndsWell
  <2> QED
    BY <1>1, <2>1, <2>2
<1>4. CASE EndOfStream \/ ServerFails
  <2>1. /\ conn' = [c \in Clients |-> IF conn[c] \in Live \/ c = served
                                      THEN "reset" ELSE conn[c]]
        /\ UNCHANGED <<served, held, clientVars, up, down, owed>>
        /\ spc' \in {"ended", "failed"}
    BY <1>4 DEF EndOfStream, ServerFails, ServerGone
  <2>2. OnePiece'
    BY <2>1 DEF OnePiece, Size, Live, clientVars
  <2>3. spc' = "failed" => cpc[served] = "killed"
    BY <1>4 DEF EndOfStream, ServerFails, ServerGone, Endings, IInv, ServerSide
  <2>4. Endings'
    BY <2>1, <2>3 DEF Endings, ServerEndsWell, clientVars
  <2> QED
    BY <1>1, <2>2, <2>4
<1> QED
  BY <1>2, <1>3, <1>4

\* recv takes a whole packet into the server.
LEMMA ReceiveFit == ASSUME PacketsFit, FitInv, Receive PROVE FitInv'
<1> DEFINE n == Received(up[served], BUFFER)
           s == Taken(up[served], n)
<1>1. served \in Clients /\ BUFFER \in Nat /\ held = 0 /\ spc = "recv" /\ up[served].in > 0
  BY DEF FitInv, IInv, ServerSide, Receive, Arrived
<1>2. /\ s.out = up[served].out /\ s.in = up[served].in - n /\ n \in 0 .. BUFFER
      /\ up[served].in <= BUFFER => n = up[served].in
  BY <1>1, Sum, TakenStream DEF FitInv
<1>3. /\ held' = n /\ up' = [up EXCEPT ![served] = s] /\ spc' = "send"
      /\ conn[served] \in {"open", "finished"}
      /\ UNCHANGED <<served, clientVars, conn, down, owed>>
  BY DEF Receive, Echoed
<1> HIDE DEF n, s
<1> USE DEF FitInv
<1>4. \A c \in Clients : up'[c] = IF c = served THEN s ELSE up[c]
  BY <1>1, <1>3 DEF IInv, TypeOK
<1>5. OnePiece'
  <2>1. \A c \in Clients : Size(c)' = Size(c)
    BY <1>3 DEF Size, clientVars
  <2>2. Size(served) <= BUFFER /\ Size(served) \in Nat
    BY <1>1, Sum DEF PacketsFit, Size, IInv, TypeOK
  <2>3. ASSUME cpc[served] = "recv", conn[served] \in Live
        PROVE  up[served].in = Size(served) /\ n = Size(served) /\ s.in = 0
               /\ s.out \in {0, Size(served)}
    <3>1. up[served].in \in {0, Size(served)} /\ up[served].out \in {0, Size(served)}
      BY <1>1, <2>3 DEF OnePiece
    <3> QED
      BY <1>1, <1>2, <2>2, <3>1
  <2> QED
    BY <1>3, <1>4, <2>1, <2>3 DEF OnePiece, clientVars
<1>6. Endings'
  <2>1. ~(conn[served] = "finished" /\ cpc[served] = "closed")
    BY <1>1, Sum DEF Endings
  <2> QED
    BY <1>1, <1>3, <1>4, <2>1 DEF Endings, ServerEndsWell, clientVars
<1> QED
  BY <1>5, <1>6, ReceiveInv

\* send passes it on whole.
LEMMA SendBackFit == ASSUME PacketsFit, FitInv, SendBack PROVE FitInv'
<1> DEFINE n == Accepted(down[served], held)
           s == Sent(down[served], n)
<1>1. served \in Clients /\ held \in Nat /\ held > 0 /\ spc = "send" /\ conn[served] = "open"
  BY Sum DEF FitInv, IInv, ServerSide, SendBack
<1>2. /\ s.out = down[served].out + n /\ s.in = down[served].in /\ n \in 0 .. held
      /\ down[served].out + held <= SNDBUF => n = held
  BY <1>1, Sum, SentStream DEF FitInv
<1>3. /\ held' = held - n /\ down' = [down EXCEPT ![served] = s]
      /\ spc' \in {"recv", "send"}
      /\ UNCHANGED <<served, clientVars, conn, up, owed>>
  BY DEF SendBack
<1> HIDE DEF n, s
<1> USE DEF FitInv
<1>4. \A c \in Clients : down'[c] = IF c = served THEN s ELSE down[c]
  BY <1>1, <1>3 DEF IInv, TypeOK
<1>5. OnePiece'
  <2>1. \A c \in Clients : Size(c)' = Size(c)
    BY <1>3 DEF Size, clientVars
  <2>2. Size(served) <= SNDBUF /\ Size(served) \in Nat
    BY <1>1, Sum DEF PacketsFit, Size, IInv, TypeOK
  <2>3. ASSUME cpc[served] = "recv", conn[served] \in Live
        PROVE  s.out \in {0, Size(served)} /\ s.in \in {0, Size(served)} /\ held - n = 0
    <3>1. /\ held = Size(served) /\ down[served].in \in {0, Size(served)}
          /\ owed[served] = Size(served)
      BY <1>1, <2>3 DEF OnePiece
    <3>2. down[served].out = 0
      BY <1>1, <2>3, <3>1, OnlyPlace DEF Live
    <3> QED
      BY <1>1, <1>2, <2>2, <3>1, <3>2
  <2> QED
    BY <1>1, <1>3, <1>4, <2>1, <2>3 DEF OnePiece, clientVars
<1>6. Endings'
  BY <1>1, <1>3 DEF Endings, ServerEndsWell, clientVars
<1> QED
  BY <1>5, <1>6, SendBackInv

\* A client connects with its first packet unsent.
LEMMA ConnectFit == ASSUME FitInv, NEW c \in Clients, Connect(c) PROVE FitInv'
<1> USE DEF FitInv, Connect, serverVars
<1>1. phase[c] = 1 /\ conn[c] = "none" /\ owed[c] = 0
  BY DEF OnePiece, IInv, NotConnected
<1>2. \A d \in Clients : Size(d)' = Size(d)
  BY DEF Size
<1>3. OnePiece'
  BY <1>1, <1>2 DEF IInv, TypeOK, Counts, OnePiece, Size, Live
<1>4. Endings'
  <2>1. \A d \in Clients \ {c} : conn'[d] = conn[d] /\ cpc'[d] = cpc[d]
    BY DEF IInv, TypeOK
  <2>2. conn'[c] \in {"none", "queued"} /\ cpc[c] = "start"
    BY <1>1 DEF IInv, TypeOK
  <2>3. spc \notin {"start", "accept"} => served \in Clients \ {c}
    BY <1>1, <2>2 DEF IInv, TypeOK, ServerSide, NotConnected
  <2> QED
    BY <2>1, <2>2, <2>3 DEF Endings, ServerEndsWell, IInv, ServerSide
<1> QED
  BY <1>3, <1>4, ConnectInv

\* A packet is sent by one send.
LEMMA SendFit == ASSUME PacketsFit, FitInv, NEW c \in Clients, Send(c) PROVE FitInv'
<1> DEFINE n == Accepted(up[c], left[c])
           s == Sent(up[c], n)
<1> USE DEF FitInv
<1>1. /\ cpc[c] = "send" /\ conn[c] \in Live /\ left[c] = Size(c) /\ owed[c] = 0
      /\ Size(c) \in Nat \ {0} /\ Size(c) <= SNDBUF /\ phase[c] \in 1 .. Len(SIZES)
  BY Sum DEF Send, OnePiece, PacketsFit, Size, IInv, TypeOK
<1>2. /\ up[c].out = 0 /\ up[c].in = 0 /\ down[c].out = 0 /\ down[c].in = 0
      /\ served = c => held = 0
  BY <1>1, OnlyPlace
<1>3. n = Size(c) /\ s.out = Size(c) /\ s.in = 0
  <2>1. up[c] \in Streams /\ left[c] \in Nat
    BY <1>1 DEF IInv, TypeOK
  <2>2. /\ s.out = up[c].out + n /\ s.in = up[c].in /\ n \in 0 .. left[c]
        /\ up[c].out + left[c] <= SNDBUF => n = left[c]
    BY <2>1, SentStream
  <2> HIDE DEF n, s
  <2> QED
    BY <1>1, <1>2, <2>2
<1>4. /\ up' = [up EXCEPT ![c] = s] /\ left' = [left EXCEPT ![c] = left[c] - n]
      /\ owed' = [owed EXCEPT ![c] = owed[c] + n]
      /\ cpc' = [cpc EXCEPT ![c] = IF left'[c] = 0 THEN "recv" ELSE "send"]
      /\ UNCHANGED <<serverVars, phase, todo, conn, down>>
  BY DEF Send
<1> HIDE DEF n, s
<1>5. left'[c] = 0 /\ owed'[c] = Size(c) /\ up'[c] = s /\ cpc'[c] = "recv"
  BY <1>1, <1>3, <1>4 DEF IInv, TypeOK, Counts
<1>6. \A d \in Clients : Size(d)' = Size(d)
  BY <1>4 DEF Size
<1>7. \A d \in Clients \ {c} : /\ left'[d] = left[d] /\ owed'[d] = owed[d]
                               /\ up'[d] = up[d] /\ cpc'[d] = cpc[d]
  BY <1>4 DEF IInv, TypeOK, Counts
<1>8. OnePiece'
  BY <1>2, <1>3, <1>4, <1>5, <1>6, <1>7 DEF OnePiece, serverVars
<1>9. Endings'
  BY <1>1, <1>4, <1>5, <1>7 DEF Endings, ServerEndsWell, serverVars, IInv, ServerSide, Live
<1> QED
  BY <1>8, <1>9, SendInv

\* One recv takes the whole echo, and the next packet starts from nothing.
LEMMA RecvFit == ASSUME PacketsFit, FitInv, NEW c \in Clients, Recv(c) PROVE FitInv'
<1> DEFINE n == Received(down[c], Asked(c))
           s == Taken(down[c], n)
<1> USE DEF FitInv
<1>1. /\ cpc[c] = "recv" /\ conn[c] \in Live /\ down[c].in > 0
      /\ Asked(c) = Size(c) /\ Size(c) \in Nat \ {0} /\ down[c].in = Size(c)
      /\ owed[c] = Size(c)
  BY Sum DEF Recv, OnePiece, Asked, Size
<1>2. n = Size(c)
  BY <1>1, Sum, TakenStream
<1>3. /\ down' = [down EXCEPT ![c] = s] /\ owed' = [owed EXCEPT ![c] = owed[c] - n]
      /\ UNCHANGED <<serverVars, conn, up>> /\ NextPacket(c)
  BY DEF Recv
<1> HIDE DEF n, s
<1>4. owed'[c] = 0
  BY <1>1, <1>2, <1>3 DEF IInv, Counts
<1>5. PICK p \in {"send", "closed"} : cpc' = [cpc EXCEPT ![c] = p]
  BY <1>3, NextPacketType DEF IInv
<1>6. /\ cpc'[c] \in {"send", "closed"}
      /\ cpc'[c] = "send" => left'[c] = Size(c)'
  <2>1. ASSUME NEW q \in Int, NEW k \in Int, Begin(c, q, k)
        PROVE  left'[c] = Size(c)'
    BY <2>1 DEF Begin, Size, IInv, TypeOK, Counts
  <2>2. phase[c] \in Int /\ todo[c] \in Int /\ PACKETS \in Int
    BY DEF IInv, TypeOK
  <2>3. cpc'[c] = p
    BY <1>5 DEF IInv, TypeOK
  <2>4. cpc' = [cpc EXCEPT ![c] = "closed"] => cpc'[c] = "closed"
    BY DEF IInv, TypeOK
  <2>5. (\E q, k \in Int : Begin(c, q, k)) \/ cpc' = [cpc EXCEPT ![c] = "closed"]
    BY <1>3, <2>2 DEF NextPacket
  <2> QED
    BY <2>1, <2>3, <2>4, <2>5
<1>7. \A d \in Clients \ {c} : /\ left'[d] = left[d] /\ owed'[d] = owed[d]
                               /\ down'[d] = down[d] /\ cpc'[d] = cpc[d]
                               /\ phase'[d] = phase[d] /\ Size(d)' = Size(d)
  BY <1>3, <1>5 DEF NextPacket, Begin, Size, IInv, TypeOK, Counts
<1>8. OnePiece'
  BY <1>3, <1>4, <1>6, <1>7 DEF OnePiece, serverVars
<1>9. Endings'
  BY <1>1, <1>3, <1>6, <1>7 DEF Endings, ServerEndsWell, serverVars, IInv, ServerSide, Live
<1> QED
  BY <1>8, <1>9, RecvInv

\* A client that is done leaves nothing unread; one that is stopped may.
LEMMA HangFit == ASSUME FitInv, NEW c \in Clients, Hang(c) PROVE FitInv'
<1> USE DEF FitInv
<1>1. /\ conn[c] \in Live /\ UNCHANGED <<serverVars, phase, todo, left, up, down, owed>>
      /\ conn' = [conn EXCEPT ![c] = Hangs(c, served = c /\ held > 0)]
      /\ \/ cpc[c] = "closed" /\ cpc' = cpc
         \/ cpc[c] \in {"send", "recv"} /\ cpc' = [cpc EXCEPT ![c] = "killed"]
  BY DEF Hang
<1>2. conn'[c] \in {"reset", "finished"} /\ \A d \in Clients \ {c} : conn'[d] = conn[d]
  BY <1>1 DEF IInv, TypeOK, Hangs
<1>3. cpc'[c] \in {"closed", "killed"} /\ \A d \in Clients \ {c} : cpc'[d] = cpc[d]
  BY <1>1 DEF IInv, TypeOK
<1>4. CASE cpc'[c] = "closed"
  <2>1. cpc[c] = "closed" /\ owed[c] = 0
    BY <1>1, <1>4 DEF IInv, TypeOK, OnePiece
  <2>2. /\ up[c].out = 0 /\ up[c].in = 0 /\ down[c].out = 0 /\ down[c].in = 0
        /\ served = c => held = 0
    BY <1>1, <2>1, OnlyPlace
  <2>3. InFlight(up[c]) = 0 /\ InFlight(down[c]) = 0
    BY <2>2 DEF InFlight
  <2>4. conn'[c] = "finished"
    BY <1>1, <2>2, <2>3 DEF IInv, TypeOK, Hangs
  <2>5. served = c => spc # "send"
    BY <2>2 DEF IInv, ServerSide
  <2>6. OnePiece'
    BY <1>1, <1>2, <1>3, <1>4, <2>1 DEF OnePiece, serverVars, Size, Live
  <2>7. spc \in {"recv", "send", "failed"} => served \in Clients
    BY DEF IInv, ServerSide
  <2>8. Endings'
    BY <1>1, <1>2, <1>3, <1>4, <2>1, <2>3, <2>4, <2>5, <2>7 DEF Endings, ServerEndsWell, serverVars
  <2> QED
    BY <2>6, <2>8, ClientEndsInv
<1>5. CASE cpc'[c] = "killed"
  <2>1. OnePiece'
    BY <1>1, <1>2, <1>3, <1>5 DEF OnePiece, serverVars, Size, Live
  <2>2. spc \in {"recv", "send", "failed"} => served \in Clients
    BY DEF IInv, ServerSide
  <2>3. Endings'
    BY <1>1, <1>2, <1>3, <1>5, <2>2 DEF Endings, ServerEndsWell, serverVars
  <2> QED
    BY <2>1, <2>3, ClientEndsInv
<1> QED
  BY <1>3, <1>4, <1>5

\* A client whose connection was reset counts no more.
LEMMA ClientFailsFit == ASSUME FitInv, NEW c \in Clients, ClientFails(c) PROVE FitInv'
<1> USE DEF FitInv, ClientFails, netVars, serverVars
<1>1. cpc'[c] = "failed" /\ \A d \in Clients \ {c} : cpc'[d] = cpc[d]
  BY DEF IInv, TypeOK
<1>2. OnePiece'
  BY <1>1 DEF OnePiece, Size
<1>3. spc \in {"recv", "send", "ended", "failed"} => served \in Clients
  BY DEF IInv, ServerSide
<1>4. Endings'
  BY <1>1, <1>3 DEF Endings, ServerEndsWell
<1> QED
  BY <1>2, <1>4, ClientEndsInv

\* A segment carries a whole packet.
LEMMA FlowFit == ASSUME PacketsFit, FitInv, NEW c \in Clients, Flow(c) PROVE FitInv'
<1> USE DEF FitInv
<1>1. UNCHANGED <<serverVars, clientVars, owed, conn>>
  BY DEF Flow, FlowUp, FlowDown
<1>2. Size(c) <= SEGMENT /\ Size(c) <= RCVBUF /\ Size(c) \in Nat \ {0}
  BY Sum DEF PacketsFit, Size, IInv, TypeOK
<1>3. ASSUME NEW s \in Streams, Segment(s) > 0, s.out \in {0, Size(c)},
             s.out = Size(c) => s.in = 0
      PROVE  Moved(s).out = 0 /\ Moved(s).in = Size(c)
  <2>1. s.out \in Nat /\ s.in \in Nat /\ Segment(s) \in Nat /\ Segment(s) <= s.out
    <3>1. s.out \in Int /\ RCVBUF - s.in \in Int /\ SEGMENT \in Int
      BY StreamAssumption, StreamNat
    <3> QED
      BY <3>1, StreamNat, MovedStream, MinThree DEF Segment
  <2>2. s.out = Size(c) /\ s.in = 0
    BY <1>2, <1>3, <2>1
  <2>3. InFlight(s) = Size(c)
    BY <1>2, <2>2 DEF InFlight
  <2> QED
    BY <1>2, <2>2, <2>3, MovedStream
<1>4. /\ \A d \in Clients \ {c} : up'[d] = up[d] /\ down'[d] = down[d]
      /\ \/ up'[c] = Moved(up[c]) /\ Segment(up[c]) > 0 /\ down'[c] = down[c]
         \/ down'[c] = Moved(down[c]) /\ Segment(down[c]) > 0 /\ up'[c] = up[c]
  BY DEF Flow, FlowUp, FlowDown, IInv, TypeOK
<1>5. OnePiece'
  <2>1. ASSUME cpc[c] = "recv", conn[c] \in Live
        PROVE  {up'[c].out, up'[c].in, down'[c].out, down'[c].in} \subseteq {0, Size(c)}
    <3>1. /\ up[c].out = Size(c) => up[c].in = 0
          /\ down[c].out = Size(c) => down[c].in = 0
          /\ {up[c].out, up[c].in, down[c].out, down[c].in} \subseteq {0, Size(c)}
      BY <2>1, OnlyPlace DEF OnePiece
    <3>2. up[c] \in Streams /\ down[c] \in Streams
      BY Sum
    <3> QED
      BY <1>3, <1>4, <3>1, <3>2
  <2>2. \A d \in Clients : Size(d)' = Size(d)
    BY <1>1 DEF Size, clientVars
  <2> QED
    BY <1>1, <1>4, <2>1, <2>2 DEF OnePiece, serverVars, clientVars
<1>6. InFlight(up'[c]) = InFlight(up[c])
  BY <1>4, MovedStream, Sum
<1>7. Endings'
  BY <1>1, <1>4, <1>6 DEF Endings, ServerEndsWell, serverVars, clientVars
<1> QED
  BY <1>5, <1>7, FlowInv

\* Every step keeps it.
LEMMA StepFit == ASSUME PacketsFit, FitInv, [Next]_vars PROVE FitInv'
<1>1. CASE ServerStep
  BY <1>1, ServerQuietFit, ReceiveFit, SendBackFit DEF ServerStep
<1>2. ASSUME NEW c \in Clients, ClientStep(c) \/ Hang(c) \/ Flow(c) PROVE FitInv'
  BY <1>2, ConnectFit, SendFit, RecvFit, ClientFailsFit, HangFit, FlowFit DEF ClientStep
<1>3. CASE UNCHANGED vars
  <2>1. IInv'
    BY <1>3, StepInv DEF FitInv
  <2> QED
    BY <1>3, <2>1 DEF FitInv, vars, serverVars, clientVars, netVars, OnePiece, Endings,
         ServerEndsWell, Size
<1> QED
  BY <1>1, <1>2, <1>3 DEF Next

\* With packets that fit FitInv is an invariant.
THEOREM FitInvariant == ASSUME PacketsFit PROVE Spec => []FitInv
<1>1. Init => FitInv
  BY InitFit
<1>2. FitInv /\ [Next]_vars => FitInv'
  BY StepFit
<1> QED
  BY <1>1, <1>2, PTL DEF Spec

\* Packets that fit keep apart: a client starts a packet only when the whole
\* echo of the one before has come back in a single recv.
THEOREM EchoPacketsApart == ASSUME PacketsFit PROVE Spec => []PacketsApart
<1>1. FitInv => PacketsApart
  BY Sum, SizeType DEF FitInv, OnePiece, PacketsApart, Size, IInv, Counts
<1> QED
  BY <1>1, FitInvariant, PTL

\* The server then ends with an error only if its client was stopped: one that
\* closes after its last packet has nothing unread.
THEOREM EchoServerEndsWell == ASSUME PacketsFit PROVE Spec => []ServerEndsWell
<1>1. FitInv => ServerEndsWell
  BY DEF FitInv, Endings
<1> QED
  BY <1>1, FitInvariant, PTL
=============================================================================
