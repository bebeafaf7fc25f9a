------------------------------ MODULE TcpStream ------------------------------
(***************************************************************************)
(* TCP connections as the echo programs of Ex1 and Ex2 use them.  Of each  *)
(* direction, a stream, counts the number of bytes in the sender's buffer  *)
(* and the number in the receiver's.  TCP keeps no message boundaries: a   *)
(* segment carries what is there, up to SEGMENT bytes and as far as the    *)
(* receiver has room.                                                      *)
(***************************************************************************)
EXTENDS Integers, FiniteSetsExt

CONSTANTS
  Sockets,            \* the sockets of the clients
  SNDBUF, RCVBUF, SEGMENT

ASSUME StreamAssumption ==
  /\ SNDBUF \in Nat \ {0} /\ RCVBUF \in Nat \ {0} /\ SEGMENT \in Nat \ {0}

VARIABLES
  conn,               \* the state of each connection
  up, down            \* its streams, to the server and to the client

netVars == <<conn, up, down>>

Streams == [out : 0 .. SNDBUF, in : 0 .. RCVBUF]

EmptyStream == [out |-> 0, in |-> 0]

\* The bytes a blocking send of n can hand over at once.
Accepted(s, n) == Min({n, SNDBUF - s.out})

Sent(s, n) == [s EXCEPT !.out = @ + n]

Segment(s) == Min({SEGMENT, s.out, RCVBUF - s.in})

Moved(s) == [out |-> s.out - Segment(s), in |-> s.in + Segment(s)]

\* The bytes a recv with room for n returns.
Received(s, n) == Min({n, s.in})

Taken(s, n) == [s EXCEPT !.in = @ - n]

InFlight(s) == s.out + s.in

\* A connection waits to be accepted, is open, has been closed by the client
\* with all data read, or is broken.
ConnStates == {"none", "queued", "open", "finished", "reset"}

Live == {"queued", "open"}

NetInit ==
  /\ conn = [s \in Sockets |-> "none"]
  /\ up = [s \in Sockets |-> EmptyStream] /\ down = [s \in Sockets |-> EmptyStream]

FlowUp(s) ==
  /\ Segment(up[s]) > 0 /\ conn[s] \in Live \cup {"finished"}
  /\ up' = [up EXCEPT ![s] = Moved(@)]
  /\ UNCHANGED <<conn, down>>

FlowDown(s) ==
  /\ Segment(down[s]) > 0 /\ conn[s] \in Live
  /\ down' = [down EXCEPT ![s] = Moved(@)]
  /\ UNCHANGED <<conn, up>>

\* The state of a connection whose client closes: it is reset if something was
\* left unread or is still to come, as pending tells.
Hangs(s, pending) == IF InFlight(down[s]) > 0 \/ pending THEN "reset" ELSE "finished"
=============================================================================
