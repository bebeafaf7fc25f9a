-------------------------------- MODULE IbPerf --------------------------------
(***************************************************************************)
(* The InfiniBand measurements of Ex2 after the exchange of addresses      *)
(* (ib_perf.c): the client posts its packets and waits for completions     *)
(* every tx_depth of them; the server sends one message of its own and     *)
(* counts completions.  A wait counts whatever a poll returns, up to       *)
(* WC_BATCH at once, sends and receives alike, and forgets what it counts  *)
(* beyond its goal.                                                        *)
(*                                                                         *)
(* A post that finds the send queue full ends the client.  The queue has   *)
(* at least the tx_depth places max_send_wr asks for; a provider may give  *)
(* more.                                                                   *)
(***************************************************************************)
EXTENDS Integers, Sequences, FiniteSetsExt

CONSTANTS
  ITERS,              \* packets of the throughput measurement
  DEPTH,              \* tx_depth, which is also rx_depth
  SQ_SIZES,           \* places a provider may give the send queue
  WC_BATCH,           \* completions one poll takes
  REFILL              \* receives are posted again when so many are left (10)

ASSUME PerfAssumption ==
  /\ ITERS \in Nat \ {0} /\ DEPTH \in Nat \ {0} /\ WC_BATCH \in Nat \ {0}
  /\ REFILL \in 0 .. DEPTH - 1
  /\ \A n \in SQ_SIZES : n \in Nat /\ n >= DEPTH

VARIABLES
  cpc, i, ccnt, ccq,  \* the client, its loop counter, its wait, its completions
  sq_size,            \* places of its send queue
  flying, unacked,    \* its packets: not yet delivered; not yet acknowledged
  spc, scnt, scq, wc, \* the server, its wait, its completions, those it has polled
  rq, routs,          \* receives in the server's queue; ctx->routs
  msg                 \* the server's message

clientVars == <<cpc, i, ccnt>>
serverVars == <<spc, scnt, wc, rq, routs>>
vars == <<clientVars, serverVars, ccq, scq, sq_size, flying, unacked, msg>>

Init ==
  /\ cpc = "loop" /\ i = 0 /\ ccnt = 0 /\ ccq = <<>>
  /\ sq_size \in SQ_SIZES /\ flying = 0 /\ unacked = 0
  /\ spc = "start" /\ scnt = 0 /\ scq = <<>> /\ wc = <<>>
  /\ rq = DEPTH /\ routs = DEPTH
  /\ msg = "none"

ClientEnded == cpc \in {"done", "failed"}

(***************************************************************************)
(* The connection                                                          *)
(***************************************************************************)

\* A packet needs a receive; without one it is sent again and again.
Deliver ==
  /\ flying > 0 /\ rq > 0 /\ spc # "done"
  /\ flying' = flying - 1 /\ unacked' = unacked + 1
  /\ rq' = rq - 1 /\ scq' = Append(scq, "recv")
  /\ UNCHANGED <<sq_size, clientVars, spc, scnt, wc, routs, ccq, msg>>

Acknowledge ==
  /\ unacked > 0 /\ ~ClientEnded
  /\ unacked' = unacked - 1 /\ ccq' = Append(ccq, "send")
  /\ UNCHANGED <<sq_size, clientVars, serverVars, scq, flying, msg>>

DeliverMessage ==
  /\ msg = "flying" /\ ~ClientEnded
  /\ msg' = "delivered" /\ ccq' = Append(ccq, "recv")
  /\ UNCHANGED <<sq_size, clientVars, serverVars, scq, flying, unacked>>

AcknowledgeMessage ==
  /\ msg = "delivered" /\ spc # "done"
  /\ msg' = "acknowledged" /\ scq' = Append(scq, "send")
  /\ UNCHANGED <<sq_size, clientVars, serverVars, ccq, flying, unacked>>

\* The server has left: what the client has posted fails.
Flush ==
  /\ spc = "done" /\ flying > 0 /\ ~ClientEnded
  /\ flying' = flying - 1 /\ ccq' = Append(ccq, "error")
  /\ UNCHANGED <<sq_size, clientVars, serverVars, scq, unacked, msg>>

(***************************************************************************)
(* Both programs: pp_wait_completions                                      *)
(***************************************************************************)

\* What one poll takes of a completion queue.
Polled(cq) == SubSeq(cq, 1, Min({WC_BATCH, Len(cq)}))

Remaining(cq) == SubSeq(cq, WC_BATCH + 1, Len(cq))

Count(cq, kind) == Cardinality({j \in DOMAIN cq : cq[j] = kind})

\* ctx->routs after a receive has completed, and the receives posted again.
BugNeverReposted(left) == 0

Reposted(left) == IF left <= REFILL THEN DEPTH - left ELSE 0

Counted(left) == left + Reposted(left)

(***************************************************************************)
(* The client                                                              *)
(***************************************************************************)
BugNeverDue == FALSE

WaitDue == i # 0 /\ i % DEPTH = 0

\* Places of the send queue that are taken: a completion frees its place when it
\* is polled.
Outstanding == flying + unacked + Count(ccq, "send") + Count(ccq, "error")

\* The packet the client is about to post: one of the loop, or the latency's.
PacketNext == i < ITERS /\ ((cpc = "loop" /\ ~WaitDue) \/ cpc = "waited")

LatencyNext == i = ITERS /\ cpc = "loop"

Post == Outstanding < sq_size /\ flying' = flying + 1

ClientWaits ==
  /\ cpc = "loop" /\ i < ITERS /\ WaitDue
  /\ cpc' = "wait" /\ ccnt' = 0
  /\ UNCHANGED <<sq_size, i, serverVars, ccq, scq, flying, unacked, msg>>

ClientPosts ==
  /\ PacketNext /\ Post
  /\ i' = i + 1 /\ cpc' = "loop"
  /\ UNCHANGED <<sq_size, ccnt, serverVars, ccq, scq, unacked, msg>>

Goal == [wait |-> DEPTH, last |-> 1]

\* An error ends the wait; its result is ignored.
ClientPolls ==
  /\ cpc \in DOMAIN Goal /\ ccnt < Goal[cpc] /\ ccq # <<>>
  /\ ccq' = Remaining(ccq)
  /\ ccnt' = IF Count(Polled(ccq), "error") > 0 THEN Goal[cpc] ELSE ccnt + Len(Polled(ccq))
  /\ UNCHANGED <<sq_size, cpc, i, serverVars, scq, flying, unacked, msg>>

ClientWaited ==
  /\ cpc = "wait" /\ ccnt >= DEPTH
  /\ cpc' = "waited"
  /\ UNCHANGED <<sq_size, i, ccnt, serverVars, ccq, scq, flying, unacked, msg>>

MeasureLatency ==
  /\ LatencyNext /\ Post
  /\ cpc' = "last" /\ ccnt' = 0
  /\ UNCHANGED <<sq_size, i, serverVars, ccq, scq, unacked, msg>>

\* "Client couldn't post send": main returns 1.
PostFails ==
  /\ (PacketNext \/ LatencyNext) /\ Outstanding >= sq_size
  /\ cpc' = "failed"
  /\ UNCHANGED <<sq_size, i, ccnt, serverVars, ccq, scq, flying, unacked, msg>>

\* The process ends, whatever is still to be sent.
ClientDone ==
  /\ cpc = "last" /\ ccnt >= 1
  /\ cpc' = "done"
  /\ UNCHANGED <<sq_size, i, ccnt, serverVars, ccq, scq, flying, unacked, msg>>

(***************************************************************************)
(* The server                                                              *)
(***************************************************************************)
ServerPosts ==
  /\ spc = "start"
  /\ msg' = "flying" /\ spc' = "wait" /\ scnt' = 0
  /\ UNCHANGED <<sq_size, clientVars, wc, rq, routs, ccq, scq, flying, unacked>>

ServerGoal == [wait |-> ITERS, last |-> 1]

ServerPolls ==
  /\ spc \in DOMAIN ServerGoal /\ scnt < ServerGoal[spc]
  /\ wc = <<>> /\ scq # <<>>
  /\ wc' = Polled(scq) /\ scq' = Remaining(scq)
  /\ UNCHANGED <<sq_size, clientVars, spc, scnt, rq, routs, ccq, flying, unacked, msg>>

\* The completions of one poll are counted one after the other.
ServerCounts ==
  /\ wc # <<>> /\ wc' = Tail(wc)
  /\ scnt' = scnt + 1
  /\ IF Head(wc) = "recv"
     THEN rq' = rq + Reposted(routs - 1) /\ routs' = Counted(routs - 1)
     ELSE UNCHANGED <<rq, routs>>
  /\ UNCHANGED <<sq_size, clientVars, spc, ccq, scq, flying, unacked, msg>>

\* The second wait starts from zero, even if the first has counted more.
ServerWaitsAgain ==
  /\ spc = "wait" /\ scnt >= ITERS /\ wc = <<>>
  /\ spc' = "last" /\ scnt' = 0
  /\ UNCHANGED <<sq_size, clientVars, wc, rq, routs, ccq, scq, flying, unacked, msg>>

ServerDone ==
  /\ spc = "last" /\ scnt >= 1 /\ wc = <<>>
  /\ spc' = "done"
  /\ UNCHANGED <<sq_size, clientVars, scnt, wc, rq, routs, ccq, scq, flying, unacked, msg>>

ClientStep ==
  \/ ClientWaits \/ ClientPosts \/ ClientPolls \/ ClientWaited
  \/ MeasureLatency \/ PostFails \/ ClientDone

ServerStep == ServerPosts \/ ServerPolls \/ ServerCounts \/ ServerWaitsAgain \/ ServerDone

NetStep == Deliver \/ Acknowledge \/ DeliverMessage \/ AcknowledgeMessage \/ Flush

Next == ClientStep \/ ServerStep \/ NetStep

\* Both programs poll, and the connection delivers as long as both exist.
Spec ==
  /\ Init /\ [][Next]_vars
  /\ WF_vars(ClientStep) /\ WF_vars(ServerStep) /\ WF_vars(~ClientEnded /\ NetStep)

(***************************************************************************)
(* Properties                                                              *)
(***************************************************************************)

\* The variables keep their types.
TypeOK ==
  /\ cpc \in {"loop", "wait", "waited", "last", "done", "failed"}
  /\ sq_size \in SQ_SIZES
  /\ i \in 0 .. ITERS /\ ccnt \in 0 .. DEPTH + WC_BATCH
  /\ ccq \in Seq({"send", "recv", "error"})
  /\ scq \in Seq({"send", "recv"}) /\ wc \in Seq({"send", "recv"})
  /\ flying \in Nat /\ unacked \in Nat
  /\ spc \in {"start", "wait", "last", "done"} /\ scnt \in 0 .. ITERS + WC_BATCH
  /\ rq \in 0 .. DEPTH /\ routs \in 0 .. DEPTH
  /\ msg \in {"none", "flying", "delivered", "acknowledged"}

\* Two places more than max_send_wr = tx_depth are enough for any order of
\* completions: a wait may count the server's message for a send, and no wait
\* precedes the latency packet.  With one place more only that packet is refused;
\* and no completion queue, of rx_depth + tx_depth entries, ever overflows.
QueuesFit ==
  /\ cpc = "failed" => sq_size = DEPTH \/ (sq_size = DEPTH + 1 /\ i = ITERS)
  /\ Len(ccq) <= 2 * DEPTH /\ Len(scq) <= 2 * DEPTH

\* ctx->routs is the number of receives that are posted or whose completion is
\* still to be counted, and some always remain: the server never runs
\* out of receives for good.
ReceivesCounted ==
  /\ routs = rq + Count(scq, "recv") + Count(wc, "recv")
  /\ routs > REFILL

\* The client ends, whatever the order of completions and of the ends of both.
ClientEnds == <>ClientEnded

(***************************************************************************)
(* What the code does not do: README, "Known divergences"                  *)
(***************************************************************************)

\* "Send 1 packet ... Receive 1 packet": when the latency is taken, the packet
\* that was sent for it has at least arrived.
LatencyOfAPacket == cpc = "done" => flying = 0

\* "Sending continuously pre defined # of packets": the send queue takes them all.
\* With max_send_wr places exactly, the latency packet at the latest is refused.
PostsSucceed == cpc # "failed"
=============================================================================
