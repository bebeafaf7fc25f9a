----------------------------- MODULE KvSession -----------------------------
(***************************************************************************)
(* One client of Ex4/kv_client.c connected to one server of                *)
(* Ex4/kv_server.c.  The client makes one call at a time (kv_set, kv_get,  *)
(* kv_close); a call posts a work request, waits for completions, and may  *)
(* go on with an RDMA write or read straight into the server's memory,     *)
(* which the server does not notice.  The client remembers where the value *)
(* of the last large key is (last_rndv_accessed_key and its companions)    *)
(* and skips the server altogether for that key.                           *)
(*                                                                         *)
(* The network adapters are external: a reliable connection that executes  *)
(* the posted request, waits while the receiver has no buffer posted, and  *)
(* reports an error when the address is bad or the peer is gone.           *)
(***************************************************************************)
EXTENDS KvServer

CONSTANTS
  KeyLen,                \* strlen of every key
  EmptyKey,              \* the key "", also the content of a cleared cache
  PACKET_SIZE,           \* sizeof(struct packet)
  EAGER_PROTOCOL_LIMIT,
  MAX_TEST_SIZE,         \* size of an rndv_buffer and of its memory region
  Garbage,               \* bytes the server never sent
  Workload,              \* the <<key, value>> pairs the caller sets
  Asked                  \* the keys the caller gets

ASSUME SessionAssumption ==
  /\ KeyLen \in [Keys -> Nat]
  /\ EmptyKey # NULL
  /\ NULL \notin Requests \cup Responses
  /\ NULL \notin [name : {"set"}, key : Keys, value : Values]
                 \cup [name : {"get"}, key : Keys] \cup [name : {"close"}]
  /\ Garbage \notin Values \cup {NULL, Zero}
  /\ {PACKET_SIZE, EAGER_PROTOCOL_LIMIT, MAX_TEST_SIZE} \subseteq Nat
  /\ \A k \in Keys : KeyLen[k] + 1 + PACKET_SIZE <= EAGER_PROTOCOL_LIMIT
  /\ \A v \in Values : ValLen[v] + 1 <= MAX_TEST_SIZE
  /\ Workload \subseteq Keys \X Values
  /\ Asked \subseteq Keys

VARIABLES
  pc,                            \* where the client is
  call,                          \* the call in progress, or NULL
  ret,                           \* its return value
  result,                        \* what *value points to: a string, or NULL
  last_rndv_accessed_key,
  last_accessed_key_val_length,
  last_accessed_server_addr,
  sq,                            \* the work request posted, or NULL
  scnt, rcnt,                    \* completions polled by pp_wait_completions
  wc_error,                      \* a completion with an error status
  recvs,                         \* receives the client has posted
  response,                      \* the response in the client's ctx->buf
  qp_error,                      \* the connection is in the error state
  want                           \* history: the last value set, for each key

cacheVars == <<last_rndv_accessed_key, last_accessed_key_val_length,
               last_accessed_server_addr>>
cqVars == <<scnt, rcnt, wc_error>>
clientVars == <<pc, call, ret, result, cacheVars, sq, cqVars, recvs, response,
                qp_error, want>>
sessionVars == <<serverVars, clientVars>>

(***************************************************************************)
(* C strings.  The string v cut after n bytes is <<v, n>>.                 *)
(***************************************************************************)
StrLen(c) == IF c \in Values THEN ValLen[c] ELSE 0

\* The string that the first n bytes of content c hold when a zero follows.
Cut(c, n) == <<c, IF n < StrLen(c) THEN n ELSE StrLen(c)>>

\* What may stand in a zeroed buffer of size bytes after n bytes of content c
\* are read into it.  A buffer that is full without a NUL is no string: who
\* looks for its end goes on into what lies behind.
StringsIn(c, n, size) ==
  {Cut(c, n)} \cup (IF n < size \/ StrLen(c) < n THEN {} ELSE {<<Garbage, n>>})

Whole(v) == Cut(v, ValLen[v])

Empty == <<Zero, 0>>

RECV_LIMIT == 1     \* rx_depth, the receives the queue has room for

ClientStates == {"idle", "eager_set", "rndv_set", "write", "get", "read",
                 "return", "close", "closed", "aborted"}

Idle == pc = "idle"

SessionInit ==
  /\ ServerInit
  /\ pc = "idle"
  /\ call = NULL
  /\ ret = 0
  /\ result = NULL
  /\ last_rndv_accessed_key = EmptyKey
  /\ last_accessed_key_val_length = 0
  /\ last_accessed_server_addr = NULL
  /\ sq = NULL
  /\ scnt = 0 /\ rcnt = 0 /\ wc_error = FALSE
  /\ recvs = 1
  /\ response = NULL
  /\ qp_error = FALSE
  /\ want = [k \in Keys |-> NULL]

(***************************************************************************)
(* pp_post_recv, pp_post_send and the end of pp_wait_completions           *)
(***************************************************************************)

\* A receive that does not fit in the queue is refused; nobody looks.
PostRecv == recvs' = IF recvs < RECV_LIMIT THEN recvs + 1 ELSE recvs

PostSend(pkt) == sq' = [opcode |-> "SEND", packet |-> pkt]
PostWrite(v, n, addr) ==
  sq' = [opcode |-> "RDMA_WRITE", value |-> v, length |-> n, addr |-> addr]
\* n bytes into a buffer *value of size bytes that calloc has zeroed.
PostRead(n, size, addr) ==
  /\ result' = Empty
  /\ sq' = [opcode |-> "RDMA_READ", length |-> n, size |-> size, addr |-> addr]

\* The loop runs while rcnt + scnt <= iters.
BugOneMore(n) == wc_error \/ scnt + rcnt > n

\* Only the send completion is waited for.
BugSendOnly(n) == wc_error \/ scnt >= 1

\* pp_wait_completions(ctx, n) is over, with return value 0 or 1.
WaitOver(n) == wc_error \/ scnt + rcnt >= n
ResponseIs(type) == response # NULL /\ response.type = type
WaitResult == IF wc_error THEN 1 ELSE 0

\* The counters are not reset between two waits.
BugCountersKept ==
  /\ wc_error' = FALSE
  /\ recvs' = IF recvs + rcnt < RECV_LIMIT THEN recvs + rcnt ELSE RECV_LIMIT
  /\ UNCHANGED <<scnt, rcnt>>

\* Every receive completion that is polled posts a receive again.
CompletionsTaken ==
  /\ scnt' = 0 /\ rcnt' = 0 /\ wc_error' = FALSE
  /\ recvs' = IF recvs + rcnt < RECV_LIMIT THEN recvs + rcnt ELSE RECV_LIMIT

(***************************************************************************)
(* kv_set                                                                  *)
(***************************************************************************)
Eager(k, v) == KeyLen[k] + ValLen[v] + PACKET_SIZE + 2 < EAGER_PROTOCOL_LIMIT

\* strcmp without the == 0.
BugCachedInverted(k) == last_rndv_accessed_key # k

Cached(k) == last_rndv_accessed_key = k

\* Only the length is cleared.
BugKeyKept(k) ==
  /\ last_accessed_key_val_length' =
       IF Cached(k) THEN 0 ELSE last_accessed_key_val_length
  /\ UNCHANGED last_rndv_accessed_key

\* The cache forgets key k.
Forget(k) ==
  IF Cached(k)
  THEN /\ last_rndv_accessed_key' = EmptyKey
       /\ last_accessed_key_val_length' = 0
  ELSE UNCHANGED <<last_rndv_accessed_key, last_accessed_key_val_length>>

SetCall(k, v) == [name |-> "set", key |-> k, value |-> v]

\* A small value travels in the request; the cache forgets the key.
SetEager(k, v) ==
  /\ Idle /\ Eager(k, v)
  /\ call' = SetCall(k, v)
  /\ pc' = "eager_set"
  /\ Forget(k)
  /\ PostSend([type |-> "EAGER_SET_REQUEST", key |-> k, value |-> v])
  /\ UNCHANGED <<serverVars, ret, result, last_accessed_server_addr, cqVars,
                 recvs, response, qp_error, want>>

\* The cached key: only an RDMA write, the server is not told.
SetCached(k, v) ==
  /\ Idle /\ ~Eager(k, v) /\ Cached(k)
  /\ call' = SetCall(k, v)
  /\ pc' = "write"
  /\ last_accessed_key_val_length' = ValLen[v]
  /\ PostWrite(v, ValLen[v] + 1, last_accessed_server_addr)
  /\ UNCHANGED <<serverVars, ret, result, last_rndv_accessed_key,
                 last_accessed_server_addr, cqVars, recvs, response, qp_error,
                 want>>

SetRendezvous(k, v) ==
  /\ Idle /\ ~Eager(k, v) /\ ~Cached(k)
  /\ call' = SetCall(k, v)
  /\ pc' = "rndv_set"
  /\ PostRecv
  /\ PostSend([type |-> "RENDEZVOUS_SET_REQUEST", key |-> k,
               value_length |-> ValLen[v] + 1])
  /\ UNCHANGED <<serverVars, ret, result, cacheVars, cqVars, response,
                 qp_error, want>>

\* Both completions are there: remember the address and write to it.
SetGotAddress ==
  /\ pc = "rndv_set" /\ ~wc_error /\ WaitOver(2)
  /\ ResponseIs("RENDEZVOUS_SET_RESPONSE")
  /\ pc' = "write"
  /\ CompletionsTaken
  /\ last_rndv_accessed_key' = call.key
  /\ last_accessed_key_val_length' = ValLen[call.value]
  /\ last_accessed_server_addr' = response.server_ptr
  /\ PostWrite(call.value, ValLen[call.value] + 1, response.server_ptr)
  /\ response' = NULL
  /\ UNCHANGED <<serverVars, call, ret, result, qp_error, want>>

\* assert(pp_wait_completions(ctx, 2) == 0), assert(type == ...)
SetAborts ==
  /\ pc = "rndv_set" /\ WaitOver(2)
  /\ wc_error \/ ~ResponseIs("RENDEZVOUS_SET_RESPONSE")
  /\ pc' = "aborted"
  /\ UNCHANGED <<serverVars, call, ret, result, cacheVars, sq, cqVars, recvs,
                 response, qp_error, want>>

SetReturns ==
  /\ pc \in {"eager_set", "write"} /\ WaitOver(1)
  /\ ret' = WaitResult
  /\ want' = [want EXCEPT ![call.key] = call.value]
  /\ pc' = "return"
  /\ CompletionsTaken
  /\ UNCHANGED <<serverVars, call, result, cacheVars, sq, response, qp_error>>

(***************************************************************************)
(* kv_get                                                                  *)
(***************************************************************************)
GetCall(k) == [name |-> "get", key |-> k]

GetRequest(k) ==
  /\ Idle /\ ~Cached(k)
  /\ call' = GetCall(k)
  /\ pc' = "get"
  /\ PostRecv
  /\ PostSend([type |-> "EAGER_GET_REQUEST", key |-> k])
  /\ UNCHANGED <<serverVars, ret, result, cacheVars, cqVars, response,
                 qp_error, want>>

\* The cached key is read straight from the server's memory.
GetCached(k) ==
  /\ Idle /\ Cached(k)
  /\ call' = GetCall(k)
  /\ pc' = "read"
  /\ PostRead(last_accessed_key_val_length, last_accessed_key_val_length + 1,
              last_accessed_server_addr)
  /\ UNCHANGED <<serverVars, ret, cacheVars, cqVars, recvs, response, qp_error,
                 want>>

\* The wait for the answer is over; its return value is not looked at.
Answered(type) ==
  /\ pc = "get" /\ WaitOver(2)
  /\ ResponseIs(type)

GetSmall ==
  /\ Answered("EAGER_GET_RESPONSE")
  /\ result' = Whole(response.value)
  /\ ret' = 0
  /\ pc' = "return"
  /\ CompletionsTaken
  /\ response' = NULL
  /\ UNCHANGED <<serverVars, call, cacheVars, sq, qp_error, want>>

\* value_length arrives incomplete: its upper bytes and the value are what
\* the client's buffer held before, so the copy returns anything or faults.
GetAbsent ==
  /\ Answered("EAGER_GET_RESPONSE_SHORT")
  /\ \/ pc' = "return" /\ result' \in {Empty, <<Garbage, 0>>}
     \/ pc' = "aborted" /\ UNCHANGED result
  /\ ret' = 0
  /\ CompletionsTaken
  /\ response' = NULL
  /\ UNCHANGED <<serverVars, call, cacheVars, sq, qp_error, want>>

\* value_length counts the NUL, and one byte more is allocated and read: the
\* buffer is as long as what is read, nothing is kept free for a NUL.
GetLarge ==
  /\ Answered("RENDEZVOUS_GET_RESPONSE")
  /\ pc' = "read"
  /\ CompletionsTaken
  /\ last_rndv_accessed_key' = call.key
  /\ last_accessed_key_val_length' = response.value_length
  /\ last_accessed_server_addr' = response.server_ptr
  /\ PostRead(response.value_length + 1, response.value_length + 1,
              response.server_ptr)
  /\ response' = NULL
  /\ UNCHANGED <<serverVars, call, ret, qp_error, want>>

\* The buffer still holds the request, or a response of another type.
GetErrs ==
  /\ pc = "get" /\ WaitOver(2)
  /\ response = NULL \/ ResponseIs("RENDEZVOUS_SET_RESPONSE")
  /\ ret' = -1
  /\ pc' = "return"
  /\ CompletionsTaken
  /\ UNCHANGED <<serverVars, call, result, cacheVars, sq, response, qp_error,
                 want>>

GetReturns ==
  /\ pc = "read" /\ WaitOver(1)
  /\ ret' = 0
  /\ pc' = "return"
  /\ CompletionsTaken
  /\ UNCHANGED <<serverVars, call, result, cacheVars, sq, response, qp_error,
                 want>>

\* The caller has its answer and may call again.
Return ==
  /\ pc = "return"
  /\ pc' = "idle"
  /\ call' = NULL /\ ret' = 0 /\ result' = NULL
  /\ UNCHANGED <<serverVars, cacheVars, sq, cqVars, recvs, response, qp_error,
                 want>>

(***************************************************************************)
(* kv_close                                                                *)
(***************************************************************************)
Close ==
  /\ Idle
  /\ call' = [name |-> "close"]
  /\ pc' = "close"
  /\ PostSend([type |-> "CLOSE_CONNECTION"])
  /\ UNCHANGED <<serverVars, ret, result, cacheVars, cqVars, recvs, response,
                 qp_error, want>>

CloseReturns ==
  /\ pc = "close" /\ WaitOver(1)
  /\ pc' = "closed"
  /\ CompletionsTaken
  /\ UNCHANGED <<serverVars, call, ret, result, cacheVars, sq, response,
                 qp_error, want>>

ClientStep ==
  \/ SetGotAddress \/ SetAborts \/ SetReturns
  \/ GetSmall \/ GetAbsent \/ GetLarge \/ GetErrs \/ GetReturns
  \/ Return \/ CloseReturns

ClientCall ==
  \/ \E w \in Workload :
       \/ SetEager(w[1], w[2])
       \/ SetCached(w[1], w[2])
       \/ SetRendezvous(w[1], w[2])
  \/ \E k \in Asked : GetRequest(k) \/ GetCached(k)
  \/ Close

(***************************************************************************)
(* The network adapters                                                    *)
(***************************************************************************)
ServerAlive == srv \in {"poll", "maintain"}

Posted(opcode) == sq # NULL /\ sq.opcode = opcode /\ ~qp_error

\* The range an RDMA request names lies inside one registered region.
InBounds ==
  \/ sq.length = 0
  \/ sq.addr \in registered /\ sq.length <= MAX_TEST_SIZE

Completed ==
  /\ sq' = NULL
  /\ scnt' = scnt + 1
  /\ UNCHANGED <<pc, call, ret, cacheVars, rcnt, wc_error, recvs, response,
                 qp_error, want>>

\* The send completes when the server's adapter has the packet in a posted
\* buffer, which is before the server looks at it.
SendDelivered ==
  /\ Posted("SEND")
  /\ Receive(sq.packet)
  /\ Completed
  /\ UNCHANGED <<notCtxBuf, result>>

WriteDone ==
  /\ Posted("RDMA_WRITE") /\ ServerAlive /\ InBounds
  /\ RdmaWrite(sq.addr, sq.value)
  /\ Completed
  /\ UNCHANGED <<notBuffer, result>>

ReadDone ==
  /\ Posted("RDMA_READ") /\ ServerAlive /\ InBounds
  /\ IF sq.length = 0 THEN result' = Empty
     ELSE result' \in StringsIn(rndv_buffer[sq.addr], sq.length, sq.size)
  /\ Completed
  /\ UNCHANGED serverVars

\* A bad address, a peer that is gone, or a queue pair already in error.
RequestFails ==
  /\ sq # NULL
  /\ \/ qp_error
     \/ ~ServerAlive
     \/ sq.opcode # "SEND" /\ ~InBounds
  /\ sq' = NULL
  /\ wc_error' = TRUE
  /\ qp_error' = TRUE
  /\ UNCHANGED <<serverVars, pc, call, ret, result, cacheVars, scnt, rcnt, recvs,
                 response, want>>

ResponseDelivered ==
  /\ reply # NULL /\ recvs > 0
  /\ reply' = NULL
  /\ response' = reply
  /\ recvs' = recvs - 1
  /\ rcnt' = rcnt + 1
  /\ UNCHANGED <<notReply, pc, call, ret, result, cacheVars, sq, scnt, wc_error,
                 qp_error, want>>

\* The server's process ended before its response was on the wire.
ResponseLost ==
  /\ reply # NULL /\ ~ServerAlive
  /\ reply' = NULL
  /\ UNCHANGED <<notReply, clientVars>>

NetworkStep ==
  \/ SendDelivered \/ WriteDone \/ ReadDone \/ RequestFails
  \/ ResponseDelivered \/ ResponseLost

SessionNext ==
  \/ ServerStep /\ UNCHANGED clientVars
  \/ ClientStep
  \/ ClientCall
  \/ NetworkStep

SessionSpec == SessionInit /\ [][SessionNext]_sessionVars

\* The server's loop and the client's polling loops run as long as they can
\* and the adapters finish what is posted; nobody has to make a call, and
\* ibv_reg_mr never has to fail.
ServerProgress ==
  /\ ServerStep /\ srv' # "failed"
  /\ UNCHANGED clientVars

FairSession ==
  /\ SessionSpec
  /\ WF_sessionVars(ServerProgress)
  /\ WF_sessionVars(ClientStep)
  /\ WF_sessionVars(NetworkStep)

(***************************************************************************)
(* Properties                                                              *)
(***************************************************************************)

\* The client's variables keep their types, and no call ever has more
\* completions pending than it waits for.
SessionTypeOK ==
  /\ pc \in ClientStates
  /\ ret \in {-1, 0, 1}
  /\ last_rndv_accessed_key \in Keys \cup {EmptyKey}
  /\ last_accessed_key_val_length \in Nat
  /\ last_accessed_server_addr \in Blocks \cup {NULL}
  /\ scnt \in 0 .. 1 /\ rcnt \in 0 .. 1
  /\ recvs \in 0 .. RECV_LIMIT
  /\ response \in Responses \cup {NULL}
  /\ want \in [Keys -> Values \cup {NULL}]

\* What a get of key k would find now, NULL for an absent key.  A set that is
\* still in the server's receive buffer counts: it is handled first.
View(k) ==
  IF /\ ctx_buf # NULL /\ ctx_buf.type = "EAGER_SET_REQUEST"
     /\ ctx_buf.key = k
  THEN Whole(ctx_buf.value)
  ELSE IF Cached(k)
  THEN IF last_accessed_server_addr = NULL THEN Empty
       ELSE Cut(rndv_buffer[last_accessed_server_addr],
                last_accessed_key_val_length)
  ELSE IF k \notin entries THEN NULL
  ELSE IF value[k] # NULL THEN Whole(value[k])
  ELSE Cut(rndv_buffer[large_val_mem_info[k]], val_len[k] + 1)

Connected == ServerAlive /\ ~qp_error /\ pc \notin {"closed", "aborted"}

InSet(k) ==
  pc \in {"eager_set", "rndv_set", "write"} /\ call.key = k

\* The cached address is the block of the cached key: the client never writes
\* by RDMA into a block that the server has taken from the key, that another
\* key owns, or that is back in the pool.
CacheCoherent ==
  Connected /\ last_rndv_accessed_key \in Keys =>
    /\ last_rndv_accessed_key \in entries
    /\ large_val_mem_info[last_rndv_accessed_key] = last_accessed_server_addr
    /\ last_accessed_server_addr # NULL

\* Between calls nothing is left over on the connection that the next call
\* could take for its own: no posted request, completion or response.
NothingLeftOver ==
  Idle /\ Connected =>
    /\ sq = NULL /\ scnt = 0 /\ rcnt = 0 /\ ~wc_error
    /\ reply = NULL /\ response = NULL
    /\ recvs = RECV_LIMIT

\* Every RDMA request of the client stays inside a registered region of the
\* server, so no kv_get or kv_set breaks the connection.
RdmaInBounds ==
  ServerAlive /\ sq # NULL /\ sq.opcode # "SEND" => InBounds

\* Every call returns, unless the server gave up on ibv_reg_mr.
EveryCallReturns ==
  pc \notin {"idle", "closed", "aborted"} ~>
    (pc \in {"idle", "closed", "aborted"} \/ srv = "failed")

\* After kv_close the server ends too.
CloseEndsServer == pc = "closed" ~> ~ServerAlive

\* What the session looks like to its caller.  The set in progress has not
\* taken effect; everything else is what the server and the cache hold.
StoredNow ==
  [k \in Keys |->
     IF ~Connected THEN NULL
     ELSE IF ~InSet(k) THEN View(k)
     ELSE IF want[k] = NULL THEN NULL ELSE Whole(want[k])]

CallNow ==
  IF ~Connected \/ call = NULL THEN NULL
  ELSE IF call.name = "set" THEN [call EXCEPT !.value = Whole(@)]
  ELSE call

PhaseNow ==
  IF ~Connected \/ Idle THEN "idle" ELSE IF pc = "return" THEN "done" ELSE "called"

AnswerNow ==
  IF Connected /\ pc = "return" /\ call.name = "get" THEN result ELSE NULL

\* The session implements the abstract store.
Store == INSTANCE KvStore WITH
  Answers <- {Whole(v) : v \in Values} \cup {Empty, <<Garbage, 0>>},
  Values <- {Whole(v) : v \in Values},
  store <- StoredNow, call <- CallNow, phase <- PhaseNow, answer <- AnswerNow,
  up <- Connected

ImplementsStore == Store!Spec

(***************************************************************************)
(* What the code does not do: README, "Known divergences"                  *)
(***************************************************************************)

\* kv_get returns what the last kv_set of the key stored.
GetReturnsLastSet ==
  /\ pc = "return" /\ call.name = "get" /\ Connected
  /\ want[call.key] # NULL
  => result = Whole(want[call.key])

\* kv_get of a key the server does not have returns "".
AbsentIsEmpty ==
  /\ pc = "return" /\ call.name = "get" /\ Connected
  /\ want[call.key] = NULL
  => result = Empty

\* The server never dereferences a NULL mem_pool_head: maintain_pool always
\* leaves a block for the next large value.
ServerSurvives == srv # "crashed"
=============================================================================
