------------------------------ MODULE KvServer ------------------------------
(***************************************************************************)
(* The key-value server of exercise 4 (Ex4/kv_server.c): the list of       *)
(* KV_ENTRY nodes, the pool of registered memory nodes (MEMORY_INFO) that  *)
(* hold the values too large for a packet, the packet handler,             *)
(* maintain_pool and clear_server_data.                                    *)
(*                                                                         *)
(* The peer is left open here: it sends any request the client library can *)
(* send and writes by RDMA into any memory node an entry owns.  KvSession  *)
(* closes the system with the real client.                                 *)
(*                                                                         *)
(* The entry list is kept as the set of its keys and one function per      *)
(* field: the list is only ever searched for a key and appended to when    *)
(* the search fails, so its order is never observed.  The pool lists are   *)
(* kept as the code has them, node by node through next_mem, because the   *)
(* code's own view of them (mem_pool_tail, pool_size) can differ from what *)
(* is reachable.                                                           *)
(***************************************************************************)
EXTENDS Integers, FiniteSets

CONSTANTS
  Keys,            \* C strings used as keys
  Values,          \* byte strings used as values
  ValLen,          \* strlen of every value
  Blocks,          \* the addresses malloc may return for a MEMORY_INFO
  NULL,
  Zero,            \* what an rndv_buffer holds after memset(..., '\0', ...)
  MIN_POOL_NODES,  \* kv_shared.h; 10 in the code
  INT_MAX          \* bound on pool_size, an int

ASSUME ServerAssumption ==
  /\ NULL \notin Keys \cup Values \cup Blocks
  /\ Zero \notin Values \cup {NULL}
  /\ ValLen \in [Values -> Nat]
  /\ MIN_POOL_NODES \in Nat /\ MIN_POOL_NODES >= 2
  /\ INT_MAX \in Nat /\ INT_MAX > MIN_POOL_NODES

VARIABLES
  entries,                \* keys that have a KV_ENTRY
  value,                  \* KV_ENTRY.value: the small value, or NULL
  val_len,                \* KV_ENTRY.val_len
  large_val_mem_info,     \* KV_ENTRY.large_val_mem_info: a block, or NULL
  next_mem,               \* MEMORY_INFO.next_mem
  rndv_buffer,            \* MEMORY_INFO.rndv_buffer: last string written
  registered,             \* blocks allocated and registered as an MR
  mem_pool_head,
  mem_pool_tail,
  tainted_mem_pool_head,
  tainted_mem_pool_tail,
  pool_size,
  srv,                    \* where the server's loop is
  ctx_buf,                \* request received and not handled yet, or NULL
  reply                   \* response sent and not received yet, or NULL

entryVars == <<entries, value, val_len, large_val_mem_info>>
poolVars == <<mem_pool_head, mem_pool_tail, pool_size>>
taintVars == <<tainted_mem_pool_head, tainted_mem_pool_tail>>
serverVars == <<entryVars, next_mem, rndv_buffer, registered, poolVars,
                taintVars, srv, ctx_buf, reply>>

(***************************************************************************)
(* Packets                                                                 *)
(***************************************************************************)
EagerGetRequest == [type : {"EAGER_GET_REQUEST"}, key : Keys]
EagerSetRequest == [type : {"EAGER_SET_REQUEST"}, key : Keys, value : Values]
RndvSetRequest ==
  [type : {"RENDEZVOUS_SET_REQUEST"}, key : Keys, value_length : Nat]
CloseConnection == [type : {"CLOSE_CONNECTION"}]

EagerGetResponse == [type : {"EAGER_GET_RESPONSE"}, value : Values]
\* The response for an absent key: sizeof(response_packet) + 1 bytes of it
\* are sent, which ends inside value_length.
ShortGetResponse == [type : {"EAGER_GET_RESPONSE_SHORT"}]
RndvGetResponse ==
  [type : {"RENDEZVOUS_GET_RESPONSE"}, value_length : Nat, server_ptr : Blocks]
RndvSetResponse == [type : {"RENDEZVOUS_SET_RESPONSE"}, server_ptr : Blocks]

Requests ==
  EagerGetRequest \cup EagerSetRequest \cup RndvSetRequest \cup CloseConnection
Responses ==
  EagerGetResponse \cup ShortGetResponse \cup RndvGetResponse \cup RndvSetResponse

\* "maintain" is the loop of maintain_pool, "poll" the wait for a completion.
\* "crashed" is a NULL pointer dereferenced, "failed" the return after a
\* registration error, "closed" the return after CLOSE_CONNECTION.
ServerStates == {"maintain", "poll", "crashed", "failed", "closed"}

TypeOK ==
  /\ entries \in SUBSET Keys
  /\ value \in [Keys -> Values \cup {NULL}]
  /\ val_len \in [Keys -> Nat]
  /\ large_val_mem_info \in [Keys -> Blocks \cup {NULL}]
  /\ next_mem \in [Blocks -> Blocks \cup {NULL}]
  /\ rndv_buffer \in [Blocks -> Values \cup {Zero}]
  /\ registered \in SUBSET Blocks
  /\ mem_pool_head \in Blocks \cup {NULL}
  /\ mem_pool_tail \in Blocks \cup {NULL}
  /\ tainted_mem_pool_head \in Blocks \cup {NULL}
  /\ tainted_mem_pool_tail \in Blocks \cup {NULL}
  /\ pool_size \in Nat
  /\ srv \in ServerStates
  /\ ctx_buf \in Requests \cup {NULL}
  /\ reply \in Responses \cup {NULL}

\* run_server has connected and is about to call maintain_pool for the first
\* time; every pointer is NULL.
ServerInit ==
  /\ entries = {}
  /\ value = [k \in Keys |-> NULL]
  /\ val_len = [k \in Keys |-> 0]
  /\ large_val_mem_info = [k \in Keys |-> NULL]
  /\ next_mem = [b \in Blocks |-> NULL]
  /\ rndv_buffer = [b \in Blocks |-> Zero]
  /\ registered = {}
  /\ mem_pool_head = NULL
  /\ mem_pool_tail = NULL
  /\ tainted_mem_pool_head = NULL
  /\ tainted_mem_pool_tail = NULL
  /\ pool_size = 0
  /\ srv = "maintain"
  /\ ctx_buf = NULL
  /\ reply = NULL

(***************************************************************************)
(* maintain_pool, one loop iteration per step.                             *)
(* A definition whose name starts with Bug is a plausible slip in the code *)
(* of the definition after it.  No specification uses it; the mutation     *)
(* runs put it in that definition's place.                                 *)
(***************************************************************************)

\* The memset is forgotten.
BugNotCleared(b) == UNCHANGED rndv_buffer

ClearBuffer(b) == rndv_buffer' = [rndv_buffer EXCEPT ![b] = Zero]

\* ibv_reg_mr comes before mem_pool_tail is advanced.
BugRegisterOldTail(b) ==
  registered' =
    registered \cup {IF mem_pool_tail = NULL THEN b ELSE mem_pool_tail}

RegisterMr(b) == registered' = registered \cup {b}

\* First loop: the block at the head of the tainted list goes behind
\* mem_pool_tail.  mem_pool_tail itself stays where it is, and the next
\* tainted block is read from the link as it is after the assignment.
ReclaimTainted ==
  LET b == tainted_mem_pool_head IN
  /\ srv = "maintain"
  /\ b # NULL
  /\ pool_size < INT_MAX
  /\ ClearBuffer(b)
  /\ IF mem_pool_tail # NULL
     THEN /\ next_mem' = [next_mem EXCEPT ![mem_pool_tail] = b]
          /\ UNCHANGED <<mem_pool_head, mem_pool_tail>>
     ELSE /\ mem_pool_head' = b
          /\ mem_pool_tail' = b
          /\ UNCHANGED next_mem
  /\ pool_size' = pool_size + 1
  /\ tainted_mem_pool_head' = next_mem'[b]
  /\ UNCHANGED <<entryVars, registered, tainted_mem_pool_tail, srv, ctx_buf,
                 reply>>

\* A fresh MEMORY_INFO b becomes the new mem_pool_tail.
LinkNewNode(b) ==
  /\ IF pool_size = 0
     THEN /\ mem_pool_head' = b
          /\ next_mem' = [next_mem EXCEPT ![b] = NULL]
     ELSE /\ next_mem' = [next_mem EXCEPT ![mem_pool_tail] = b, ![b] = NULL]
          /\ UNCHANGED mem_pool_head
  /\ mem_pool_tail' = b
  /\ ClearBuffer(b)
  /\ UNCHANGED <<entryVars, taintVars, ctx_buf, reply>>

\* Second loop: the pool is filled up to MIN_POOL_NODES as pool_size counts.
RefillPool ==
  /\ srv = "maintain"
  /\ tainted_mem_pool_head = NULL
  /\ pool_size < MIN_POOL_NODES
  /\ \E b \in Blocks \ registered : LinkNewNode(b) /\ RegisterMr(b)
  /\ pool_size' = pool_size + 1
  /\ UNCHANGED srv

\* ibv_reg_mr returns NULL: maintain_pool returns 1, the server stops without
\* clear_server_data.
RegisterFails ==
  /\ srv = "maintain"
  /\ tainted_mem_pool_head = NULL
  /\ pool_size < MIN_POOL_NODES
  /\ \E b \in Blocks \ registered : LinkNewNode(b)
  /\ srv' = "failed"
  /\ UNCHANGED <<registered, pool_size>>

MaintainDone ==
  /\ srv = "maintain"
  /\ tainted_mem_pool_head = NULL
  /\ pool_size >= MIN_POOL_NODES
  /\ srv' = "poll"
  /\ UNCHANGED <<entryVars, next_mem, rndv_buffer, registered, poolVars,
                 taintVars, ctx_buf, reply>>

(***************************************************************************)
(* handle_server_packets_only, called by pp_wait_completions for every     *)
(* receive completion.  The handler answers, the receive buffer is posted  *)
(* again (ctx_buf' = NULL), and maintain_pool runs.                        *)
(***************************************************************************)

\* The switch has no case for CLOSE_CONNECTION.
BugCloseIgnored(type) ==
  /\ srv = "poll" /\ ctx_buf # NULL /\ ctx_buf.type = type
  /\ type # "CLOSE_CONNECTION"

Handling(type) == srv = "poll" /\ ctx_buf # NULL /\ ctx_buf.type = type

HandlerReturns == srv' = "maintain" /\ ctx_buf' = NULL

\* Small values are looked for in the block as well.
BugAllLarge(k) ==
  IF k \notin entries THEN [type |-> "EAGER_GET_RESPONSE_SHORT"]
  ELSE [type |-> "RENDEZVOUS_GET_RESPONSE", value_length |-> val_len[k],
        server_ptr |-> large_val_mem_info[k]]

GetResponse(k) ==
  IF k \notin entries THEN [type |-> "EAGER_GET_RESPONSE_SHORT"]
  ELSE IF value[k] # NULL
  THEN [type |-> "EAGER_GET_RESPONSE", value |-> value[k]]
  ELSE [type |-> "RENDEZVOUS_GET_RESPONSE", value_length |-> val_len[k],
        server_ptr |-> large_val_mem_info[k]]

HandleEagerGet ==
  /\ Handling("EAGER_GET_REQUEST")
  /\ reply' = GetResponse(ctx_buf.key)
  /\ HandlerReturns
  /\ UNCHANGED <<entryVars, next_mem, rndv_buffer, registered, poolVars,
                 taintVars>>

\* The block of an entry that turns small is queued for maintain_pool.
Taint(b) ==
  /\ IF tainted_mem_pool_head = NULL
     THEN tainted_mem_pool_head' = b /\ UNCHANGED next_mem
     ELSE /\ next_mem' = [next_mem EXCEPT ![tainted_mem_pool_tail] = b]
          /\ UNCHANGED tainted_mem_pool_head
  /\ tainted_mem_pool_tail' = b

StoreSmall(k, v) ==
  /\ entries' = entries \cup {k}
  /\ value' = [value EXCEPT ![k] = v]
  /\ val_len' = [val_len EXCEPT ![k] = ValLen[v]]
  /\ large_val_mem_info' = [large_val_mem_info EXCEPT ![k] = NULL]

HandleEagerSet ==
  LET k == ctx_buf.key IN
  /\ Handling("EAGER_SET_REQUEST")
  /\ StoreSmall(k, ctx_buf.value)
  /\ IF k \in entries /\ value[k] = NULL
     THEN Taint(large_val_mem_info[k])
     ELSE UNCHANGED <<taintVars, next_mem>>
  /\ HandlerReturns
  /\ UNCHANGED <<rndv_buffer, registered, poolVars, reply>>

NeedsBlock(k) == k \notin entries \/ large_val_mem_info[k] = NULL

\* mem_pool_head is not advanced.
BugHeadKept(k) ==
  /\ large_val_mem_info' = [large_val_mem_info EXCEPT ![k] = mem_pool_head]
  /\ next_mem' = [next_mem EXCEPT ![mem_pool_head] = NULL]
  /\ pool_size' = pool_size - 1
  /\ UNCHANGED mem_pool_head

\* The block keeps its link into the pool.
BugLinkKept(k) ==
  /\ large_val_mem_info' = [large_val_mem_info EXCEPT ![k] = mem_pool_head]
  /\ mem_pool_head' = next_mem[mem_pool_head]
  /\ pool_size' = pool_size - 1
  /\ UNCHANGED next_mem

\* Key k takes the block at the head of the pool.
TakeBlock(k) ==
  /\ large_val_mem_info' = [large_val_mem_info EXCEPT ![k] = mem_pool_head]
  /\ mem_pool_head' = next_mem[mem_pool_head]
  /\ next_mem' = [next_mem EXCEPT ![mem_pool_head] = NULL]
  /\ pool_size' = pool_size - 1

HandleRndvSet ==
  LET k == ctx_buf.key IN
  /\ Handling("RENDEZVOUS_SET_REQUEST")
  /\ NeedsBlock(k) => mem_pool_head # NULL
  /\ entries' = entries \cup {k}
  /\ value' = [value EXCEPT ![k] = NULL]
  /\ val_len' = [val_len EXCEPT ![k] = ctx_buf.value_length]
  /\ IF NeedsBlock(k)
     THEN TakeBlock(k)
     ELSE UNCHANGED <<large_val_mem_info, mem_pool_head, next_mem, pool_size>>
  /\ reply' = [type |-> "RENDEZVOUS_SET_RESPONSE",
               server_ptr |-> large_val_mem_info'[k]]
  /\ HandlerReturns
  /\ UNCHANGED <<rndv_buffer, registered, mem_pool_tail, taintVars>>

\* mem_pool_head->next_mem with mem_pool_head = NULL.
RndvSetCrashes ==
  /\ Handling("RENDEZVOUS_SET_REQUEST")
  /\ NeedsBlock(ctx_buf.key)
  /\ mem_pool_head = NULL
  /\ srv' = "crashed"
  /\ UNCHANGED <<entryVars, next_mem, rndv_buffer, registered, poolVars,
                 taintVars, ctx_buf, reply>>

\* The blocks met on the way from b through next_mem.
Reachable(b) ==
  LET walk[n \in 0 .. Cardinality(Blocks)] ==
        IF n = 0 THEN b
        ELSE IF walk[n - 1] = NULL THEN NULL ELSE next_mem[walk[n - 1]]
  IN {walk[n] : n \in 0 .. Cardinality(Blocks)} \ {NULL}

Owned == {large_val_mem_info[k] : k \in Keys} \ {NULL}

\* CLOSE_CONNECTION: clear_server_data deregisters and frees what it reaches,
\* pp_wait_completions returns -1 and run_server ends.
HandleClose ==
  /\ Handling("CLOSE_CONNECTION")
  /\ registered' = registered \ (Reachable(mem_pool_head)
                                 \cup Reachable(tainted_mem_pool_head)
                                 \cup Owned)
  /\ entries' = {}
  /\ value' = [k \in Keys |-> NULL]
  /\ large_val_mem_info' = [k \in Keys |-> NULL]
  /\ mem_pool_head' = NULL
  /\ tainted_mem_pool_head' = NULL
  /\ srv' = "closed"
  /\ ctx_buf' = NULL
  /\ UNCHANGED <<val_len, next_mem, rndv_buffer, mem_pool_tail, pool_size,
                 tainted_mem_pool_tail, reply>>

ServerStep ==
  \/ ReclaimTainted
  \/ RefillPool
  \/ RegisterFails
  \/ MaintainDone
  \/ HandleEagerGet
  \/ HandleEagerSet
  \/ HandleRndvSet
  \/ RndvSetCrashes
  \/ HandleClose

(***************************************************************************)
(* The peer: one request at a time, the next one only after the response;  *)
(* RDMA writes only into a block some entry owns.                          *)
(***************************************************************************)
notCtxBuf == <<entryVars, next_mem, rndv_buffer, registered, poolVars,
               taintVars, srv, reply>>
notReply == <<entryVars, next_mem, rndv_buffer, registered, poolVars,
              taintVars, srv, ctx_buf>>
notBuffer == <<entryVars, next_mem, registered, poolVars, taintVars, srv,
               ctx_buf, reply>>

\* Two receives share the buffer: a request lands on one not handled yet.
BugTwoReceives(pkt) ==
  /\ srv \in {"poll", "maintain"}
  /\ ctx_buf' = pkt

\* The network adapter places a request in the posted receive buffer.
Receive(pkt) ==
  /\ srv \in {"poll", "maintain"}
  /\ ctx_buf = NULL
  /\ ctx_buf' = pkt

PeerRequests(pkt) == reply = NULL /\ Receive(pkt) /\ UNCHANGED notCtxBuf

PeerTakesReply == reply # NULL /\ reply' = NULL /\ UNCHANGED notReply

\* IBV_WR_RDMA_WRITE of value v into block b.
RdmaWrite(b, v) ==
  /\ b \in registered
  /\ rndv_buffer' = [rndv_buffer EXCEPT ![b] = v]

PeerWrites(b, v) ==
  /\ srv \in {"poll", "maintain"}
  /\ b \in Owned
  /\ RdmaWrite(b, v)
  /\ UNCHANGED notBuffer

\* The requests of a client: value_length counts the terminating NUL.
ClientRequests ==
  EagerGetRequest \cup EagerSetRequest \cup CloseConnection
  \cup {[type |-> "RENDEZVOUS_SET_REQUEST", key |-> k,
         value_length |-> ValLen[v] + 1] : k \in Keys, v \in Values}

ServerNext ==
  \/ ServerStep
  \/ \E pkt \in ClientRequests : PeerRequests(pkt)
  \/ PeerTakesReply
  \/ \E b \in Blocks, v \in Values : PeerWrites(b, v)

ServerSpec == ServerInit /\ [][ServerNext]_serverVars

(***************************************************************************)
(* Properties                                                              *)
(***************************************************************************)

\* A MEMORY_INFO is owned by at most one entry, and the block the pool will
\* hand out next is owned by none: handle_server_packets_only never gives two
\* keys the same RDMA target, however far pool_size and mem_pool_tail have
\* drifted from the list.
NoSharedBlock ==
  /\ \A k1, k2 \in Keys :
       /\ large_val_mem_info[k1] # NULL
       /\ large_val_mem_info[k1] = large_val_mem_info[k2]
       => k1 = k2
  /\ mem_pool_head \notin Owned

\* The block handed out next has been cleared since its last owner gave it
\* up, so a new key never shows bytes of another one (memset in maintain_pool).
FreshBlockCleared ==
  srv = "poll" /\ mem_pool_head # NULL => rndv_buffer[mem_pool_head] = Zero

\* Every block an entry or an answer points to is still registered: RDMA to
\* an address the server gave out never hits a deregistered region.
AddressesRegistered ==
  srv \in {"poll", "maintain"} =>
    /\ Owned \subseteq registered
    /\ reply # NULL /\ reply.type \in {"RENDEZVOUS_GET_RESPONSE",
                                      "RENDEZVOUS_SET_RESPONSE"}
       => reply.server_ptr \in registered

\* A set F of free blocks as the pool's code really keeps it: closed under
\* next_mem, every link has one source, nothing in F is owned or queued, every
\* byte is cleared, and no block outside F points into it.  F also holds
\* blocks lost behind a mem_pool_tail that was not advanced.
FreeSet(F) ==
  /\ mem_pool_head \in F \cup {NULL}
  /\ \A b \in F : /\ next_mem[b] \in F \cup {NULL}
                  /\ next_mem[b] = mem_pool_head => mem_pool_head = NULL
                  /\ rndv_buffer[b] = Zero
  /\ \A b, c \in F : next_mem[b] = next_mem[c] => b = c \/ next_mem[b] = NULL
  /\ F \cap Owned = {}
  /\ tainted_mem_pool_head \notin F
  /\ \A b \in registered \ F :
       next_mem[b] = NULL \/ next_mem[b] \in registered \ (F \cup Owned)
  /\ mem_pool_tail \in F => \A b \in registered \ F : next_mem[b] = NULL

\* Taking the head of the pool, queueing an entry's block and appending behind
\* mem_pool_tail, even a mem_pool_tail that has long been handed out, keep the
\* free blocks apart from the owned ones; and whenever the server waits for a
\* request, pool_size says there is something to hand out.
PoolShape ==
  srv \in {"poll", "maintain"} =>
    /\ \E F \in SUBSET registered : FreeSet(F)
    /\ tainted_mem_pool_head \in (registered \ Owned) \cup {NULL}
    /\ IF mem_pool_tail = NULL THEN registered = {}
       ELSE mem_pool_tail \in registered /\ pool_size >= 1
    /\ srv = "poll" => tainted_mem_pool_head = NULL /\ pool_size >= MIN_POOL_NODES

(***************************************************************************)
(* What the code does not do: README, "Known divergences"                  *)
(***************************************************************************)

\* clear_server_data leaves no memory region registered when it returns
\* ("deregister mr of structs"); pp_close_ctx needs that to release the PD.
AllDeregistered == srv = "closed" => registered = {}
=============================================================================
