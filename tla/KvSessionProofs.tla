-------------------------- MODULE KvSessionProofs --------------------------
(***************************************************************************)
(* Proofs about a session, for any keys, values, blocks and pool, in three *)
(* parts: what holds of the server with any client, what holds of a client *)
(* and its server, and that the two implement KvStore.                     *)
(***************************************************************************)
EXTENDS KvSession, TLAPS

(***************************************************************************)
(* Part one: the server.  No invariant of the server is inductive alone:   *)
(* that two keys never share a block needs to know where the links of the  *)
(* free blocks can lead (PoolShape), and PoolShape needs to know that an   *)
(* entry without a small value has a block (OneHome).  IndInv is their     *)
(* conjunction, proved action by action.                                   *)
(***************************************************************************)

\* An entry holds its value in exactly one place: EAGER_GET_REQUEST takes
\* value = NULL for "the value is in large_val_mem_info" and dereferences it.
OneHome ==
  \A k \in Keys :
    IF k \in entries
    THEN (value[k] = NULL) <=> (large_val_mem_info[k] # NULL)
    ELSE value[k] = NULL /\ large_val_mem_info[k] = NULL

IndInv ==
  /\ TypeOK
  /\ OneHome
  /\ NoSharedBlock
  /\ PoolShape
  /\ AddressesRegistered

(***************************************************************************)
(* Packets                                                                 *)
(***************************************************************************)

\* A request of a given type has the fields of that type.
LEMMA RequestFields ==
  ASSUME ctx_buf \in Requests \cup {NULL}, ctx_buf # NULL
  PROVE  /\ ctx_buf.type = "EAGER_GET_REQUEST" => ctx_buf.key \in Keys
         /\ ctx_buf.type = "EAGER_SET_REQUEST" =>
              ctx_buf.key \in Keys /\ ctx_buf.value \in Values
         /\ ctx_buf.type = "RENDEZVOUS_SET_REQUEST" =>
              ctx_buf.key \in Keys /\ ctx_buf.value_length \in Nat
BY DEF Requests, EagerGetRequest, EagerSetRequest, RndvSetRequest,
       CloseConnection

\* What a client sends is a request.
LEMMA ClientRequestsType == ClientRequests \subseteq Requests
BY ServerAssumption
DEF ClientRequests, Requests, EagerGetRequest, EagerSetRequest,
    RndvSetRequest, CloseConnection

(***************************************************************************)
(* The initial state                                                       *)
(***************************************************************************)
LEMMA InitIndInv == ServerInit => IndInv
<1> SUFFICES ASSUME ServerInit PROVE IndInv
  OBVIOUS
<1> USE ServerAssumption DEF ServerInit
<1>1. TypeOK
  BY DEF TypeOK, ServerStates
<1>2. OneHome
  BY DEF OneHome
<1>3. Owned = {}
  BY DEF Owned
<1>4. NoSharedBlock
  BY <1>3 DEF NoSharedBlock
<1>5. FreeSet({})
  BY <1>3 DEF FreeSet
<1>6. PoolShape
  BY <1>3, <1>5 DEF PoolShape
<1>7. AddressesRegistered
  BY <1>3 DEF AddressesRegistered
<1> QED
  BY <1>1, <1>2, <1>4, <1>6, <1>7 DEF IndInv

(***************************************************************************)
(* maintain_pool                                                           *)
(***************************************************************************)

\* A block b that nothing points to, put behind a mem_pool_tail that is still
\* free, joins the free blocks.
LEMMA AppendToFree ==
  ASSUME NEW F, NEW b \in Blocks, TypeOK,
         F \subseteq registered, FreeSet(F), mem_pool_tail \in F,
         b \notin F, b \notin Owned,
         next_mem' = [next_mem EXCEPT ![mem_pool_tail] = b, ![b] = NULL],
         rndv_buffer' = [rndv_buffer EXCEPT ![b] = Zero],
         registered' = registered \cup {b},
         mem_pool_tail' \in {mem_pool_tail, b},
         tainted_mem_pool_head' = NULL,
         UNCHANGED <<large_val_mem_info, mem_pool_head>>
  PROVE  FreeSet(F \cup {b})'
<1> USE ServerAssumption
<1>1. Owned' = Owned
  BY DEF Owned
<1>2. /\ F \subseteq Blocks /\ registered \subseteq Blocks
      /\ next_mem \in [Blocks -> Blocks \cup {NULL}]
      /\ rndv_buffer \in [Blocks -> Values \cup {Zero}]
      /\ NULL \notin Blocks
  BY DEF TypeOK
<1>3. \A c \in Blocks :
        next_mem'[c] = IF c = b THEN NULL
                       ELSE IF c = mem_pool_tail THEN b ELSE next_mem[c]
  BY <1>2
<1>5. mem_pool_head \in F \cup {b} \cup {NULL}
  BY DEF FreeSet
<1>6. ASSUME NEW c \in F \cup {b}
      PROVE  /\ next_mem'[c] \in F \cup {b} \cup {NULL}
             /\ next_mem'[c] = mem_pool_head => mem_pool_head = NULL
             /\ rndv_buffer'[c] = Zero
  BY <1>2, <1>3 DEF FreeSet
<1>7. ASSUME NEW c \in F \cup {b}, NEW d \in F \cup {b},
             next_mem'[c] = next_mem'[d]
      PROVE  c = d \/ next_mem'[c] = NULL
  BY <1>2, <1>3, <1>7 DEF FreeSet
<1>8. (F \cup {b}) \cap Owned' = {}
  BY <1>1 DEF FreeSet
<1>9. \A c \in registered' \ (F \cup {b}) : next_mem'[c] = NULL
  BY <1>2, <1>3 DEF FreeSet
<1>10. tainted_mem_pool_head' \notin F \cup {b}
  BY <1>2
<1> QED
  BY <1>1, <1>5, <1>6, <1>7, <1>8, <1>9, <1>10 DEF FreeSet

LEMMA ReclaimTaintedInv == IndInv /\ ReclaimTainted => IndInv'
<1> SUFFICES ASSUME IndInv, ReclaimTainted PROVE IndInv'
  OBVIOUS
<1> USE ServerAssumption
<1>0. PICK b \in Blocks : b = tainted_mem_pool_head
  BY DEF IndInv, TypeOK, ReclaimTainted
<1>1. TypeOK /\ srv = "maintain" /\ b \in registered \ Owned
  BY <1>0 DEF IndInv, PoolShape, ReclaimTainted
<1>2. mem_pool_tail \in registered /\ mem_pool_tail \in Blocks /\ pool_size >= 1
  BY <1>1 DEF IndInv, TypeOK, PoolShape
<1>3. /\ next_mem' = [next_mem EXCEPT ![mem_pool_tail] = b]
      /\ tainted_mem_pool_head' = next_mem'[b]
      /\ rndv_buffer' = [rndv_buffer EXCEPT ![b] = Zero]
      /\ pool_size' = pool_size + 1
      /\ UNCHANGED <<entryVars, mem_pool_head, mem_pool_tail, registered,
                     tainted_mem_pool_tail, srv, ctx_buf, reply>>
  BY <1>0, <1>1, <1>2 DEF ReclaimTainted, ClearBuffer
<1>4. Owned' = Owned
  BY <1>3 DEF Owned, entryVars
<1>5. TypeOK'
  BY <1>1, <1>2, <1>3 DEF TypeOK, entryVars
<1>6. OneHome'
  BY <1>3 DEF IndInv, OneHome, entryVars
<1>7. NoSharedBlock'
  BY <1>3, <1>4 DEF IndInv, NoSharedBlock, entryVars
<1>8. AddressesRegistered'
  BY <1>3, <1>4 DEF IndInv, AddressesRegistered
<1>9. PICK F \in SUBSET registered : FreeSet(F)
  BY <1>1 DEF IndInv, PoolShape
<1>10. b \notin F
  BY <1>0, <1>9 DEF FreeSet
<1>11. \A c \in Blocks : next_mem'[c] = IF c = mem_pool_tail THEN b ELSE next_mem[c]
  BY <1>1, <1>3 DEF TypeOK
<1>12. CASE mem_pool_tail \in F
  <2>1. next_mem[b] = NULL
    BY <1>1, <1>9, <1>10, <1>12 DEF FreeSet
  <2>2. tainted_mem_pool_head' = NULL
    BY <1>1, <1>3, <1>10, <1>11, <1>12, <2>1
  <2>3. next_mem' = [next_mem EXCEPT ![mem_pool_tail] = b, ![b] = NULL]
    BY <1>1, <1>3, <1>10, <1>12, <2>1 DEF TypeOK
  <2>4. /\ registered' = registered \cup {b}
        /\ mem_pool_tail' \in {mem_pool_tail, b}
        /\ UNCHANGED <<large_val_mem_info, mem_pool_head>>
    BY <1>1, <1>3 DEF entryVars
  <2>5. FreeSet(F \cup {b})'
    BY <1>1, <1>3, <1>9, <1>10, <1>12, <2>1, <2>2, <2>3, <2>4, AppendToFree
  <2>6. F \cup {b} \in SUBSET registered'
    BY <1>1, <1>9, <2>4
  <2>7. /\ tainted_mem_pool_head' = NULL
        /\ mem_pool_tail' # NULL /\ mem_pool_tail' \in registered'
        /\ pool_size' >= 1 /\ srv' = "maintain"
    BY <1>1, <1>2, <1>3, <2>2 DEF TypeOK
  <2>8. PoolShape'
    BY <2>5, <2>6, <2>7 DEF PoolShape
  <2> QED
    BY <1>5, <1>6, <1>7, <1>8, <2>8 DEF IndInv
<1>13. CASE mem_pool_tail \notin F
  <2>1. \A c \in F : next_mem'[c] = next_mem[c] /\ rndv_buffer'[c] = rndv_buffer[c]
    BY <1>1, <1>3, <1>9, <1>10, <1>11, <1>13 DEF TypeOK
  <2>2. \A c \in registered \ F :
          next_mem'[c] = NULL \/ next_mem'[c] \in registered \ (F \cup Owned)
    BY <1>1, <1>9, <1>10, <1>11 DEF FreeSet, TypeOK
  <2>3. tainted_mem_pool_head' \in (registered \ (F \cup Owned)) \cup {NULL}
    BY <1>1, <1>3, <1>10, <2>2
  <2>4. FreeSet(F)'
    BY <1>1, <1>3, <1>4, <1>9, <1>13, <2>1, <2>2, <2>3 DEF FreeSet, TypeOK
  <2>5. PoolShape'
    BY <1>1, <1>2, <1>3, <1>4, <1>9, <2>3, <2>4 DEF PoolShape, TypeOK
  <2> QED
    BY <1>5, <1>6, <1>7, <1>8, <2>5 DEF IndInv
<1> QED
  BY <1>12, <1>13

\* What a fresh node leaves alone, whether or not its registration succeeds.
LEMMA LinkNewNodeKeeps ==
  ASSUME IndInv, NEW b \in Blocks \ registered, LinkNewNode(b), srv = "maintain"
  PROVE  /\ Owned' = Owned
         /\ OneHome' /\ NoSharedBlock'
         /\ next_mem' \in [Blocks -> Blocks \cup {NULL}]
         /\ rndv_buffer' = [rndv_buffer EXCEPT ![b] = Zero]
         /\ mem_pool_head' \in {mem_pool_head, b}
         /\ mem_pool_tail' = b
         /\ UNCHANGED <<entryVars, taintVars, ctx_buf, reply>>
<1> USE ServerAssumption
<1>1. /\ UNCHANGED <<entryVars, taintVars, ctx_buf, reply>>
      /\ rndv_buffer' = [rndv_buffer EXCEPT ![b] = Zero]
      /\ mem_pool_head' \in {mem_pool_head, b}
      /\ mem_pool_tail' = b
  BY DEF LinkNewNode, ClearBuffer
<1>2. Owned' = Owned
  BY <1>1 DEF Owned, entryVars
<1>3. OneHome'
  BY <1>1 DEF IndInv, OneHome, entryVars
<1>4. b \notin Owned
  BY DEF IndInv, AddressesRegistered
<1>5. NoSharedBlock'
  BY <1>1, <1>2, <1>4 DEF IndInv, NoSharedBlock, entryVars
<1>6. next_mem' \in [Blocks -> Blocks \cup {NULL}]
  BY DEF IndInv, TypeOK, LinkNewNode
<1> QED
  BY <1>1, <1>2, <1>3, <1>5, <1>6

LEMMA RefillPoolInv == IndInv /\ RefillPool => IndInv'
<1> SUFFICES ASSUME IndInv, RefillPool PROVE IndInv'
  OBVIOUS
<1> USE ServerAssumption
<1>1. PICK b \in Blocks \ registered :
        LinkNewNode(b) /\ registered' = registered \cup {b}
  BY DEF RefillPool, RegisterMr
<1>2. /\ srv = "maintain" /\ srv' = "maintain"
      /\ tainted_mem_pool_head = NULL /\ pool_size' = pool_size + 1
      /\ TypeOK
  BY DEF RefillPool, IndInv
<1>3. /\ Owned' = Owned
      /\ OneHome' /\ NoSharedBlock'
      /\ next_mem' \in [Blocks -> Blocks \cup {NULL}]
      /\ rndv_buffer' = [rndv_buffer EXCEPT ![b] = Zero]
      /\ mem_pool_head' \in {mem_pool_head, b}
      /\ mem_pool_tail' = b
      /\ UNCHANGED <<entryVars, taintVars, ctx_buf, reply>>
  BY <1>1, <1>2, LinkNewNodeKeeps
<1>4. TypeOK'
  BY <1>1, <1>2, <1>3 DEF TypeOK, entryVars, taintVars
<1>5. AddressesRegistered'
  BY <1>1, <1>2, <1>3 DEF IndInv, AddressesRegistered
<1>6. PICK F \in SUBSET registered : FreeSet(F)
  BY <1>2 DEF IndInv, PoolShape
<1>7. /\ F \subseteq Blocks /\ registered \subseteq Blocks /\ b \notin F
      /\ b \notin Owned /\ pool_size \in Nat
  BY <1>1, <1>2, <1>6 DEF IndInv, AddressesRegistered, TypeOK
<1>8. \E G \in SUBSET registered' : FreeSet(G)'
  <2>1. CASE pool_size = 0
    <3>1. registered = {} /\ F = {}
      BY <1>2, <1>6, <2>1 DEF IndInv, PoolShape
    <3>2. mem_pool_head' = b /\ next_mem'[b] = NULL /\ rndv_buffer'[b] = Zero
      BY <1>1, <1>2, <1>3, <2>1 DEF LinkNewNode, TypeOK
    <3>3. FreeSet({b})'
      BY <1>1, <1>2, <1>3, <1>7, <3>1, <3>2 DEF FreeSet, taintVars
    <3> QED
      BY <1>1, <3>3
  <2>2. CASE pool_size # 0
    <3>1. /\ next_mem' = [next_mem EXCEPT ![mem_pool_tail] = b, ![b] = NULL]
          /\ mem_pool_head' = mem_pool_head
      BY <1>1, <2>2 DEF LinkNewNode
    <3>2. \A c \in Blocks :
            next_mem'[c] = IF c = b THEN NULL
                           ELSE IF c = mem_pool_tail THEN b ELSE next_mem[c]
      BY <1>2, <3>1 DEF TypeOK
    <3>3. CASE mem_pool_tail \in F
      \* the old blocks outside F have no links, so b joins F
      <4>1. /\ mem_pool_tail' \in {mem_pool_tail, b}
            /\ tainted_mem_pool_head' = NULL
            /\ UNCHANGED <<large_val_mem_info, mem_pool_head>>
        BY <1>2, <1>3, <3>1 DEF entryVars, taintVars
      <4>2. FreeSet(F \cup {b})'
        BY <1>1, <1>2, <1>3, <1>6, <1>7, <3>1, <3>3, <4>1, AppendToFree
      <4> QED
        BY <1>1, <1>6, <4>2
    <3>4. CASE mem_pool_tail \notin F
      \* b hangs behind a block that is not free: it is out of reach
      <4>1. \A c \in F : next_mem'[c] = next_mem[c] /\ rndv_buffer'[c] = rndv_buffer[c]
        BY <1>2, <1>3, <1>7, <3>2, <3>4 DEF TypeOK
      <4>2. \A c \in registered' \ F :
              \/ next_mem'[c] = NULL
              \/ next_mem'[c] \in registered' \ (F \cup Owned')
        BY <1>1, <1>3, <1>6, <1>7, <3>2 DEF FreeSet
      <4>3. mem_pool_tail' \notin F /\ tainted_mem_pool_head' \notin F
        BY <1>2, <1>3, <1>7 DEF taintVars
      <4>4. Owned' = Owned /\ mem_pool_head' = mem_pool_head
        BY <1>3, <3>1
      <4>5. /\ \A c \in F : next_mem'[c] \in F \cup {NULL}
            /\ \A c \in F : next_mem'[c] = mem_pool_head => mem_pool_head = NULL
            /\ \A c \in F : rndv_buffer'[c] = Zero
            /\ \A c, d \in F :
                 next_mem'[c] = next_mem'[d] => c = d \/ next_mem'[c] = NULL
            /\ mem_pool_head \in F \cup {NULL}
            /\ F \cap Owned = {}
        BY <1>6, <4>1 DEF FreeSet
      <4>6. FreeSet(F)'
        BY <4>2, <4>3, <4>4, <4>5 DEF FreeSet
      <4> QED
        BY <1>1, <1>6, <4>6
    <3> QED
      BY <3>3, <3>4
  <2> QED
    BY <2>1, <2>2
<1>9. /\ mem_pool_tail' # NULL /\ mem_pool_tail' \in registered'
      /\ pool_size' >= 1 /\ tainted_mem_pool_head' = NULL
  BY <1>1, <1>2, <1>3, <1>7 DEF taintVars
<1>10. PoolShape'
  BY <1>2, <1>8, <1>9 DEF PoolShape
<1> QED
  BY <1>3, <1>4, <1>5, <1>10 DEF IndInv

\* The server has stopped: only what is said in every state remains.
LEMMA RegisterFailsInv == IndInv /\ RegisterFails => IndInv'
<1> SUFFICES ASSUME IndInv, RegisterFails PROVE IndInv'
  OBVIOUS
<1>1. PICK b \in Blocks \ registered : LinkNewNode(b)
  BY DEF RegisterFails
<1>2. srv = "maintain" /\ srv' = "failed" /\ UNCHANGED <<registered, pool_size>>
  BY DEF RegisterFails
<1>3. /\ OneHome' /\ NoSharedBlock'
      /\ next_mem' \in [Blocks -> Blocks \cup {NULL}]
      /\ rndv_buffer' = [rndv_buffer EXCEPT ![b] = Zero]
      /\ mem_pool_head' \in {mem_pool_head, b}
      /\ mem_pool_tail' = b
      /\ UNCHANGED <<entryVars, taintVars, ctx_buf, reply>>
  BY <1>1, <1>2, LinkNewNodeKeeps
<1>4. TypeOK'
  BY <1>1, <1>2, <1>3
     DEF IndInv, TypeOK, ServerStates, entryVars, taintVars
<1> QED
  BY <1>2, <1>3, <1>4 DEF IndInv, PoolShape, AddressesRegistered

LEMMA MaintainDoneInv == IndInv /\ MaintainDone => IndInv'
<1> SUFFICES ASSUME IndInv, MaintainDone PROVE IndInv'
  OBVIOUS
<1>1. /\ srv = "maintain" /\ srv' = "poll"
      /\ tainted_mem_pool_head = NULL /\ pool_size >= MIN_POOL_NODES
      /\ UNCHANGED <<entryVars, next_mem, rndv_buffer, registered, poolVars,
                     taintVars, ctx_buf, reply>>
  BY DEF MaintainDone
<1> USE DEF entryVars, poolVars, taintVars
<1>2. Owned' = Owned
  BY <1>1 DEF Owned
<1>3. TypeOK'
  BY <1>1 DEF IndInv, TypeOK, ServerStates
<1>4. OneHome' /\ NoSharedBlock' /\ AddressesRegistered'
  BY <1>1, <1>2 DEF IndInv, OneHome, NoSharedBlock, AddressesRegistered
<1>5. \A F : FreeSet(F)' <=> FreeSet(F)
  BY <1>1, <1>2 DEF FreeSet
<1>6. PoolShape'
  BY <1>1, <1>2, <1>5 DEF IndInv, PoolShape
<1> QED
  BY <1>3, <1>4, <1>6 DEF IndInv

(***************************************************************************)
(* handle_server_packets_only                                              *)
(***************************************************************************)

\* The key of a get or set request being handled.
LEMMA HandledKey ==
  ASSUME IndInv, NEW type, Handling(type),
         type \in {"EAGER_GET_REQUEST", "EAGER_SET_REQUEST",
                   "RENDEZVOUS_SET_REQUEST"}
  PROVE  ctx_buf.key \in Keys
BY RequestFields DEF IndInv, TypeOK, Handling

\* An answer to a get names a block only when the entry owns one.
LEMMA GetResponseType ==
  ASSUME TypeOK, OneHome, NEW k \in Keys
  PROVE  /\ GetResponse(k) \in Responses
         /\ GetResponse(k).type = "RENDEZVOUS_GET_RESPONSE" =>
              GetResponse(k).server_ptr \in Owned
         /\ GetResponse(k).type # "RENDEZVOUS_SET_RESPONSE"
<1>1. CASE k \notin entries
  BY <1>1 DEF GetResponse, Responses, ShortGetResponse
<1>2. CASE k \in entries /\ value[k] # NULL
  BY <1>2 DEF GetResponse, Responses, EagerGetResponse, TypeOK
<1>3. CASE k \in entries /\ value[k] = NULL
  <2>1. large_val_mem_info[k] \in Blocks /\ large_val_mem_info[k] \in Owned
    BY <1>3 DEF OneHome, TypeOK, Owned
  <2>2. val_len[k] \in Nat
    BY DEF TypeOK
  <2> QED
    BY <1>3, <2>1, <2>2 DEF GetResponse, Responses, RndvGetResponse
<1> QED
  BY <1>1, <1>2, <1>3

LEMMA EagerGetInv == IndInv /\ HandleEagerGet => IndInv'
<1> SUFFICES ASSUME IndInv, HandleEagerGet PROVE IndInv'
  OBVIOUS
<1> USE DEF entryVars, poolVars, taintVars
<1>1. ctx_buf.key \in Keys /\ srv = "poll"
  BY HandledKey DEF HandleEagerGet, Handling
<1>2. /\ reply' = GetResponse(ctx_buf.key) /\ srv' = "maintain" /\ ctx_buf' = NULL
      /\ UNCHANGED <<entryVars, next_mem, rndv_buffer, registered, poolVars,
                     taintVars>>
  BY DEF HandleEagerGet, HandlerReturns
<1>3. Owned' = Owned
  BY <1>2 DEF Owned
<1>4. /\ GetResponse(ctx_buf.key) \in Responses
      /\ GetResponse(ctx_buf.key).type = "RENDEZVOUS_GET_RESPONSE" =>
           GetResponse(ctx_buf.key).server_ptr \in Owned
      /\ GetResponse(ctx_buf.key).type # "RENDEZVOUS_SET_RESPONSE"
  BY <1>1, GetResponseType DEF IndInv
<1>5. TypeOK'
  BY <1>2, <1>4 DEF IndInv, TypeOK, ServerStates
<1>6. OneHome' /\ NoSharedBlock'
  BY <1>2, <1>3 DEF IndInv, OneHome, NoSharedBlock
<1>7. AddressesRegistered'
  BY <1>1, <1>2, <1>3, <1>4 DEF IndInv, AddressesRegistered
<1>8. \A F : FreeSet(F)' <=> FreeSet(F)
  BY <1>2, <1>3 DEF FreeSet
<1>9. PoolShape'
  BY <1>1, <1>2, <1>3, <1>8 DEF IndInv, PoolShape
<1> QED
  BY <1>5, <1>6, <1>7, <1>9 DEF IndInv

LEMMA EagerSetInv == IndInv /\ HandleEagerSet => IndInv'
<1> SUFFICES ASSUME IndInv, HandleEagerSet PROVE IndInv'
  OBVIOUS
<1> USE ServerAssumption
<1>1. ctx_buf.key \in Keys /\ ctx_buf.value \in Values /\ srv = "poll"
  BY RequestFields DEF HandleEagerSet, Handling, IndInv, TypeOK
<1>2. PICK k \in Keys : k = ctx_buf.key
  BY <1>1
<1>3. /\ entries' = entries \cup {k}
      /\ value' = [value EXCEPT ![k] = ctx_buf.value]
      /\ val_len' = [val_len EXCEPT ![k] = ValLen[ctx_buf.value]]
      /\ large_val_mem_info' = [large_val_mem_info EXCEPT ![k] = NULL]
      /\ srv' = "maintain" /\ ctx_buf' = NULL
      /\ UNCHANGED <<rndv_buffer, registered, mem_pool_head, mem_pool_tail,
                     pool_size, reply>>
  BY <1>2 DEF HandleEagerSet, StoreSmall, HandlerReturns, poolVars
<1>4. TypeOK /\ tainted_mem_pool_head = NULL /\ pool_size >= 1 /\ pool_size \in Nat
  BY <1>1 DEF IndInv, TypeOK, PoolShape
<1>5. Owned' = Owned \ {large_val_mem_info[k]}
  BY <1>3 DEF IndInv, Owned, NoSharedBlock, TypeOK
\* nothing is queued before, so no link changes and at most this key's block
\* is queued
<1>6. /\ next_mem' = next_mem
      /\ tainted_mem_pool_head' \in {NULL, large_val_mem_info[k]}
      /\ tainted_mem_pool_tail' \in {tainted_mem_pool_tail, large_val_mem_info[k]}
  BY <1>2, <1>4 DEF HandleEagerSet, Taint, taintVars
<1>7. large_val_mem_info[k] \in Blocks \cup {NULL}
  BY DEF IndInv, TypeOK
<1>8. TypeOK'
  BY <1>1, <1>3, <1>6, <1>7 DEF IndInv, TypeOK, ServerStates
<1>9. OneHome'
  BY <1>1, <1>3 DEF IndInv, OneHome, TypeOK
<1>10. NoSharedBlock'
  BY <1>3, <1>5 DEF IndInv, NoSharedBlock, TypeOK
<1>11. AddressesRegistered'
  BY <1>1, <1>3, <1>5 DEF IndInv, AddressesRegistered
<1>12. tainted_mem_pool_head' \in (registered \ Owned') \cup {NULL}
  BY <1>1, <1>5, <1>6, <1>7 DEF IndInv, AddressesRegistered, Owned
<1>13. PICK F \in SUBSET registered : FreeSet(F)
  BY <1>1 DEF IndInv, PoolShape
<1>14. tainted_mem_pool_head' \notin F
  BY <1>4, <1>6, <1>7, <1>13 DEF FreeSet, Owned, TypeOK
<1>15. FreeSet(F)'
  BY <1>3, <1>5, <1>6, <1>13, <1>14 DEF FreeSet
<1>16. PoolShape'
  BY <1>1, <1>3, <1>4, <1>12, <1>13, <1>15 DEF IndInv, PoolShape
<1> QED
  BY <1>8, <1>9, <1>10, <1>11, <1>16 DEF IndInv

LEMMA RndvSetInv == IndInv /\ HandleRndvSet => IndInv'
<1> SUFFICES ASSUME IndInv, HandleRndvSet PROVE IndInv'
  OBVIOUS
<1> USE ServerAssumption
<1>1. /\ ctx_buf.key \in Keys /\ ctx_buf.value_length \in Nat /\ srv = "poll"
      /\ TypeOK
  BY RequestFields DEF HandleRndvSet, Handling, IndInv, TypeOK
<1>2. PICK k \in Keys : k = ctx_buf.key
  BY <1>1
<1>3. /\ NeedsBlock(k) => mem_pool_head # NULL
      /\ entries' = entries \cup {k}
      /\ value' = [value EXCEPT ![k] = NULL]
      /\ val_len' = [val_len EXCEPT ![k] = ctx_buf.value_length]
      /\ reply' = [type |-> "RENDEZVOUS_SET_RESPONSE",
                   server_ptr |-> large_val_mem_info'[k]]
      /\ srv' = "maintain" /\ ctx_buf' = NULL
      /\ UNCHANGED <<rndv_buffer, registered, mem_pool_tail, taintVars>>
  BY <1>2 DEF HandleRndvSet, HandlerReturns
<1>4. /\ tainted_mem_pool_head = NULL /\ tainted_mem_pool_head' = NULL
      /\ pool_size >= 2 /\ pool_size \in Nat
  BY <1>1, <1>3 DEF IndInv, TypeOK, PoolShape, taintVars
<1>5. PICK F \in SUBSET registered : FreeSet(F)
  BY <1>1 DEF IndInv, PoolShape
<1>6. F \subseteq Blocks
  BY <1>1, <1>5 DEF TypeOK
<1>7. CASE ~NeedsBlock(k)
  <2>1. UNCHANGED <<large_val_mem_info, mem_pool_head, next_mem, pool_size>>
    BY <1>2, <1>7 DEF HandleRndvSet
  <2>2. Owned' = Owned /\ large_val_mem_info[k] \in Blocks \cap Owned
    BY <1>1, <1>7, <2>1 DEF Owned, NeedsBlock, TypeOK
  <2>3. TypeOK'
    BY <1>1, <1>3, <2>1, <2>2
       DEF TypeOK, ServerStates, Responses, RndvSetResponse, taintVars
  <2>4. OneHome'
    BY <1>1, <1>3, <1>7, <2>1 DEF IndInv, OneHome, TypeOK, NeedsBlock
  <2>5. NoSharedBlock'
    BY <2>1, <2>2 DEF IndInv, NoSharedBlock
  <2>6. AddressesRegistered'
    BY <1>1, <1>3, <2>1, <2>2 DEF IndInv, AddressesRegistered
  <2>7. FreeSet(F)'
    BY <1>3, <1>5, <2>1, <2>2 DEF FreeSet, taintVars
  <2>8. PoolShape'
    BY <1>1, <1>3, <1>4, <1>5, <2>1, <2>2, <2>7 DEF IndInv, PoolShape, taintVars
  <2> QED
    BY <2>3, <2>4, <2>5, <2>6, <2>8 DEF IndInv
<1>8. CASE NeedsBlock(k)
  <2>1. PICK h \in Blocks : h = mem_pool_head
    BY <1>1, <1>3, <1>8 DEF TypeOK
  <2>2. /\ large_val_mem_info' = [large_val_mem_info EXCEPT ![k] = h]
        /\ mem_pool_head' = next_mem[h]
        /\ next_mem' = [next_mem EXCEPT ![h] = NULL]
        /\ pool_size' = pool_size - 1
    BY <1>2, <1>8, <2>1 DEF HandleRndvSet, TakeBlock
  <2>3. large_val_mem_info[k] = NULL
    BY <1>8 DEF NeedsBlock, IndInv, OneHome
  <2>4. Owned' = Owned \cup {h}
    BY <1>1, <2>1, <2>2, <2>3 DEF Owned, TypeOK
  <2>5. h \in F /\ h \notin Owned
    BY <1>5, <2>1 DEF FreeSet
  <2>6. /\ next_mem[h] \in F \cup {NULL} /\ next_mem[h] # h
        /\ \A b \in F : next_mem[b] # h
    BY <1>5, <2>1, <2>5 DEF FreeSet
  <2>7. \A b \in Blocks : next_mem'[b] = IF b = h THEN NULL ELSE next_mem[b]
    BY <1>1, <2>2 DEF TypeOK
  <2>8. TypeOK'
    BY <1>1, <1>3, <1>4, <1>6, <2>1, <2>2, <2>6
       DEF TypeOK, ServerStates, Responses, RndvSetResponse, taintVars
  <2>9. OneHome'
    BY <1>1, <1>3, <2>2 DEF IndInv, OneHome, TypeOK
  <2>10. NoSharedBlock'
    <3>1. ASSUME NEW k1 \in Keys, NEW k2 \in Keys,
                 large_val_mem_info'[k1] # NULL,
                 large_val_mem_info'[k1] = large_val_mem_info'[k2]
          PROVE  k1 = k2
      BY <1>1, <2>2, <2>5, <3>1 DEF IndInv, NoSharedBlock, TypeOK, Owned
    <3>2. mem_pool_head' \notin Owned'
      BY <1>5, <2>2, <2>4, <2>6 DEF FreeSet, Owned
    <3> QED
      BY <3>1, <3>2 DEF NoSharedBlock
  <2>11. AddressesRegistered'
    <3>1. Owned' \subseteq registered'
      BY <1>1, <1>3, <1>5, <2>4, <2>5 DEF IndInv, AddressesRegistered
    <3>2. reply'.server_ptr = h
      BY <1>1, <1>3, <2>2 DEF TypeOK
    <3> QED
      BY <2>4, <3>1, <3>2 DEF AddressesRegistered
  <2>12. FreeSet(F \ {h})'
    <3>1. mem_pool_head' \in (F \ {h}) \cup {NULL}
      BY <2>2, <2>6
    <3>2. ASSUME NEW b \in F \ {h}
          PROVE  /\ next_mem'[b] \in (F \ {h}) \cup {NULL}
                 /\ next_mem'[b] = mem_pool_head' => mem_pool_head' = NULL
                 /\ rndv_buffer'[b] = Zero
      BY <1>3, <1>5, <1>6, <2>2, <2>5, <2>6, <2>7 DEF FreeSet
    <3>3. ASSUME NEW b \in F \ {h}, NEW c \in F \ {h}, next_mem'[b] = next_mem'[c]
          PROVE  b = c \/ next_mem'[b] = NULL
      BY <1>5, <1>6, <2>7, <3>3 DEF FreeSet
    <3>4. (F \ {h}) \cap Owned' = {}
      BY <1>5, <2>4 DEF FreeSet
    <3>5. tainted_mem_pool_head' \notin F \ {h}
      BY <1>4, <1>6
    <3>6. ASSUME NEW b \in registered' \ (F \ {h})
          PROVE  \/ next_mem'[b] = NULL
                 \/ next_mem'[b] \in registered' \ ((F \ {h}) \cup Owned')
      BY <1>1, <1>3, <1>5, <2>4, <2>5, <2>7 DEF FreeSet, TypeOK
    <3>7. mem_pool_tail' \in F \ {h} =>
            \A b \in registered' \ (F \ {h}) : next_mem'[b] = NULL
      BY <1>1, <1>3, <1>5, <2>7 DEF FreeSet, TypeOK
    <3> QED
      BY <3>1, <3>2, <3>3, <3>4, <3>5, <3>6, <3>7 DEF FreeSet
  <2>13. PoolShape'
    BY <1>1, <1>3, <1>4, <1>5, <2>2, <2>12 DEF IndInv, PoolShape
  <2> QED
    BY <2>8, <2>9, <2>10, <2>11, <2>13 DEF IndInv
<1> QED
  BY <1>7, <1>8

\* Handling a request that dereferences NULL, or closes, ends the server.
LEMMA RndvSetCrashesInv == IndInv /\ RndvSetCrashes => IndInv'
<1> SUFFICES ASSUME IndInv, RndvSetCrashes PROVE IndInv'
  OBVIOUS
<1> USE DEF entryVars, poolVars, taintVars
<1>1. /\ srv' = "crashed"
      /\ UNCHANGED <<entryVars, next_mem, rndv_buffer, registered, poolVars,
                     taintVars, ctx_buf, reply>>
  BY DEF RndvSetCrashes
<1>2. Owned' = Owned
  BY <1>1 DEF Owned
<1>3. TypeOK'
  BY <1>1 DEF IndInv, TypeOK, ServerStates
<1>4. OneHome' /\ NoSharedBlock'
  BY <1>1, <1>2 DEF IndInv, OneHome, NoSharedBlock
<1> QED
  BY <1>1, <1>3, <1>4 DEF IndInv, PoolShape, AddressesRegistered

LEMMA CloseInv == IndInv /\ HandleClose => IndInv'
<1> SUFFICES ASSUME IndInv, HandleClose PROVE IndInv'
  OBVIOUS
<1> USE ServerAssumption
<1>1. /\ registered' \subseteq registered
      /\ entries' = {} /\ value' = [k \in Keys |-> NULL]
      /\ large_val_mem_info' = [k \in Keys |-> NULL]
      /\ mem_pool_head' = NULL /\ tainted_mem_pool_head' = NULL
      /\ srv' = "closed" /\ ctx_buf' = NULL
      /\ UNCHANGED <<val_len, next_mem, rndv_buffer, mem_pool_tail, pool_size,
                     tainted_mem_pool_tail, reply>>
  BY DEF HandleClose
<1>2. Owned' = {}
  BY <1>1 DEF Owned
<1>3. TypeOK'
  BY <1>1 DEF IndInv, TypeOK, ServerStates
<1>4. OneHome' /\ NoSharedBlock'
  BY <1>1, <1>2 DEF OneHome, NoSharedBlock
<1> QED
  BY <1>1, <1>3, <1>4 DEF IndInv, PoolShape, AddressesRegistered

(***************************************************************************)
(* The peer                                                                *)
(***************************************************************************)

\* Steps that only move packets disturb nothing but the packets.
LEMMA PacketStepInv ==
  ASSUME IndInv,
         UNCHANGED <<entryVars, next_mem, rndv_buffer, registered, poolVars,
                     taintVars, srv>>,
         ctx_buf' \in Requests \cup {NULL},
         reply' = reply \/ reply' = NULL
  PROVE  IndInv'
<1> USE DEF entryVars, poolVars, taintVars
<1>1. Owned' = Owned
  BY DEF Owned
<1>2. TypeOK'
  BY DEF IndInv, TypeOK
<1>3. OneHome' /\ NoSharedBlock'
  BY <1>1 DEF IndInv, OneHome, NoSharedBlock
<1>4. AddressesRegistered'
  BY <1>1 DEF IndInv, AddressesRegistered
<1>5. \A F : FreeSet(F)' <=> FreeSet(F)
  BY <1>1 DEF FreeSet
<1>6. PoolShape'
  BY <1>1, <1>5 DEF IndInv, PoolShape
<1> QED
  BY <1>2, <1>3, <1>4, <1>6 DEF IndInv

\* RDMA goes to owned blocks, so a free block stays cleared.
LEMMA PeerWritesInv ==
  IndInv /\ (\E b \in Blocks, v \in Values : PeerWrites(b, v)) => IndInv'
<1> SUFFICES ASSUME IndInv, NEW b \in Blocks, NEW v \in Values, PeerWrites(b, v)
             PROVE  IndInv'
  OBVIOUS
<1>1. /\ srv \in {"poll", "maintain"} /\ b \in Owned
      /\ rndv_buffer' = [rndv_buffer EXCEPT ![b] = v]
      /\ UNCHANGED <<entryVars, next_mem, registered, poolVars, taintVars, srv,
                     ctx_buf, reply>>
  BY DEF PeerWrites, RdmaWrite, notBuffer
<1> USE DEF entryVars, poolVars, taintVars
<1>2. Owned' = Owned
  BY <1>1 DEF Owned
<1>3. TypeOK'
  BY <1>1 DEF IndInv, TypeOK
<1>4. OneHome' /\ NoSharedBlock' /\ AddressesRegistered'
  BY <1>1, <1>2 DEF IndInv, OneHome, NoSharedBlock, AddressesRegistered
<1>5. PICK F \in SUBSET registered : FreeSet(F)
  BY <1>1 DEF IndInv, PoolShape
<1>6. \A c \in F : rndv_buffer'[c] = rndv_buffer[c]
  BY <1>1, <1>5 DEF FreeSet, IndInv, TypeOK
<1>7. FreeSet(F)'
  BY <1>1, <1>2, <1>5, <1>6 DEF FreeSet
<1>8. PoolShape'
  BY <1>1, <1>2, <1>5, <1>7 DEF IndInv, PoolShape
<1> QED
  BY <1>3, <1>4, <1>8 DEF IndInv

(***************************************************************************)
(* The theorems                                                            *)
(***************************************************************************)
LEMMA StepIndInv == IndInv /\ [ServerNext]_serverVars => IndInv'
<1> SUFFICES ASSUME IndInv, [ServerNext]_serverVars PROVE IndInv'
  OBVIOUS
<1>1. ASSUME ServerStep PROVE IndInv'
  BY <1>1, ReclaimTaintedInv, RefillPoolInv, RegisterFailsInv, MaintainDoneInv,
     EagerGetInv, EagerSetInv, RndvSetInv, RndvSetCrashesInv, CloseInv
  DEF ServerStep
<1>2. ASSUME NEW pkt \in ClientRequests, PeerRequests(pkt) PROVE IndInv'
  <2>1. ctx_buf' \in Requests
    BY <1>2, ClientRequestsType DEF PeerRequests, Receive
  <2> QED
    BY <1>2, <2>1, PacketStepInv DEF PeerRequests, notCtxBuf
<1>3. ASSUME PeerTakesReply PROVE IndInv'
  <2>1. ctx_buf' \in Requests \cup {NULL} /\ reply' = NULL
    BY <1>3 DEF PeerTakesReply, notReply, IndInv, TypeOK
  <2> QED
    BY <1>3, <2>1, PacketStepInv DEF PeerTakesReply, notReply
<1>4. ASSUME UNCHANGED serverVars PROVE IndInv'
  <2>1. ctx_buf' \in Requests \cup {NULL}
    BY <1>4 DEF serverVars, IndInv, TypeOK
  <2> QED
    BY <1>4, <2>1, PacketStepInv DEF serverVars
<1> QED
  BY <1>1, <1>2, <1>3, <1>4, PeerWritesInv DEF ServerNext

\* IndInv is an invariant of the server with any client.
THEOREM ServerInvariant == ServerSpec => []IndInv
<1> QED
  BY InitIndInv, StepIndInv, PTL DEF ServerSpec

\* The server's variables keep their types; in particular pool_size, an int
\* that is decremented without a test, never goes below zero.
THEOREM ServerTypeOK == ServerSpec => []TypeOK
<1>1. IndInv => TypeOK
  BY DEF IndInv
<1> QED
  BY <1>1, ServerInvariant, PTL

\* handle_server_packets_only never hands a block to two keys.
THEOREM ServerNoSharedBlock == ServerSpec => []NoSharedBlock
<1>1. IndInv => NoSharedBlock
  BY DEF IndInv
<1> QED
  BY <1>1, ServerInvariant, PTL

\* No entry is without a place for its value or with two.
THEOREM ServerOneHome == ServerSpec => []OneHome
<1>1. IndInv => OneHome
  BY DEF IndInv
<1> QED
  BY <1>1, ServerInvariant, PTL

\* A block is handed out cleared.
THEOREM ServerFreshBlockCleared == ServerSpec => []FreshBlockCleared
<1>1. IndInv => FreshBlockCleared
  BY ServerAssumption DEF IndInv, PoolShape, FreeSet, FreshBlockCleared
<1> QED
  BY <1>1, ServerInvariant, PTL

\* Addresses given to a client stay registered while the server runs.
THEOREM ServerAddressesRegistered == ServerSpec => []AddressesRegistered
<1>1. IndInv => AddressesRegistered
  BY DEF IndInv
<1> QED
  BY <1>1, ServerInvariant, PTL

\* There is always a set of free blocks that the pool's list cannot leave,
\* wherever mem_pool_tail is: neither owned nor tainted, and cleared.
THEOREM ServerPoolShape == ServerSpec => []PoolShape
<1>1. IndInv => PoolShape
  BY DEF IndInv
<1> QED
  BY <1>1, ServerInvariant, PTL

(***************************************************************************)
(* Part two: the session.  A session is a behaviour of the server with one *)
(* of the clients KvServer leaves open (SessionUsesServer): its packets    *)
(* are requests, sent one at a time, and its RDMA writes go only into      *)
(* blocks that an entry owns.  That needs the client's address cache to be *)
(* right, which in turn needs what is known of the server.  SInv joins the *)
(* two.                                                                    *)
(***************************************************************************)

\* No key is the empty string (a cleared cache), and a get of a long value,
\* which reads two bytes more than the string, stays inside its region.
FitsRegions ==
  EmptyKey \notin Keys /\ \A v \in Values : ValLen[v] + 2 <= MAX_TEST_SIZE

(***************************************************************************)
(* The inductive invariant.  A call is in one of few phases, and its       *)
(* request or answer is in exactly one place: posted, in the server's      *)
(* buffer, on its way back, in the client's buffer, or lost with the       *)
(* server.  Only an eager set may still be in the server's buffer when the *)
(* call that sent it has returned.                                         *)
(***************************************************************************)

\* Nothing comes from the server, and a receive is posted.
Quiet == reply = NULL /\ response = NULL /\ rcnt = 0 /\ recvs = 1

\* The server's buffer holds at most a set that its caller does not wait for.
Unhandled == ctx_buf = NULL \/ ctx_buf \in EagerSetRequest

Unsent == scnt = 0 /\ ~wc_error
Sent == sq = NULL /\ scnt = 1 /\ ~wc_error
Failed == sq = NULL /\ scnt = 0 /\ wc_error /\ ~ServerAlive

Send(pkt) == [opcode |-> "SEND", packet |-> pkt]

SetCalls == [name : {"set"}, key : Keys, value : Values]
GetCalls == [name : {"get"}, key : Keys]

EagerSet == [type |-> "EAGER_SET_REQUEST", key |-> call.key, value |-> call.value]
RndvSet == [type |-> "RENDEZVOUS_SET_REQUEST", key |-> call.key,
            value_length |-> ValLen[call.value] + 1]
Get == [type |-> "EAGER_GET_REQUEST", key |-> call.key]
CloseRequest == [type |-> "CLOSE_CONNECTION"]

\* The block of the key, as long as the server keeps its entries.
Holds(k, b) == k \in entries /\ b \in Blocks /\ large_val_mem_info[k] = b

SetAnswer(pkt) ==
  /\ pkt \in RndvSetResponse
  /\ Holds(call.key, pkt.server_ptr)

GetAnswer(pkt) ==
  \/ pkt \in EagerGetResponse \cup ShortGetResponse
  \/ /\ pkt \in RndvGetResponse
     /\ Holds(call.key, pkt.server_ptr)
     /\ pkt.value_length = val_len[call.key]

\* Where a request and its answer can be, once the request is sent.
AtServer(pkt) == ctx_buf = pkt /\ Quiet
OnTheWay == ctx_buf = NULL /\ response = NULL /\ rcnt = 0 /\ recvs = 1
Delivered == ctx_buf = NULL /\ reply = NULL /\ rcnt = 1 /\ recvs = 0
Lost == ctx_buf = NULL /\ Quiet /\ ~ServerAlive

AtRest == sq = NULL /\ Unsent /\ Quiet /\ Unhandled

Posting(pkt) == sq = Send(pkt) /\ Unsent /\ Quiet /\ Unhandled

InRdma(opcode) ==
  /\ Quiet /\ Unhandled /\ last_rndv_accessed_key \in Keys
  /\ \/ Sent \/ Failed
     \/ /\ sq.opcode = opcode /\ Unsent
        /\ sq.addr = last_accessed_server_addr
        /\ sq.length \in Nat /\ sq.length <= MAX_TEST_SIZE
        /\ opcode = "RDMA_WRITE" => sq.value \in Values

EagerSetPhase ==
  /\ call \in SetCalls
  /\ \/ Posting(EagerSet)
     \/ Sent /\ Quiet /\ Unhandled
     \/ Failed /\ Quiet /\ Unhandled

RndvSetPhase ==
  /\ call \in SetCalls
  /\ \/ Posting(RndvSet)
     \/ Sent /\ AtServer(RndvSet)
     \/ Sent /\ OnTheWay /\ SetAnswer(reply)
     \/ Sent /\ Delivered /\ SetAnswer(response)
     \/ Sent /\ Lost
     \/ Failed /\ Quiet /\ Unhandled

GetPhase ==
  /\ call \in GetCalls
  /\ \/ Posting(Get)
     \/ Sent /\ AtServer(Get)
     \/ Sent /\ OnTheWay /\ GetAnswer(reply)
     \/ Sent /\ Delivered /\ GetAnswer(response)
     \/ Sent /\ Lost
     \/ Failed /\ Quiet /\ Unhandled

ClosePhase ==
  \/ Posting(CloseRequest)
  \/ Sent /\ AtServer(CloseRequest)
  \/ Sent /\ Lost
  \/ Failed /\ Quiet /\ Unhandled

Phases ==
  /\ pc = "eager_set" => EagerSetPhase
  /\ pc = "rndv_set" => RndvSetPhase
  /\ pc = "get" => GetPhase
  /\ pc = "write" => call \in SetCalls /\ InRdma("RDMA_WRITE")
  /\ pc = "read" => call \in GetCalls /\ InRdma("RDMA_READ")
  /\ pc \in {"idle", "return"} => AtRest
  /\ pc = "close" => ClosePhase
  /\ pc = "aborted" => sq = NULL /\ scnt = 0 /\ Quiet /\ Unhandled
  /\ pc = "closed" =>
       /\ sq = NULL /\ Unsent /\ Quiet
       /\ ctx_buf = CloseRequest \/ Unhandled

\* Some eager set of the key is not handled yet.
Awaited(k) ==
  \/ ctx_buf # NULL /\ ctx_buf.type = "EAGER_SET_REQUEST" /\ ctx_buf.key = k
  \/ pc = "eager_set" /\ call.key = k

\* The cache holds the address of its key, and a get through it stays in bounds.
CacheRight ==
  srv # "closed" /\ last_rndv_accessed_key \in Keys =>
    /\ Holds(last_rndv_accessed_key, last_accessed_server_addr)
    /\ ~Awaited(last_rndv_accessed_key)
    /\ last_accessed_key_val_length <= MAX_TEST_SIZE

LengthsShort == \A k \in entries : val_len[k] + 1 <= MAX_TEST_SIZE

\* The connection breaks, and the server ends, for no other reason than that
\* the server's registration fails, its pool is lost, or the client closes.
EndsOrderly ==
  /\ ServerAlive => ~qp_error
  /\ srv = "closed" => pc \in {"close", "closed"}

\* The client's part, and all of it.
Session == SessionTypeOK /\ Phases /\ CacheRight /\ LengthsShort /\ EndsOrderly

SInv == IndInv /\ Session

(***************************************************************************)
(* The server's steps                                                      *)
(***************************************************************************)

\* The request a handler finds tells the call that waits for it.
LEMMA HandledCall ==
  ASSUME SInv, ServerAlive, ctx_buf # NULL
  PROVE  /\ ctx_buf.type = "EAGER_GET_REQUEST" =>
              pc = "get" /\ call \in GetCalls /\ Sent /\ AtServer(Get)
         /\ ctx_buf.type = "RENDEZVOUS_SET_REQUEST" =>
              pc = "rndv_set" /\ call \in SetCalls /\ Sent /\ AtServer(RndvSet)
         /\ ctx_buf.type = "CLOSE_CONNECTION" =>
              pc \in {"close", "closed"} /\ ctx_buf = CloseRequest /\ Quiet /\ sq = NULL
         /\ ctx_buf.type = "EAGER_SET_REQUEST" => Unhandled
<1>1. Phases /\ pc \in ClientStates
  BY DEF SInv, Session, SessionTypeOK
<1>2. Unhandled \/ ctx_buf.type # "EAGER_SET_REQUEST"
  BY <1>1 DEF Phases, ClientStates, EagerSetPhase, RndvSetPhase, GetPhase,
     ClosePhase, InRdma,
     AtRest, Posting, AtServer, OnTheWay, Delivered, Lost, Unhandled, RndvSet, Get, CloseRequest
<1>3. Unhandled => ctx_buf.type = "EAGER_SET_REQUEST"
  BY DEF Unhandled, EagerSetRequest
<1>4. CASE ~Unhandled
  <2>1. CASE pc = "get"
    BY <1>1, <1>4, <2>1 DEF Phases, GetPhase, Posting, AtServer, OnTheWay,
       Delivered, Lost, Unhandled, Get
  <2>2. CASE pc = "rndv_set"
    BY <1>1, <1>4, <2>2 DEF Phases, RndvSetPhase, Posting, AtServer, OnTheWay,
       Delivered, Lost, Unhandled,
       RndvSet
  <2>3. CASE pc = "close"
    BY <1>1, <1>4, <2>3 DEF Phases, ClosePhase, Posting, AtServer, Lost,
       Unhandled, CloseRequest, Sent
  <2>4. CASE pc = "closed"
    BY <1>1, <1>4, <2>4 DEF Phases, Unhandled, CloseRequest
  <2>5. CASE pc \in {"eager_set", "write", "read", "idle", "return", "aborted"}
    BY <1>1, <1>4, <2>5 DEF Phases, EagerSetPhase, InRdma, AtRest, Posting
  <2> QED
    BY <1>1, <2>1, <2>2, <2>3, <2>4, <2>5 DEF ClientStates
<1> QED
  BY <1>2, <1>3, <1>4

\* A step of maintain_pool, or one that ends the server, changes nothing that
\* the client's state depends on.
LEMMA MaintainKeeps ==
  ASSUME SInv, UNCHANGED <<entryVars, ctx_buf, reply, clientVars>>,
         ServerAlive, srv' # "closed"
  PROVE  Session'
<1>1. Session
  BY DEF SInv
<1>2. SessionTypeOK'
  BY <1>1 DEF Session, SessionTypeOK, clientVars, cacheVars, cqVars
<1>3. Phases'
  <2>1. /\ UNCHANGED <<pc, call, sq, scnt, rcnt, wc_error, recvs, response, reply, ctx_buf>>
        /\ UNCHANGED <<entries, val_len, large_val_mem_info>>
        /\ UNCHANGED <<last_rndv_accessed_key, last_accessed_server_addr>>
    BY DEF clientVars, cacheVars, cqVars, entryVars
  <2>2. Quiet' = Quiet /\ Unhandled' = Unhandled /\ Unsent' = Unsent /\ Sent' = Sent
    BY <2>1 DEF Quiet, Unhandled, Unsent, Sent
  <2>3. ~Failed /\ ~Lost
    BY DEF Failed, Lost
  <2>4. (EagerSetPhase => EagerSetPhase') /\ (ClosePhase => ClosePhase')
    BY <2>1, <2>2, <2>3 DEF EagerSetPhase, ClosePhase, Posting, AtServer, Send,
       EagerSet, CloseRequest
  <2>5. RndvSetPhase => RndvSetPhase'
    BY <2>1, <2>2, <2>3 DEF RndvSetPhase, Posting, AtServer, OnTheWay, Delivered,
       Send, RndvSet,
       SetAnswer, Holds
  <2>6. GetPhase => GetPhase'
    BY <2>1, <2>2, <2>3 DEF GetPhase, Posting, AtServer, OnTheWay, Delivered,
       Send, Get,
       GetAnswer, Holds
  <2>7. \A opcode : InRdma(opcode) => InRdma(opcode)'
    BY <2>1, <2>2, <2>3 DEF InRdma
  <2>8. (AtRest => AtRest') /\ CloseRequest' = CloseRequest
    BY <2>1, <2>2 DEF AtRest, CloseRequest
  <2> QED
    BY <1>1, <2>1, <2>2, <2>4, <2>5, <2>6, <2>7, <2>8 DEF Session, Phases
<1>4. CacheRight'
  BY <1>1 DEF Session, CacheRight, Holds, Awaited, ServerAlive, clientVars,
     cacheVars, entryVars
<1>5. LengthsShort'
  BY <1>1 DEF Session, LengthsShort, entryVars
<1>6. EndsOrderly'
  BY <1>1 DEF Session, EndsOrderly, clientVars
<1> QED
  BY <1>2, <1>3, <1>4, <1>5, <1>6 DEF Session

\* The answer of a get comes from the entry as it is.
LEMMA EagerGetKeeps ==
  ASSUME SInv, HandleEagerGet, UNCHANGED clientVars
  PROVE  Session'
<1>1. Session /\ TypeOK /\ OneHome
  BY DEF SInv, IndInv
<1>2. pc = "get" /\ call \in GetCalls /\ Sent /\ AtServer(Get) /\ ServerAlive
  BY HandledCall DEF HandleEagerGet, Handling, ServerAlive
<1>3. call.key \in Keys /\ ctx_buf.key = call.key
  BY <1>2 DEF GetCalls, AtServer, Get
<1>4. GetAnswer(GetResponse(call.key))
  <2>1. CASE call.key \notin entries
    BY <2>1 DEF GetResponse, GetAnswer, ShortGetResponse
  <2>2. CASE call.key \in entries /\ value[call.key] # NULL
    BY <1>1, <1>3, <2>2 DEF GetResponse, GetAnswer, EagerGetResponse, TypeOK
  <2>3. CASE call.key \in entries /\ value[call.key] = NULL
    <3>1. large_val_mem_info[call.key] \in Blocks /\ val_len[call.key] \in Nat
      BY <1>1, <1>3, <2>3 DEF OneHome, TypeOK
    <3> QED
      BY <2>3, <3>1 DEF GetResponse, GetAnswer, RndvGetResponse, Holds
  <2> QED
    BY <2>1, <2>2, <2>3
<1>5. /\ reply' = GetResponse(call.key) /\ ctx_buf' = NULL /\ srv' = "maintain"
      /\ UNCHANGED <<entries, value, val_len, large_val_mem_info>>
      /\ UNCHANGED <<pc, call, ret, last_rndv_accessed_key, last_accessed_key_val_length>>
      /\ UNCHANGED <<last_accessed_server_addr, sq, scnt, rcnt, wc_error, recvs, response>>
      /\ UNCHANGED <<qp_error, want>>
  BY <1>3 DEF HandleEagerGet, HandlerReturns, clientVars, cacheVars, cqVars,
     entryVars
<1>6. SessionTypeOK'
  BY <1>1, <1>5 DEF Session, SessionTypeOK
<1>7. Phases'
  <2>1. GetAnswer(reply)'
    BY <1>4, <1>5 DEF GetAnswer, Holds
  <2>2. GetPhase'
    BY <1>2, <1>5, <2>1 DEF GetPhase, Sent, AtServer, Quiet, OnTheWay
  <2> QED
    BY <1>2, <1>5, <2>2 DEF Phases
<1>8. CacheRight'
  BY <1>1, <1>2, <1>5 DEF Session, CacheRight, Holds, Awaited, ServerAlive
<1>9. LengthsShort' /\ EndsOrderly'
  BY <1>1, <1>2, <1>5 DEF Session, LengthsShort, EndsOrderly, ServerAlive
<1> QED
  BY <1>6, <1>7, <1>8, <1>9 DEF Session

\* A set that travelled in its request changes an entry that is not cached.
LEMMA EagerSetKeeps ==
  ASSUME FitsRegions, SInv, HandleEagerSet, UNCHANGED clientVars
  PROVE  Session'
<1>1. Session /\ TypeOK
  BY DEF SInv, IndInv
<1>2. ServerAlive /\ ctx_buf # NULL /\ ctx_buf.type = "EAGER_SET_REQUEST" /\ Unhandled
  BY HandledCall DEF HandleEagerSet, Handling, ServerAlive
<1>3. ctx_buf.key \in Keys /\ ctx_buf.value \in Values
  BY <1>2 DEF Unhandled, EagerSetRequest
<1>4. /\ UNCHANGED reply /\ ctx_buf' = NULL /\ srv' = "maintain"
      /\ StoreSmall(ctx_buf.key, ctx_buf.value)
      /\ UNCHANGED <<pc, call, ret, last_rndv_accessed_key, last_accessed_key_val_length>>
      /\ UNCHANGED <<last_accessed_server_addr, sq, scnt, rcnt, wc_error, recvs, response>>
      /\ UNCHANGED <<qp_error, want>>
  BY DEF HandleEagerSet, HandlerReturns, clientVars, cacheVars, cqVars
<1>5. SessionTypeOK'
  BY <1>1, <1>4 DEF Session, SessionTypeOK
<1>6. Phases'
  <2>1. /\ Quiet' = Quiet /\ Unhandled' /\ Unsent' = Unsent /\ Sent' = Sent
        /\ ~Failed /\ ~Lost /\ ~OnTheWay /\ ~Delivered
    BY <1>2, <1>4 DEF Quiet, Unhandled, Unsent, Sent, Failed, Lost, OnTheWay,
       Delivered
  <2>2. ~AtServer(RndvSet) /\ ~AtServer(Get) /\ ~AtServer(CloseRequest)
    BY <1>2 DEF AtServer, RndvSet, Get, CloseRequest
  <2>3. (Posting(EagerSet) => Posting(EagerSet)') /\ (Posting(RndvSet) => Posting(RndvSet)')
        /\ (Posting(Get) => Posting(Get)') /\ (Posting(CloseRequest) => Posting(CloseRequest)')
    BY <1>4, <2>1 DEF Posting, Send, EagerSet, RndvSet, Get, CloseRequest
  <2>4. /\ EagerSetPhase => EagerSetPhase'
        /\ RndvSetPhase => RndvSetPhase'
        /\ GetPhase => GetPhase'
        /\ ClosePhase => ClosePhase'
    BY <1>4, <2>1, <2>2, <2>3 DEF EagerSetPhase, RndvSetPhase, GetPhase, ClosePhase
  <2>5. \A opcode : InRdma(opcode) => InRdma(opcode)'
    BY <1>4, <2>1 DEF InRdma
  <2>6. AtRest => AtRest'
    BY <1>4, <2>1 DEF AtRest
  <2> QED
    BY <1>1, <1>4, <2>1, <2>4, <2>5, <2>6 DEF Session, Phases
<1>7. CacheRight'
  <2> SUFFICES ASSUME last_rndv_accessed_key \in Keys PROVE CacheRight'
    BY <1>4 DEF CacheRight
  <2>1. /\ Holds(last_rndv_accessed_key, last_accessed_server_addr)
        /\ ~Awaited(last_rndv_accessed_key)
        /\ last_accessed_key_val_length <= MAX_TEST_SIZE
    BY <1>1, <1>2 DEF Session, CacheRight, ServerAlive
  <2>2. last_rndv_accessed_key # ctx_buf.key
    BY <1>2, <2>1 DEF Awaited
  <2>3. Holds(last_rndv_accessed_key, last_accessed_server_addr)'
    BY <1>1, <1>4, <2>1, <2>2 DEF Holds, StoreSmall, TypeOK
  <2>4. ~Awaited(last_rndv_accessed_key)'
    BY <1>4, <2>1 DEF Awaited
  <2> QED
    BY <1>4, <2>1, <2>3, <2>4 DEF CacheRight
<1>8. LengthsShort'
  <2>1. ValLen[ctx_buf.value] \in Nat /\ ValLen[ctx_buf.value] + 2 <= MAX_TEST_SIZE
    BY <1>3, ServerAssumption DEF FitsRegions
  <2>2. MAX_TEST_SIZE \in Nat
    BY SessionAssumption
  <2>3. ValLen[ctx_buf.value] + 1 <= MAX_TEST_SIZE
    BY <2>1, <2>2
  <2> QED
    BY <1>1, <1>3, <1>4, <2>3 DEF Session, LengthsShort, StoreSmall, TypeOK
<1>9. EndsOrderly'
  BY <1>1, <1>2, <1>4 DEF Session, EndsOrderly, ServerAlive
<1> QED
  BY <1>5, <1>6, <1>7, <1>8, <1>9 DEF Session

\* The key of a rendezvous set has its block, an old or a new one.
LEMMA RndvSetKeeps ==
  ASSUME FitsRegions, SInv, HandleRndvSet, UNCHANGED clientVars
  PROVE  Session'
<1>1. Session /\ TypeOK
  BY DEF SInv, IndInv
<1>2. pc = "rndv_set" /\ call \in SetCalls /\ Sent /\ AtServer(RndvSet) /\ ServerAlive
  BY HandledCall DEF HandleRndvSet, Handling, ServerAlive
<1>3. /\ call.key \in Keys /\ call.value \in Values
      /\ ctx_buf.key = call.key /\ ctx_buf.value_length = ValLen[call.value] + 1
  BY <1>2 DEF SetCalls, AtServer, RndvSet
<1>4. /\ reply' = [type |-> "RENDEZVOUS_SET_RESPONSE",
                   server_ptr |-> large_val_mem_info'[call.key]]
      /\ ctx_buf' = NULL /\ srv' = "maintain"
      /\ entries' = entries \cup {call.key}
      /\ val_len' = [val_len EXCEPT ![call.key] = ValLen[call.value] + 1]
      /\ UNCHANGED <<pc, call, ret, last_rndv_accessed_key, last_accessed_key_val_length>>
      /\ UNCHANGED <<last_accessed_server_addr, sq, scnt, rcnt, wc_error, recvs, response>>
      /\ UNCHANGED <<qp_error, want>>
  BY <1>3 DEF HandleRndvSet, HandlerReturns, clientVars, cacheVars, cqVars
<1>5. \A k \in Keys : Holds(k, large_val_mem_info[k]) =>
        large_val_mem_info'[k] = large_val_mem_info[k]
  <2>1. CASE NeedsBlock(call.key)
    BY <1>1, <1>3, <2>1, ServerAssumption DEF HandleRndvSet, NeedsBlock,
       TakeBlock, Holds, TypeOK
  <2>2. CASE ~NeedsBlock(call.key)
    BY <1>3, <2>2 DEF HandleRndvSet
  <2> QED
    BY <2>1, <2>2
<1>6. large_val_mem_info'[call.key] \in Blocks
  <2>1. CASE NeedsBlock(call.key)
    BY <1>1, <1>3, <2>1 DEF HandleRndvSet, TakeBlock, TypeOK
  <2>2. CASE ~NeedsBlock(call.key)
    BY <1>1, <1>3, <2>2 DEF HandleRndvSet, NeedsBlock, TypeOK
  <2> QED
    BY <2>1, <2>2
<1>7. SessionTypeOK'
  BY <1>1, <1>4 DEF Session, SessionTypeOK
<1>8. Phases'
  <2>1. SetAnswer(reply)'
    BY <1>4, <1>6 DEF SetAnswer, RndvSetResponse, Holds
  <2>2. RndvSetPhase'
    BY <1>2, <1>4, <2>1 DEF RndvSetPhase, Sent, AtServer, Quiet, OnTheWay
  <2> QED
    BY <1>2, <1>4, <2>2 DEF Phases
<1>9. CacheRight'
  <2> SUFFICES ASSUME last_rndv_accessed_key \in Keys PROVE CacheRight'
    BY <1>4 DEF CacheRight
  <2>1. /\ Holds(last_rndv_accessed_key, last_accessed_server_addr)
        /\ last_accessed_key_val_length <= MAX_TEST_SIZE
    BY <1>1, <1>2 DEF Session, CacheRight, ServerAlive
  <2>2. Holds(last_rndv_accessed_key, last_accessed_server_addr)'
    BY <1>4, <1>5, <2>1 DEF Holds
  <2>3. ~Awaited(last_rndv_accessed_key)'
    BY <1>2, <1>4 DEF Awaited
  <2> QED
    BY <1>4, <2>1, <2>2, <2>3 DEF CacheRight
<1>10. LengthsShort'
  <2>1. ValLen[call.value] \in Nat /\ ValLen[call.value] + 2 <= MAX_TEST_SIZE /\ MAX_TEST_SIZE \in Nat
    BY <1>3, ServerAssumption, SessionAssumption DEF FitsRegions
  <2>2. ValLen[call.value] + 1 + 1 <= MAX_TEST_SIZE
    BY <2>1
  <2> QED
    BY <1>1, <1>3, <1>4, <2>2 DEF Session, LengthsShort, TypeOK
<1>11. EndsOrderly'
  BY <1>1, <1>2, <1>4 DEF Session, EndsOrderly, ServerAlive
<1> QED
  BY <1>7, <1>8, <1>9, <1>10, <1>11 DEF Session

\* The server closes after the last call of the client.
LEMMA HandleCloseKeeps ==
  ASSUME SInv, HandleClose, UNCHANGED clientVars
  PROVE  Session'
<1>1. Session
  BY DEF SInv
<1>2. /\ pc \in {"close", "closed"} /\ ctx_buf = CloseRequest /\ ctx_buf # NULL
      /\ Quiet /\ sq = NULL
  BY HandledCall DEF HandleClose, Handling, ServerAlive
<1>3. /\ ctx_buf' = NULL /\ srv' = "closed" /\ entries' = {} /\ UNCHANGED reply
      /\ UNCHANGED <<pc, call, ret, last_rndv_accessed_key, last_accessed_key_val_length>>
      /\ UNCHANGED <<last_accessed_server_addr, sq, scnt, rcnt, wc_error, recvs, response>>
      /\ UNCHANGED <<qp_error, want>>
  BY DEF HandleClose, clientVars, cacheVars, cqVars
<1>4. SessionTypeOK'
  BY <1>1, <1>3 DEF Session, SessionTypeOK
<1>5. Phases'
  <2>1. Quiet' /\ Lost'
    BY <1>2, <1>3 DEF Quiet, Lost, ServerAlive
  <2>2. pc = "close" => Sent
    <3>1. ~Unhandled
      BY <1>2 DEF Unhandled, EagerSetRequest, CloseRequest
    <3> QED
      BY <1>1, <1>2, <3>1 DEF Session, Phases, ClosePhase, Posting, Send
  <2>3. pc = "close" => ClosePhase'
    BY <1>3, <2>1, <2>2 DEF ClosePhase, Sent
  <2>4. pc = "closed" => (sq = NULL /\ Unsent)'
    BY <1>1, <1>3 DEF Session, Phases, Unsent
  <2>5. Unhandled'
    BY <1>3 DEF Unhandled
  <2> QED
    BY <1>2, <1>3, <2>1, <2>3, <2>4, <2>5 DEF Phases
<1>6. CacheRight' /\ LengthsShort' /\ EndsOrderly'
  BY <1>2, <1>3 DEF CacheRight, LengthsShort, EndsOrderly, ServerAlive
<1> QED
  BY <1>4, <1>5, <1>6 DEF Session

(***************************************************************************)
(* The client's calls                                                      *)
(***************************************************************************)

\* A small set is posted; its key is not in the cache any more.
LEMMA SetEagerKeeps ==
  ASSUME SInv, NEW k \in Keys, NEW v \in Values, FitsRegions, SetEager(k, v)
  PROVE  Session'
<1>1. Session /\ AtRest /\ pc = "idle"
  BY DEF SInv, Session, Phases, SetEager, Idle
<1>2. /\ call' = SetCall(k, v) /\ pc' = "eager_set" /\ sq' = Send(EagerSet)'
      /\ UNCHANGED <<srv, ctx_buf, reply, entries, val_len, large_val_mem_info>>
      /\ UNCHANGED <<ret, last_accessed_server_addr, scnt, rcnt, wc_error, recvs>>
      /\ UNCHANGED <<response, qp_error, want>>
  BY DEF SetEager, SetCall, PostSend, Send, EagerSet, serverVars, entryVars, cqVars
<1>3. /\ last_rndv_accessed_key' \in {last_rndv_accessed_key, EmptyKey} \ {k}
      /\ last_accessed_key_val_length' \in {last_accessed_key_val_length, 0}
      /\ last_rndv_accessed_key' = last_rndv_accessed_key =>
           last_accessed_key_val_length' = last_accessed_key_val_length
  BY DEF SetEager, Forget, Cached, FitsRegions
<1>4. SessionTypeOK'
  BY <1>1, <1>2, <1>3 DEF Session, SessionTypeOK, ClientStates
<1>5. Phases'
  <2>1. Posting(EagerSet)'
    BY <1>1, <1>2 DEF AtRest, Posting, Unsent, Quiet, Unhandled
  <2>2. call' \in SetCalls
    BY <1>2 DEF SetCall, SetCalls
  <2> QED
    BY <1>2, <2>1, <2>2 DEF Phases, EagerSetPhase, SetCalls
<1>6. CacheRight'
  BY <1>1, <1>2, <1>3 DEF Session, CacheRight, Holds, Awaited, SetCall, FitsRegions
<1>7. LengthsShort' /\ EndsOrderly'
  BY <1>1, <1>2 DEF Session, LengthsShort, EndsOrderly, ServerAlive
<1> QED
  BY <1>4, <1>5, <1>6, <1>7 DEF Session

\* A cached set goes straight to the block of its key.
LEMMA SetCachedKeeps ==
  ASSUME SInv, NEW k \in Keys, NEW v \in Values, FitsRegions, SetCached(k, v)
  PROVE  Session'
<1>1. Session /\ AtRest /\ pc = "idle" /\ last_rndv_accessed_key = k
  BY DEF SInv, Session, Phases, SetCached, Idle, Cached
<1>2. /\ call' = SetCall(k, v) /\ pc' = "write"
      /\ last_accessed_key_val_length' = ValLen[v]
      /\ sq' = [opcode |-> "RDMA_WRITE", value |-> v, length |-> ValLen[v] + 1,
                addr |-> last_accessed_server_addr]
      /\ UNCHANGED <<srv, ctx_buf, reply, entries, val_len, large_val_mem_info>>
      /\ UNCHANGED <<ret, last_rndv_accessed_key, last_accessed_server_addr, scnt, rcnt>>
      /\ UNCHANGED <<wc_error, recvs, response, qp_error, want>>
  BY DEF SetCached, PostWrite, serverVars, entryVars, cqVars
<1>3. ValLen[v] \in Nat /\ ValLen[v] + 1 \in Nat /\ ValLen[v] + 1 <= MAX_TEST_SIZE
      /\ ValLen[v] <= MAX_TEST_SIZE
  <2>1. ValLen[v] \in Nat /\ ValLen[v] + 2 <= MAX_TEST_SIZE /\ MAX_TEST_SIZE \in Nat
    BY ServerAssumption, SessionAssumption DEF FitsRegions
  <2> QED
    BY <2>1
<1>4. SessionTypeOK'
  BY <1>1, <1>2, <1>3 DEF Session, SessionTypeOK, ClientStates
<1>5. Phases'
  <2>1. InRdma("RDMA_WRITE")'
    <3>1. (Quiet /\ Unhandled /\ Unsent)'
      BY <1>1, <1>2 DEF AtRest, Unsent, Quiet, Unhandled
    <3> QED
      BY <1>1, <1>2, <1>3, <3>1 DEF InRdma
  <2>2. call' \in SetCalls
    BY <1>2 DEF SetCall, SetCalls
  <2> QED
    BY <1>2, <2>1, <2>2 DEF Phases, SetCalls
<1>6. CacheRight'
  BY <1>1, <1>2, <1>3 DEF Session, CacheRight, Holds, Awaited
<1>7. LengthsShort' /\ EndsOrderly'
  BY <1>1, <1>2 DEF Session, LengthsShort, EndsOrderly, ServerAlive
<1> QED
  BY <1>4, <1>5, <1>6, <1>7 DEF Session

\* A large set asks for the block of its key.
LEMMA SetRendezvousKeeps ==
  ASSUME SInv, NEW k \in Keys, NEW v \in Values, SetRendezvous(k, v)
  PROVE  Session'
<1>1. Session /\ AtRest /\ pc = "idle"
  BY DEF SInv, Session, Phases, SetRendezvous, Idle
<1>2. /\ call' = SetCall(k, v) /\ pc' = "rndv_set" /\ sq' = Send(RndvSet)' /\ recvs' = 1
      /\ UNCHANGED <<srv, ctx_buf, reply, entries, val_len, large_val_mem_info>>
      /\ UNCHANGED <<ret, last_rndv_accessed_key, last_accessed_key_val_length, scnt>>
      /\ UNCHANGED <<last_accessed_server_addr, rcnt, wc_error, response, qp_error, want>>
  BY <1>1 DEF AtRest, Quiet, SetRendezvous, SetCall, PostSend, PostRecv,
     RECV_LIMIT, Send, RndvSet,
     serverVars, entryVars, cqVars, cacheVars
<1>3. SessionTypeOK'
  BY <1>1, <1>2 DEF Session, SessionTypeOK, ClientStates, RECV_LIMIT
<1>4. Phases'
  <2>1. Posting(RndvSet)'
    BY <1>1, <1>2 DEF AtRest, Posting, Unsent, Quiet, Unhandled
  <2>2. call' \in SetCalls
    BY <1>2 DEF SetCall, SetCalls
  <2> QED
    BY <1>2, <2>1, <2>2 DEF Phases, RndvSetPhase, SetCalls
<1>5. CacheRight'
  BY <1>1, <1>2 DEF Session, CacheRight, Holds, Awaited
<1>6. LengthsShort' /\ EndsOrderly'
  BY <1>1, <1>2 DEF Session, LengthsShort, EndsOrderly, ServerAlive
<1> QED
  BY <1>3, <1>4, <1>5, <1>6 DEF Session

\* A get asks the server.
LEMMA GetRequestKeeps ==
  ASSUME SInv, NEW k \in Keys, GetRequest(k)
  PROVE  Session'
<1>1. Session /\ AtRest /\ pc = "idle"
  BY DEF SInv, Session, Phases, GetRequest, Idle
<1>2. /\ call' = GetCall(k) /\ pc' = "get" /\ sq' = Send(Get)' /\ recvs' = 1
      /\ UNCHANGED <<srv, ctx_buf, reply, entries, val_len, large_val_mem_info>>
      /\ UNCHANGED <<ret, last_rndv_accessed_key, last_accessed_key_val_length, scnt>>
      /\ UNCHANGED <<last_accessed_server_addr, rcnt, wc_error, response, qp_error, want>>
  BY <1>1 DEF AtRest, Quiet, GetRequest, GetCall, PostSend, PostRecv, RECV_LIMIT,
     Send, Get,
     serverVars, entryVars, cqVars, cacheVars
<1>3. SessionTypeOK'
  BY <1>1, <1>2 DEF Session, SessionTypeOK, ClientStates, RECV_LIMIT
<1>4. Phases'
  <2>1. Posting(Get)'
    BY <1>1, <1>2 DEF AtRest, Posting, Unsent, Quiet, Unhandled
  <2>2. call' \in GetCalls
    BY <1>2 DEF GetCall, GetCalls
  <2> QED
    BY <1>2, <2>1, <2>2 DEF Phases, GetPhase, GetCalls
<1>5. CacheRight'
  BY <1>1, <1>2 DEF Session, CacheRight, Holds, Awaited
<1>6. LengthsShort' /\ EndsOrderly'
  BY <1>1, <1>2 DEF Session, LengthsShort, EndsOrderly, ServerAlive
<1> QED
  BY <1>3, <1>4, <1>5, <1>6 DEF Session

\* A get of the cached key reads its block.
LEMMA GetCachedKeeps ==
  ASSUME SInv, NEW k \in Keys, GetCached(k)
  PROVE  Session'
<1>1. Session /\ AtRest /\ pc = "idle" /\ last_rndv_accessed_key = k
  BY DEF SInv, Session, Phases, GetCached, Idle, Cached
<1>2. /\ call' = GetCall(k) /\ pc' = "read"
      /\ sq' = [opcode |-> "RDMA_READ", length |-> last_accessed_key_val_length,
                size |-> last_accessed_key_val_length + 1,
                addr |-> last_accessed_server_addr]
      /\ UNCHANGED <<srv, ctx_buf, reply, entries, val_len, large_val_mem_info>>
      /\ UNCHANGED <<ret, last_rndv_accessed_key, last_accessed_key_val_length, scnt>>
      /\ UNCHANGED <<last_accessed_server_addr, rcnt, wc_error, recvs, response>>
      /\ UNCHANGED <<qp_error, want>>
  BY DEF GetCached, PostRead, serverVars, entryVars, cqVars, cacheVars
<1>3. SessionTypeOK'
  BY <1>1, <1>2 DEF Session, SessionTypeOK, ClientStates
<1>4. Phases'
  <2>1. InRdma("RDMA_READ")'
    <3>1. (Quiet /\ Unhandled /\ Unsent)'
      BY <1>1, <1>2 DEF AtRest, Unsent, Quiet, Unhandled
    <3>2. last_accessed_key_val_length \in Nat /\ last_accessed_key_val_length <= MAX_TEST_SIZE
      BY <1>1 DEF Session, SessionTypeOK, CacheRight, EndsOrderly
    <3> QED
      BY <1>1, <1>2, <3>1, <3>2 DEF InRdma
  <2>2. call' \in GetCalls
    BY <1>2 DEF GetCall, GetCalls
  <2> QED
    BY <1>2, <2>1, <2>2 DEF Phases, GetCalls
<1>5. CacheRight'
  BY <1>1, <1>2 DEF Session, CacheRight, Holds, Awaited
<1>6. LengthsShort' /\ EndsOrderly'
  BY <1>1, <1>2 DEF Session, LengthsShort, EndsOrderly, ServerAlive
<1> QED
  BY <1>3, <1>4, <1>5, <1>6 DEF Session

\* kv_close tells the server.
LEMMA CloseKeeps ==
  ASSUME SInv, Close
  PROVE  Session'
<1>1. Session /\ AtRest /\ pc = "idle"
  BY DEF SInv, Session, Phases, Close, Idle
<1>2. /\ call' = [name |-> "close"] /\ pc' = "close" /\ sq' = Send(CloseRequest)' /\ recvs' = 1
      /\ UNCHANGED <<srv, ctx_buf, reply, entries, val_len, large_val_mem_info>>
      /\ UNCHANGED <<ret, last_rndv_accessed_key, last_accessed_key_val_length, scnt>>
      /\ UNCHANGED <<last_accessed_server_addr, rcnt, wc_error, response, qp_error, want>>
  BY <1>1 DEF AtRest, Quiet, Close, PostSend, Send, CloseRequest,
     serverVars, entryVars, cqVars, cacheVars
<1>3. SessionTypeOK'
  BY <1>1, <1>2 DEF Session, SessionTypeOK, ClientStates, RECV_LIMIT
<1>4. Phases'
  <2>1. Posting(CloseRequest)'
    BY <1>1, <1>2 DEF AtRest, Posting, Unsent, Quiet, Unhandled
  <2> QED
    BY <1>2, <2>1 DEF Phases, ClosePhase
<1>5. CacheRight'
  BY <1>1, <1>2 DEF Session, CacheRight, Holds, Awaited
<1>6. LengthsShort' /\ EndsOrderly'
  BY <1>1, <1>2 DEF Session, LengthsShort, EndsOrderly, ServerAlive
<1> QED
  BY <1>3, <1>4, <1>5, <1>6 DEF Session

(***************************************************************************)
(* The client after a wait                                                 *)
(***************************************************************************)

\* An answer is in the client's buffer when the wait for it is over.
LEMMA AnswerCame ==
  ASSUME SInv, ~wc_error, WaitOver(2)
  PROVE  /\ pc = "rndv_set" => Sent /\ Delivered /\ SetAnswer(response)
         /\ pc = "get" => Sent /\ Delivered /\ GetAnswer(response)
<1>1. Phases
  BY DEF SInv, Session
<1>2. scnt + rcnt >= 2
  BY DEF WaitOver
<1>3. pc = "rndv_set" => Sent /\ Delivered /\ SetAnswer(response)
  BY <1>1, <1>2 DEF Phases, RndvSetPhase, Posting, Unsent, Quiet, Sent, AtServer,
     OnTheWay, Lost, Failed
<1>4. pc = "get" => Sent /\ Delivered /\ GetAnswer(response)
  BY <1>1, <1>2 DEF Phases, GetPhase, Posting, Unsent, Quiet, Sent, AtServer,
     OnTheWay, Lost, Failed
<1> QED
  BY <1>3, <1>4

\* An error ends the wait only when the server is gone.
LEMMA ErrorCame ==
  ASSUME SInv, wc_error, pc \notin {"aborted"}
  PROVE  Failed /\ Quiet /\ Unhandled
<1>1. Phases /\ pc \in ClientStates
  BY DEF SInv, Session, SessionTypeOK
<1> QED
  BY <1>1 DEF Phases, ClientStates, EagerSetPhase, RndvSetPhase, GetPhase,
     ClosePhase, InRdma, AtRest,
     Posting, Unsent, Sent

\* The address of the key is cached and written to.
LEMMA SetGotAddressKeeps ==
  ASSUME SInv, FitsRegions, SetGotAddress
  PROVE  Session'
<1>1. Session /\ pc = "rndv_set" /\ call \in SetCalls
  BY DEF SInv, Session, Phases, RndvSetPhase, SetGotAddress
<1>2. Sent /\ Delivered /\ SetAnswer(response)
  BY <1>1, AnswerCame DEF SetGotAddress
<1>3. /\ pc' = "write" /\ scnt' = 0 /\ rcnt' = 0 /\ wc_error' = FALSE /\ recvs' = 1
      /\ last_rndv_accessed_key' = call.key
      /\ last_accessed_key_val_length' = ValLen[call.value]
      /\ last_accessed_server_addr' = response.server_ptr
      /\ sq' = [opcode |-> "RDMA_WRITE", value |-> call.value,
                length |-> ValLen[call.value] + 1, addr |-> response.server_ptr]
      /\ response' = NULL
      /\ UNCHANGED <<srv, ctx_buf, reply, entries, val_len, large_val_mem_info>>
      /\ UNCHANGED <<call, ret, qp_error, want>>
  BY <1>2 DEF Delivered, SetGotAddress, CompletionsTaken, PostWrite, RECV_LIMIT,
     serverVars, entryVars
<1>4. /\ call.key \in Keys /\ call.value \in Values
      /\ ValLen[call.value] \in Nat /\ ValLen[call.value] <= MAX_TEST_SIZE
      /\ ValLen[call.value] + 1 \in Nat /\ ValLen[call.value] + 1 <= MAX_TEST_SIZE
  <2>1. call.key \in Keys /\ call.value \in Values
    BY <1>1 DEF SetCalls
  <2>2. ValLen[call.value] \in Nat /\ ValLen[call.value] + 2 <= MAX_TEST_SIZE /\ MAX_TEST_SIZE \in Nat
    BY <2>1, ServerAssumption, SessionAssumption DEF FitsRegions
  <2> QED
    BY <2>1, <2>2
<1>5. response.server_ptr \in Blocks
  BY <1>2 DEF SetAnswer, Holds
<1>6. SessionTypeOK'
  BY <1>1, <1>3, <1>4, <1>5 DEF Session, SessionTypeOK, ClientStates, RECV_LIMIT
<1>7. Phases'
  <2>1. InRdma("RDMA_WRITE")'
    BY <1>2, <1>3, <1>4 DEF InRdma, Delivered, Quiet, Unhandled, Unsent
  <2> QED
    BY <1>1, <1>3, <2>1 DEF Phases, SetCalls
<1>8. CacheRight'
  BY <1>2, <1>3, <1>4 DEF CacheRight, SetAnswer, Holds, Awaited, Delivered
<1>9. LengthsShort' /\ EndsOrderly'
  BY <1>1, <1>3 DEF Session, LengthsShort, EndsOrderly, ServerAlive
<1> QED
  BY <1>6, <1>7, <1>8, <1>9 DEF Session

\* The asserts of kv_set fail only when the server is gone.
LEMMA SetAbortsKeeps ==
  ASSUME SInv, SetAborts
  PROVE  Session'
<1>1. Session /\ pc = "rndv_set" /\ call \in SetCalls
  BY DEF SInv, Session, Phases, RndvSetPhase, SetAborts
<1>2. wc_error
  <2> SUFFICES ASSUME ~wc_error PROVE FALSE
    OBVIOUS
  <2>1. SetAnswer(response)
    BY <1>1, AnswerCame DEF SetAborts
  <2>2. response # NULL /\ response.type = "RENDEZVOUS_SET_RESPONSE"
    BY <2>1, SessionAssumption DEF SetAnswer, RndvSetResponse, Responses
  <2> QED
    BY <2>2 DEF SetAborts, ResponseIs
<1>3. Failed /\ Quiet /\ Unhandled
  BY <1>1, <1>2, ErrorCame
<1>4. /\ pc' = "aborted"
      /\ UNCHANGED <<srv, ctx_buf, reply, entries, val_len, large_val_mem_info>>
      /\ UNCHANGED <<call, ret, last_rndv_accessed_key, last_accessed_key_val_length, sq, scnt>>
      /\ UNCHANGED <<last_accessed_server_addr, rcnt, wc_error, recvs, response, qp_error, want>>
  BY DEF SetAborts, serverVars, entryVars, cacheVars, cqVars
<1>5. SessionTypeOK'
  BY <1>1, <1>4 DEF Session, SessionTypeOK, ClientStates
<1>6. Phases'
  BY <1>3, <1>4 DEF Phases, Failed, Quiet, Unhandled
<1>7. CacheRight'
  BY <1>1, <1>4 DEF Session, CacheRight, Holds, Awaited
<1>8. LengthsShort' /\ EndsOrderly'
  BY <1>1, <1>4 DEF Session, LengthsShort, EndsOrderly, ServerAlive
<1> QED
  BY <1>5, <1>6, <1>7, <1>8 DEF Session

\* When a call is over, nothing of it is left but an eager set on its way.
LEMMA RestAgain ==
  ASSUME SInv, NEW next \in {"return", "aborted"},
         pc \in {"eager_set", "write", "read", "get"},
         (Sent /\ Quiet /\ Unhandled) \/ (Failed /\ Quiet /\ Unhandled)
           \/ (Sent /\ Delivered /\ response' = NULL),
         response' = NULL \/ response' = response,
         pc' = next, CompletionsTaken, ret' \in {-1, 0, 1},
         want' \in [Keys -> Values \cup {NULL}],
         UNCHANGED <<serverVars, cacheVars, sq, qp_error>>
  PROVE  Session'
<1>1. Session
  BY DEF SInv
<1>2. /\ pc' = next /\ scnt' = 0 /\ rcnt' = 0 /\ wc_error' = FALSE
      /\ UNCHANGED <<srv, ctx_buf, reply, entries, val_len, large_val_mem_info>>
      /\ UNCHANGED <<last_rndv_accessed_key, last_accessed_key_val_length>>
      /\ UNCHANGED <<last_accessed_server_addr, sq, qp_error>>
  BY DEF CompletionsTaken, serverVars, entryVars, cacheVars
<1>3. recvs' = 1 /\ response' = NULL /\ sq = NULL /\ reply = NULL /\ Unhandled
  BY DEF CompletionsTaken, Quiet, Delivered, Unhandled, Sent, Failed, RECV_LIMIT
<1>4. SessionTypeOK'
  BY <1>1, <1>2, <1>3 DEF Session, SessionTypeOK, ClientStates, RECV_LIMIT
<1>5. AtRest'
  BY <1>2, <1>3 DEF AtRest, Unsent, Quiet, Unhandled
<1>6. Phases'
  BY <1>2, <1>5 DEF Phases, AtRest, Unsent
<1>7. CacheRight'
  BY <1>1, <1>2 DEF Session, CacheRight, Holds, Awaited
<1>8. LengthsShort' /\ EndsOrderly'
  BY <1>1, <1>2 DEF Session, LengthsShort, EndsOrderly, ServerAlive
<1> QED
  BY <1>4, <1>6, <1>7, <1>8 DEF Session

\* An RDMA request or an eager set is done when one completion has come.
LEMMA OneCompletion ==
  ASSUME SInv, WaitOver(1), pc \in {"eager_set", "write", "read"}
  PROVE  Quiet /\ Unhandled /\ (Sent \/ Failed)
<1>1. Phases
  BY DEF SInv, Session
<1>2. wc_error \/ scnt + rcnt >= 1
  BY DEF WaitOver
<1> QED
  BY <1>1, <1>2 DEF Phases, EagerSetPhase, InRdma, Posting, Unsent, Quiet

\* A set is over.
LEMMA SetReturnsKeeps ==
  ASSUME SInv, SetReturns
  PROVE  Session'
<1>1. Session /\ pc \in {"eager_set", "write"} /\ call \in SetCalls
  BY DEF SInv, Session, Phases, EagerSetPhase, SetReturns
<1>2. Quiet /\ Unhandled /\ (Sent \/ Failed)
  BY OneCompletion DEF SetReturns
<1>3. want' \in [Keys -> Values \cup {NULL}]
  BY <1>1 DEF SetReturns, Session, SessionTypeOK, SetCalls
<1> QED
  BY <1>1, <1>2, <1>3, RestAgain DEF SetReturns, WaitResult

\* A get that has read its block is over.
LEMMA GetReturnsKeeps ==
  ASSUME SInv, GetReturns
  PROVE  Session'
<1>1. want' \in [Keys -> Values \cup {NULL}]
  BY DEF SInv, Session, SessionTypeOK, GetReturns
<1>2. Quiet /\ Unhandled /\ (Sent \/ Failed)
  BY OneCompletion DEF GetReturns
<1> QED
  BY <1>1, <1>2, RestAgain DEF GetReturns

\* A small value, or the answer for an absent key.
LEMMA GetSmallKeeps ==
  ASSUME SInv, GetSmall \/ GetAbsent
  PROVE  Session'
<1>1. pc = "get" /\ WaitOver(2) /\ response # NULL
  BY DEF GetSmall, GetAbsent, Answered, ResponseIs
<1>2. Sent /\ Delivered
  <2>1. ~wc_error
    BY <1>1, ErrorCame DEF Quiet
  <2> QED
    BY <1>1, <2>1, AnswerCame
<1>3. want' \in [Keys -> Values \cup {NULL}]
  BY DEF SInv, Session, SessionTypeOK, GetSmall, GetAbsent
<1> QED
  BY <1>1, <1>2, <1>3, RestAgain DEF GetSmall, GetAbsent

\* The error path of kv_get is taken only when the server is gone.
LEMMA GetErrsKeeps ==
  ASSUME SInv, GetErrs
  PROVE  Session'
<1>1. pc = "get" /\ WaitOver(2)
  BY DEF GetErrs
<1>2. wc_error
  <2> SUFFICES ASSUME ~wc_error PROVE FALSE
    OBVIOUS
  <2>1. GetAnswer(response)
    BY <1>1, AnswerCame
  <2>2. response # NULL /\ response.type # "RENDEZVOUS_SET_RESPONSE"
    BY <2>1, SessionAssumption DEF GetAnswer, EagerGetResponse, ShortGetResponse,
       RndvGetResponse,
       Responses
  <2> QED
    BY <2>2 DEF GetErrs, ResponseIs
<1>3. Failed /\ Quiet /\ Unhandled
  BY <1>1, <1>2, ErrorCame
<1>4. want' \in [Keys -> Values \cup {NULL}]
  BY DEF SInv, Session, SessionTypeOK, GetErrs
<1> QED
  BY <1>1, <1>3, <1>4, RestAgain DEF GetErrs

\* A large value is read from the address in the answer.
LEMMA GetLargeKeeps ==
  ASSUME SInv, GetLarge
  PROVE  Session'
<1>1. /\ Session /\ TypeOK /\ pc = "get" /\ call \in GetCalls /\ WaitOver(2)
      /\ response # NULL /\ response.type = "RENDEZVOUS_GET_RESPONSE"
  BY DEF SInv, IndInv, Session, Phases, GetPhase, GetLarge, Answered, ResponseIs
<1>2. Sent /\ Delivered /\ GetAnswer(response)
  <2>1. ~wc_error
    BY <1>1, ErrorCame DEF Quiet
  <2> QED
    BY <1>1, <2>1, AnswerCame
<1>3. /\ Holds(call.key, response.server_ptr) /\ call.key \in Keys
      /\ response.value_length = val_len[call.key]
  BY <1>1, <1>2 DEF GetAnswer, EagerGetResponse, ShortGetResponse, GetCalls
<1>4. /\ response.value_length \in Nat /\ response.value_length <= MAX_TEST_SIZE
      /\ response.value_length + 1 \in Nat /\ response.value_length + 1 <= MAX_TEST_SIZE
  <2>1. /\ response.value_length \in Nat /\ MAX_TEST_SIZE \in Nat
        /\ response.value_length + 1 <= MAX_TEST_SIZE
    BY <1>1, <1>3, SessionAssumption DEF Session, LengthsShort, Holds, TypeOK
  <2> QED
    BY <2>1
<1>5. /\ pc' = "read" /\ scnt' = 0 /\ rcnt' = 0 /\ wc_error' = FALSE /\ recvs' = 1
      /\ last_rndv_accessed_key' = call.key
      /\ last_accessed_key_val_length' = response.value_length
      /\ last_accessed_server_addr' = response.server_ptr
      /\ sq' = [opcode |-> "RDMA_READ", length |-> response.value_length + 1,
                size |-> response.value_length + 1, addr |-> response.server_ptr]
      /\ response' = NULL
      /\ UNCHANGED <<srv, ctx_buf, reply, entries, val_len, large_val_mem_info>>
      /\ UNCHANGED <<call, ret, qp_error, want>>
  BY <1>2 DEF Delivered, GetLarge, CompletionsTaken, PostRead, RECV_LIMIT,
     serverVars, entryVars
<1>6. SessionTypeOK'
  BY <1>1, <1>3, <1>4, <1>5 DEF Session, SessionTypeOK, ClientStates, RECV_LIMIT,
     Holds
<1>7. Phases'
  <2>1. InRdma("RDMA_READ")'
    BY <1>2, <1>3, <1>4, <1>5 DEF InRdma, Delivered, Quiet, Unhandled, Unsent
  <2> QED
    BY <1>1, <1>5, <2>1 DEF Phases, GetCalls
<1>8. CacheRight'
  BY <1>2, <1>3, <1>4, <1>5 DEF CacheRight, Holds, Awaited, Delivered
<1>9. LengthsShort' /\ EndsOrderly'
  BY <1>1, <1>5 DEF Session, LengthsShort, EndsOrderly, ServerAlive
<1> QED
  BY <1>6, <1>7, <1>8, <1>9 DEF Session

\* The caller takes the result.
LEMMA ReturnKeeps ==
  ASSUME SInv, Return
  PROVE  Session'
<1>1. Session /\ AtRest
  BY DEF SInv, Session, Phases, Return
<1>2. /\ pc' = "idle" /\ ret' = 0
      /\ UNCHANGED <<srv, ctx_buf, reply, entries, val_len, large_val_mem_info>>
      /\ UNCHANGED <<last_rndv_accessed_key, last_accessed_key_val_length, sq, scnt>>
      /\ UNCHANGED <<last_accessed_server_addr, rcnt, wc_error, recvs, response, qp_error, want>>
  BY DEF Return, serverVars, entryVars, cacheVars, cqVars
<1>3. SessionTypeOK'
  BY <1>1, <1>2 DEF Session, SessionTypeOK, ClientStates
<1>4. Phases'
  BY <1>1, <1>2 DEF Phases, AtRest, Unsent, Quiet, Unhandled
<1>5. CacheRight'
  BY <1>1, <1>2 DEF Session, CacheRight, Holds, Awaited
<1>6. LengthsShort' /\ EndsOrderly'
  BY <1>1, <1>2 DEF Session, LengthsShort, EndsOrderly, ServerAlive, Return
<1> QED
  BY <1>3, <1>4, <1>5, <1>6 DEF Session

\* kv_close is over: nothing is left on the connection.
LEMMA CloseReturnsKeeps ==
  ASSUME SInv, CloseReturns
  PROVE  Session'
<1>1. Session /\ ClosePhase /\ pc = "close"
  BY DEF SInv, Session, Phases, CloseReturns
<1>2. sq = NULL /\ Quiet /\ (ctx_buf = CloseRequest \/ Unhandled)
  <2>1. wc_error \/ scnt + rcnt >= 1
    BY DEF CloseReturns, WaitOver
  <2> QED
    BY <1>1, <2>1 DEF ClosePhase, Posting, Unsent, Quiet, Sent, AtServer, Lost,
       Failed, Unhandled
<1>3. /\ pc' = "closed" /\ scnt' = 0 /\ rcnt' = 0 /\ wc_error' = FALSE /\ recvs' = 1
      /\ UNCHANGED <<srv, ctx_buf, reply, entries, val_len, large_val_mem_info>>
      /\ UNCHANGED <<ret, last_rndv_accessed_key, last_accessed_key_val_length, sq>>
      /\ UNCHANGED <<last_accessed_server_addr, response, qp_error, want>>
  BY <1>2 DEF Quiet, CloseReturns, CompletionsTaken, RECV_LIMIT, serverVars,
     entryVars, cacheVars
<1>4. SessionTypeOK'
  BY <1>1, <1>3 DEF Session, SessionTypeOK, ClientStates, RECV_LIMIT
<1>5. Phases'
  BY <1>2, <1>3 DEF Phases, Unsent, Quiet, Unhandled, CloseRequest
<1>6. CacheRight'
  BY <1>1, <1>3 DEF Session, CacheRight, Holds, Awaited
<1>7. LengthsShort' /\ EndsOrderly'
  BY <1>1, <1>3 DEF Session, LengthsShort, EndsOrderly, ServerAlive
<1> QED
  BY <1>4, <1>5, <1>6, <1>7 DEF Session

(***************************************************************************)
(* The adapters                                                            *)
(***************************************************************************)

\* A posted request is a packet of the call's, or an RDMA access to the block
\* of the cached key.
LEMMA PostedRequest ==
  ASSUME SInv, sq # NULL
  PROVE  /\ sq.opcode = "SEND" =>
              /\ Unsent /\ Quiet /\ Unhandled
              /\ \/ pc = "eager_set" /\ call \in SetCalls /\ sq = Send(EagerSet)
                 \/ pc = "rndv_set" /\ call \in SetCalls /\ sq = Send(RndvSet)
                 \/ pc = "get" /\ call \in GetCalls /\ sq = Send(Get)
                 \/ pc = "close" /\ sq = Send(CloseRequest)
         /\ sq.opcode # "SEND" =>
              /\ Unsent /\ Quiet /\ Unhandled
              /\ last_rndv_accessed_key \in Keys
              /\ sq.addr = last_accessed_server_addr
              /\ sq.length \in Nat /\ sq.length <= MAX_TEST_SIZE
              /\ \/ /\ pc = "write" /\ call \in SetCalls
                    /\ sq.opcode = "RDMA_WRITE" /\ sq.value \in Values
                 \/ pc = "read" /\ call \in GetCalls /\ sq.opcode = "RDMA_READ"
<1>1. Phases /\ pc \in ClientStates
  BY DEF SInv, Session, SessionTypeOK
<1>2. CASE pc \in {"write", "read"}
  BY <1>1, <1>2 DEF Phases, InRdma, Sent, Failed
<1>3. CASE pc \notin {"write", "read"}
  <2>1. /\ Unsent /\ Quiet /\ Unhandled
        /\ \/ pc = "eager_set" /\ call \in SetCalls /\ sq = Send(EagerSet)
           \/ pc = "rndv_set" /\ call \in SetCalls /\ sq = Send(RndvSet)
           \/ pc = "get" /\ call \in GetCalls /\ sq = Send(Get)
           \/ pc = "close" /\ sq = Send(CloseRequest)
    BY <1>1, <1>3 DEF Phases, ClientStates, EagerSetPhase, RndvSetPhase,
       GetPhase, ClosePhase, AtRest,
       Posting, Sent, Failed
  <2>2. sq.opcode = "SEND"
    BY <2>1 DEF Send
  <2> QED
    BY <2>1, <2>2
<1> QED
  BY <1>2, <1>3

\* RDMA stays inside a registered region as long as the server lives.
LEMMA BoundsKept == ASSUME SInv PROVE RdmaInBounds
<1> SUFFICES ASSUME ServerAlive, sq # NULL, sq.opcode # "SEND" PROVE InBounds
  BY DEF RdmaInBounds
<1>1. /\ last_rndv_accessed_key \in Keys /\ sq.addr = last_accessed_server_addr
      /\ sq.length <= MAX_TEST_SIZE
  BY PostedRequest
<1>2. Holds(last_rndv_accessed_key, last_accessed_server_addr)
  BY <1>1 DEF SInv, Session, CacheRight, ServerAlive
<1>3. last_accessed_server_addr \in Owned
  BY <1>1, <1>2, ServerAssumption DEF Holds, Owned
<1>4. last_accessed_server_addr \in registered
  BY <1>3 DEF SInv, IndInv, AddressesRegistered, ServerAlive
<1> QED
  BY <1>1, <1>4 DEF InBounds

\* A packet arrives in the server's buffer.
LEMMA SendDeliveredKeeps ==
  ASSUME SInv, SendDelivered
  PROVE  Session'
<1>1. Session /\ sq # NULL /\ sq.opcode = "SEND"
  BY DEF SInv, SendDelivered, Posted
<1>2. /\ Unsent /\ Quiet
      /\ \/ pc = "eager_set" /\ call \in SetCalls /\ sq = Send(EagerSet)
         \/ pc = "rndv_set" /\ call \in SetCalls /\ sq = Send(RndvSet)
         \/ pc = "get" /\ call \in GetCalls /\ sq = Send(Get)
         \/ pc = "close" /\ sq = Send(CloseRequest)
  BY <1>1, PostedRequest
<1>3. /\ ctx_buf = NULL /\ ctx_buf' = sq.packet /\ sq' = NULL /\ scnt' = 1
      /\ UNCHANGED <<srv, reply, entries, val_len, large_val_mem_info>>
      /\ UNCHANGED <<pc, call, ret, last_rndv_accessed_key, last_accessed_key_val_length>>
      /\ UNCHANGED <<last_accessed_server_addr, rcnt, wc_error, recvs, response, qp_error>>
      /\ UNCHANGED want
  BY <1>2 DEF Unsent, SendDelivered, Receive, Completed, notCtxBuf, entryVars,
     cacheVars
<1>4. SessionTypeOK'
  BY <1>1, <1>3 DEF Session, SessionTypeOK
<1>5. Sent' /\ Quiet'
  BY <1>2, <1>3 DEF Sent, Unsent, Quiet
<1>6. Phases'
  <2>1. CASE pc = "eager_set"
    <3>1. ctx_buf' \in EagerSetRequest /\ call \in SetCalls
      BY <1>2, <1>3, <2>1 DEF Send, EagerSet, EagerSetRequest, SetCalls
    <3> QED
      BY <1>3, <1>5, <2>1, <3>1 DEF Phases, EagerSetPhase, Unhandled
  <2>2. CASE pc = "rndv_set"
    <3>1. AtServer(RndvSet)' /\ call \in SetCalls
      BY <1>2, <1>3, <1>5, <2>2 DEF Send, RndvSet, AtServer
    <3> QED
      BY <1>3, <1>5, <2>2, <3>1 DEF Phases, RndvSetPhase
  <2>3. CASE pc = "get"
    <3>1. AtServer(Get)' /\ call \in GetCalls
      BY <1>2, <1>3, <1>5, <2>3 DEF Send, Get, AtServer
    <3> QED
      BY <1>3, <1>5, <2>3, <3>1 DEF Phases, GetPhase
  <2>4. CASE pc = "close"
    <3>1. AtServer(CloseRequest)'
      BY <1>2, <1>3, <1>5, <2>4 DEF Send, CloseRequest, AtServer
    <3> QED
      BY <1>3, <1>5, <2>4, <3>1 DEF Phases, ClosePhase
  <2> QED
    BY <1>2, <2>1, <2>2, <2>3, <2>4
<1>7. CacheRight'
  <2>1. ASSUME NEW k, Awaited(k)' PROVE Awaited(k)
    BY <1>2, <1>3, <2>1 DEF Awaited, Send, EagerSet, RndvSet, Get, CloseRequest
  <2> QED
    BY <1>1, <1>3, <2>1 DEF Session, CacheRight, Holds
<1>8. LengthsShort' /\ EndsOrderly'
  BY <1>1, <1>3 DEF Session, LengthsShort, EndsOrderly, ServerAlive
<1> QED
  BY <1>4, <1>6, <1>7, <1>8 DEF Session

\* An RDMA request is done, or fails because the server is gone.
LEMMA RdmaEndsKeeps ==
  ASSUME SInv, WriteDone \/ ReadDone
  PROVE  Session'
<1>1. Session /\ sq # NULL /\ sq.opcode # "SEND"
  BY DEF SInv, WriteDone, ReadDone, Posted
<1>2. /\ Unsent /\ Quiet /\ Unhandled /\ last_rndv_accessed_key \in Keys
      /\ \/ pc = "write" /\ call \in SetCalls
         \/ pc = "read" /\ call \in GetCalls
  BY <1>1, PostedRequest
<1>3. /\ sq' = NULL /\ scnt' = 1
      /\ UNCHANGED <<srv, ctx_buf, reply, entries, val_len, large_val_mem_info>>
      /\ UNCHANGED <<pc, call, ret, last_rndv_accessed_key, last_accessed_key_val_length>>
      /\ UNCHANGED <<last_accessed_server_addr, rcnt, wc_error, recvs, response, qp_error>>
      /\ UNCHANGED want
  BY <1>2 DEF Unsent, WriteDone, ReadDone, Completed, notBuffer, serverVars,
     entryVars, cacheVars
<1>4. SessionTypeOK'
  BY <1>1, <1>3 DEF Session, SessionTypeOK
<1>5. Phases'
  <2>1. Sent' /\ Quiet' /\ Unhandled'
    BY <1>2, <1>3 DEF Sent, Unsent, Quiet, Unhandled
  <2> QED
    BY <1>2, <1>3, <2>1 DEF Phases, InRdma
<1>6. CacheRight'
  BY <1>1, <1>3 DEF Session, CacheRight, Holds, Awaited
<1>7. LengthsShort' /\ EndsOrderly'
  BY <1>1, <1>3 DEF Session, LengthsShort, EndsOrderly, ServerAlive
<1> QED
  BY <1>4, <1>5, <1>6, <1>7 DEF Session

\* A request fails only when the server is gone.
LEMMA RequestFailsKeeps ==
  ASSUME SInv, RequestFails
  PROVE  Session'
<1>1. Session /\ sq # NULL
  BY DEF SInv, RequestFails
<1>2. ~ServerAlive
  BY <1>1, BoundsKept DEF RequestFails, RdmaInBounds, Session, EndsOrderly
<1>3. /\ sq' = NULL /\ wc_error' = TRUE /\ qp_error' = TRUE
      /\ UNCHANGED <<srv, ctx_buf, reply, entries, val_len, large_val_mem_info>>
      /\ UNCHANGED <<pc, call, ret, last_rndv_accessed_key, last_accessed_key_val_length>>
      /\ UNCHANGED <<last_accessed_server_addr, scnt, rcnt, recvs, response, want>>
  BY DEF RequestFails, serverVars, entryVars, cacheVars
<1>4. Unsent /\ Quiet /\ Unhandled
  BY <1>1, PostedRequest
<1>5. Failed' /\ Quiet' /\ Unhandled'
  BY <1>2, <1>3, <1>4 DEF Failed, Unsent, Quiet, Unhandled, ServerAlive
<1>6. SessionTypeOK'
  BY <1>1, <1>3 DEF Session, SessionTypeOK
<1>7. Phases'
  <2>1. \/ pc = "eager_set" /\ call \in SetCalls
        \/ pc = "rndv_set" /\ call \in SetCalls
        \/ pc = "get" /\ call \in GetCalls
        \/ pc = "close"
        \/ pc = "write" /\ call \in SetCalls /\ last_rndv_accessed_key \in Keys
        \/ pc = "read" /\ call \in GetCalls /\ last_rndv_accessed_key \in Keys
    BY <1>1, PostedRequest
  <2> QED
    BY <1>3, <1>5, <2>1 DEF Phases, EagerSetPhase, RndvSetPhase, GetPhase,
       ClosePhase, InRdma
<1>8. CacheRight'
  BY <1>1, <1>3 DEF Session, CacheRight, Holds, Awaited
<1>9. LengthsShort' /\ EndsOrderly'
  BY <1>1, <1>2, <1>3 DEF Session, LengthsShort, EndsOrderly, ServerAlive
<1> QED
  BY <1>6, <1>7, <1>8, <1>9 DEF Session

\* An answer is on its way only to the call that waits for it.
LEMMA AnswerOnTheWay ==
  ASSUME SInv, reply # NULL
  PROVE  /\ Sent /\ OnTheWay
         /\ \/ pc = "rndv_set" /\ call \in SetCalls /\ SetAnswer(reply)
            \/ pc = "get" /\ call \in GetCalls /\ GetAnswer(reply)
<1>1. Phases /\ pc \in ClientStates /\ ~Quiet
  BY DEF SInv, Session, SessionTypeOK, Quiet
<1> QED
  BY <1>1 DEF Phases, ClientStates, EagerSetPhase, RndvSetPhase, GetPhase,
     ClosePhase, InRdma, AtRest,
     Posting, AtServer, Delivered, Lost

\* An answer arrives at the call that waits for it.
LEMMA ResponseDeliveredKeeps ==
  ASSUME SInv, ResponseDelivered
  PROVE  Session'
<1>1. Session /\ TypeOK /\ Sent /\ OnTheWay
  BY AnswerOnTheWay DEF SInv, IndInv, ResponseDelivered
<1>2. /\ reply' = NULL /\ response' = reply /\ recvs' = 0 /\ rcnt' = 1 /\ reply # NULL
      /\ UNCHANGED <<srv, ctx_buf, entries, val_len, large_val_mem_info>>
      /\ UNCHANGED <<pc, call, ret, last_rndv_accessed_key, last_accessed_key_val_length>>
      /\ UNCHANGED <<last_accessed_server_addr, sq, scnt, wc_error, qp_error, want>>
  BY <1>1 DEF OnTheWay, ResponseDelivered, notReply, entryVars, cacheVars
<1>3. SessionTypeOK'
  BY <1>1, <1>2 DEF Session, SessionTypeOK, TypeOK, RECV_LIMIT
<1>4. Phases'
  <2>1. Sent' /\ Delivered'
    BY <1>1, <1>2 DEF Sent, OnTheWay, Delivered
  <2>2. CASE pc = "rndv_set" /\ call \in SetCalls /\ SetAnswer(reply)
    <3>1. SetAnswer(response)'
      BY <1>2, <2>2 DEF SetAnswer, Holds
    <3> QED
      BY <1>2, <2>1, <2>2, <3>1 DEF Phases, RndvSetPhase
  <2>3. CASE pc = "get" /\ call \in GetCalls /\ GetAnswer(reply)
    <3>1. GetAnswer(response)'
      BY <1>2, <2>3 DEF GetAnswer, Holds
    <3> QED
      BY <1>2, <2>1, <2>3, <3>1 DEF Phases, GetPhase
  <2> QED
    BY <1>2, <2>2, <2>3, AnswerOnTheWay
<1>5. CacheRight'
  BY <1>1, <1>2 DEF Session, CacheRight, Holds, Awaited
<1>6. LengthsShort' /\ EndsOrderly'
  BY <1>1, <1>2 DEF Session, LengthsShort, EndsOrderly, ServerAlive
<1> QED
  BY <1>3, <1>4, <1>5, <1>6 DEF Session

\* An answer is lost only when the connection is.
LEMMA ResponseLostKeeps ==
  ASSUME SInv, ResponseLost
  PROVE  Session'
<1>1. Session /\ Sent /\ OnTheWay
  BY AnswerOnTheWay DEF SInv, ResponseLost
<1>2. /\ reply' = NULL /\ reply # NULL /\ ~ServerAlive
      /\ UNCHANGED <<srv, ctx_buf, entries, val_len, large_val_mem_info>>
      /\ UNCHANGED <<pc, call, ret, last_rndv_accessed_key, last_accessed_key_val_length>>
      /\ UNCHANGED <<last_accessed_server_addr, sq, scnt, rcnt, wc_error, recvs, response>>
      /\ UNCHANGED <<qp_error, want>>
  BY DEF ResponseLost, notReply, entryVars, clientVars, cacheVars, cqVars
<1>3. SessionTypeOK'
  BY <1>1, <1>2 DEF Session, SessionTypeOK
<1>4. Phases'
  <2>1. Sent' /\ Lost'
    BY <1>1, <1>2 DEF Sent, OnTheWay, Lost, Quiet, ServerAlive
  <2> QED
    BY <1>2, <2>1, AnswerOnTheWay DEF Phases, RndvSetPhase, GetPhase, SetCalls,
       GetCalls
<1>5. CacheRight'
  BY <1>1, <1>2 DEF Session, CacheRight, Holds, Awaited
<1>6. LengthsShort' /\ EndsOrderly'
  BY <1>1, <1>2 DEF Session, LengthsShort, EndsOrderly, ServerAlive
<1> QED
  BY <1>3, <1>4, <1>5, <1>6 DEF Session

(***************************************************************************)
(* A session is a behaviour of the server                                  *)
(***************************************************************************)

\* At the start the cache is empty and nothing is posted but a receive.
LEMMA InitSession == FitsRegions /\ SessionInit => SInv
<1> SUFFICES ASSUME FitsRegions, SessionInit PROVE SInv
  OBVIOUS
<1>1. IndInv
  BY InitIndInv DEF SessionInit
<1>2. SessionTypeOK
  BY ServerAssumption DEF SessionInit, SessionTypeOK, ClientStates, RECV_LIMIT
<1>3. Phases
  BY DEF SessionInit, ServerInit, Phases, AtRest, Unsent, Quiet, Unhandled
<1>4. CacheRight
  BY DEF FitsRegions, SessionInit, CacheRight
<1>5. LengthsShort /\ EndsOrderly
  BY DEF SessionInit, ServerInit, LengthsShort, EndsOrderly
<1> QED
  BY <1>1, <1>2, <1>3, <1>4, <1>5 DEF SInv, Session

\* Whatever the client and the adapters do, the server sees a packet of a
\* client, its answer taken, or a write into a block that an entry owns.
LEMMA SendIsRequest ==
  ASSUME SInv, SendDelivered
  PROVE  \E pkt \in ClientRequests : PeerRequests(pkt)
<1>1. sq # NULL /\ sq.opcode = "SEND"
  BY DEF SendDelivered, Posted
<1>2. /\ Quiet
      /\ \/ pc = "eager_set" /\ call \in SetCalls /\ sq = Send(EagerSet)
         \/ pc = "rndv_set" /\ call \in SetCalls /\ sq = Send(RndvSet)
         \/ pc = "get" /\ call \in GetCalls /\ sq = Send(Get)
         \/ pc = "close" /\ sq = Send(CloseRequest)
  BY <1>1, PostedRequest
<1>3. sq.packet \in ClientRequests
  <2>1. ASSUME call \in SetCalls PROVE EagerSet \in EagerSetRequest
    BY <2>1 DEF SetCalls, EagerSet, EagerSetRequest
  <2>2. ASSUME call \in SetCalls PROVE RndvSet \in ClientRequests
    <3>1. call.key \in Keys /\ call.value \in Values
      BY <2>2 DEF SetCalls
    <3> QED
      BY <3>1 DEF RndvSet, ClientRequests
  <2>3. ASSUME call \in GetCalls PROVE Get \in EagerGetRequest
    BY <2>3 DEF GetCalls, Get, EagerGetRequest
  <2>4. CloseRequest \in CloseConnection
    BY DEF CloseRequest, CloseConnection
  <2> QED
    BY <1>2, <2>1, <2>2, <2>3, <2>4 DEF Send, ClientRequests
<1>4. PeerRequests(sq.packet)
  BY <1>2 DEF PeerRequests, SendDelivered, Quiet
<1> QED
  BY <1>3, <1>4

\* A write goes to the block of the cached key, which an entry owns.
LEMMA WriteIsOwned ==
  ASSUME SInv, WriteDone
  PROVE  \E b \in Blocks, v \in Values : PeerWrites(b, v)
<1>1. sq # NULL /\ sq.opcode # "SEND" /\ sq.opcode = "RDMA_WRITE" /\ ServerAlive
  BY DEF WriteDone, Posted
<1>2. /\ last_rndv_accessed_key \in Keys /\ sq.addr = last_accessed_server_addr
      /\ sq.value \in Values
  BY <1>1, PostedRequest
<1>3. Holds(last_rndv_accessed_key, last_accessed_server_addr)
  BY <1>1, <1>2 DEF SInv, Session, CacheRight, ServerAlive
<1>4. sq.addr \in Blocks /\ sq.addr \in Owned
  BY <1>2, <1>3, ServerAssumption DEF Holds, Owned
<1>5. PeerWrites(sq.addr, sq.value)
  BY <1>1, <1>4 DEF PeerWrites, WriteDone, ServerAlive
<1> QED
  BY <1>2, <1>4, <1>5

\* Every step of a session is a step of the server with its client, or none.
LEMMA StepUsesServer ==
  ASSUME SInv, [SessionNext]_sessionVars
  PROVE  [ServerNext]_serverVars
<1>1. CASE ServerStep
  BY <1>1 DEF ServerNext
<1>2. CASE ClientStep \/ ClientCall
  <2>1. ASSUME ClientStep PROVE UNCHANGED serverVars
    BY <2>1 DEF ClientStep, SetGotAddress, SetAborts, SetReturns, GetSmall,
       GetAbsent, GetLarge,
       GetErrs, GetReturns, Return, CloseReturns
  <2>2. ASSUME ClientCall PROVE UNCHANGED serverVars
    BY <2>2 DEF ClientCall, SetEager, SetCached, SetRendezvous, GetRequest,
       GetCached, Close
  <2> QED
    BY <1>2, <2>1, <2>2
<1>3. CASE NetworkStep
  <2>1. CASE SendDelivered
    BY <2>1, SendIsRequest DEF ServerNext
  <2>2. CASE WriteDone
    BY <2>2, WriteIsOwned DEF ServerNext
  <2>3. CASE ReadDone \/ RequestFails
    BY <2>3 DEF ReadDone, RequestFails
  <2>4. CASE ResponseDelivered \/ ResponseLost
    BY <2>4 DEF ResponseDelivered, ResponseLost, PeerTakesReply, ServerNext
  <2> QED
    BY <1>3, <2>1, <2>2, <2>3, <2>4 DEF NetworkStep
<1>4. CASE UNCHANGED sessionVars
  BY <1>4 DEF sessionVars
<1> QED
  BY <1>1, <1>2, <1>3, <1>4 DEF SessionNext

\* The server's own steps keep the client's part.
LEMMA ServerStepKeeps ==
  ASSUME FitsRegions, SInv, ServerStep, UNCHANGED clientVars
  PROVE  Session'
<1>1. CASE ReclaimTainted
  BY <1>1, MaintainKeeps DEF ReclaimTainted, ServerAlive
<1>2. CASE RefillPool
  BY <1>2, MaintainKeeps DEF RefillPool, LinkNewNode, ServerAlive
<1>3. CASE RegisterFails
  BY <1>3, MaintainKeeps DEF RegisterFails, LinkNewNode, ServerAlive
<1>4. CASE MaintainDone
  BY <1>4, MaintainKeeps DEF MaintainDone, ServerAlive
<1>5. CASE RndvSetCrashes
  BY <1>5, MaintainKeeps DEF RndvSetCrashes, Handling, ServerAlive
<1> QED
  BY <1>1, <1>2, <1>3, <1>4, <1>5, EagerGetKeeps, EagerSetKeeps, RndvSetKeeps,
     HandleCloseKeeps
  DEF ServerStep

\* Every call that the caller can make keeps the client's part.
LEMMA CallKeeps ==
  ASSUME FitsRegions, SInv, ClientCall
  PROVE  Session'
<1>1. CASE Close
  BY <1>1, CloseKeeps
<1>2. CASE \E k \in Asked : GetRequest(k) \/ GetCached(k)
  BY <1>2, GetRequestKeeps, GetCachedKeeps, SessionAssumption
<1>3. ASSUME NEW w \in Workload,
             SetEager(w[1], w[2]) \/ SetCached(w[1], w[2]) \/ SetRendezvous(w[1], w[2])
      PROVE  Session'
  <2>1. w[1] \in Keys /\ w[2] \in Values
    BY SessionAssumption
  <2> QED
    BY <1>3, <2>1, SetEagerKeeps, SetCachedKeeps, SetRendezvousKeeps
<1> QED
  BY <1>1, <1>2, <1>3 DEF ClientCall

\* So does a stuttering step.
LEMMA StillKeeps ==
  ASSUME SInv, UNCHANGED sessionVars
  PROVE  Session'
<1>1. Session
  BY DEF SInv
<1>2. /\ UNCHANGED <<srv, ctx_buf, reply, entries, val_len, large_val_mem_info>>
      /\ UNCHANGED clientVars
  BY DEF sessionVars, serverVars, entryVars
<1>3. /\ UNCHANGED <<pc, call, ret, sq, scnt, rcnt, wc_error, recvs, response, qp_error, want>>
      /\ UNCHANGED <<last_rndv_accessed_key, last_accessed_key_val_length>>
      /\ UNCHANGED last_accessed_server_addr
  BY <1>2 DEF clientVars, cacheVars, cqVars
<1>4. SessionTypeOK'
  BY <1>1, <1>3 DEF Session, SessionTypeOK
<1>5. Phases'
  <2>1. Phases' = Phases
    BY <1>2, <1>3 DEF Phases, EagerSetPhase, RndvSetPhase, GetPhase, ClosePhase,
       InRdma, AtRest, Posting,
       AtServer, OnTheWay, Delivered, Lost, Sent, Unsent, Failed, Quiet, Unhandled, Send, EagerSet,
       RndvSet, Get, CloseRequest, SetAnswer, GetAnswer, Holds, ServerAlive
  <2> QED
    BY <1>1, <2>1 DEF Session
<1>6. CacheRight'
  BY <1>1, <1>2, <1>3 DEF Session, CacheRight, Holds, Awaited
<1>7. LengthsShort' /\ EndsOrderly'
  BY <1>1, <1>2, <1>3 DEF Session, LengthsShort, EndsOrderly, ServerAlive
<1> QED
  BY <1>4, <1>5, <1>6, <1>7 DEF Session

\* The invariant is inductive.
LEMMA StepSession ==
  ASSUME FitsRegions, SInv, [SessionNext]_sessionVars
  PROVE  SInv'
<1>1. IndInv'
  BY StepUsesServer, StepIndInv DEF SInv
<1>2. Session'
  <2>1. CASE ServerStep /\ UNCHANGED clientVars
    BY <2>1, ServerStepKeeps
  <2>2. CASE ClientStep
    BY <2>2, SetGotAddressKeeps, SetAbortsKeeps, SetReturnsKeeps, GetSmallKeeps,
       GetLargeKeeps,
       GetErrsKeeps, GetReturnsKeeps, ReturnKeeps, CloseReturnsKeeps
    DEF ClientStep
  <2>3. CASE ClientCall
    BY <2>3, CallKeeps
  <2>4. CASE NetworkStep
    BY <2>4, SendDeliveredKeeps, RdmaEndsKeeps, RequestFailsKeeps,
       ResponseDeliveredKeeps,
       ResponseLostKeeps
    DEF NetworkStep
  <2>5. CASE UNCHANGED sessionVars
    BY <2>5, StillKeeps
  <2> QED
    BY <2>1, <2>2, <2>3, <2>4, <2>5 DEF SessionNext
<1> QED
  BY <1>1, <1>2 DEF SInv

(***************************************************************************)
(* Theorems                                                                *)
(***************************************************************************)

\* Every request and answer of a session is where its call expects it.
THEOREM SessionInvariant == ASSUME FitsRegions PROVE SessionSpec => []SInv
<1>1. SessionInit => SInv
  BY InitSession
<1>2. SInv /\ [SessionNext]_sessionVars => SInv'
  BY StepSession
<1> QED
  BY <1>1, <1>2, PTL DEF SessionSpec

\* The real client is one of the clients that KvServer leaves open: the server
\* it talks to keeps all that part one proves.
THEOREM SessionUsesServer == ASSUME FitsRegions PROVE SessionSpec => ServerSpec
<1>1. SessionInit => ServerInit
  BY DEF SessionInit
<1>2. SInv /\ [SessionNext]_sessionVars => [ServerNext]_serverVars
  BY StepUsesServer
<1> QED
  BY <1>1, <1>2, SessionInvariant, PTL DEF SessionSpec, ServerSpec

\* The client's variables keep their types.
THEOREM SessionTypes == ASSUME FitsRegions PROVE SessionSpec => []SessionTypeOK
<1>1. SInv => SessionTypeOK
  BY DEF SInv, Session
<1> QED
  BY <1>1, SessionInvariant, PTL

\* The client's cached address is the block of the cached key, through every
\* change of the entry, so its RDMA never reaches another key's value.
THEOREM SessionCacheCoherent == ASSUME FitsRegions PROVE SessionSpec => []CacheCoherent
<1>1. SInv => CacheCoherent
  BY ServerAssumption
  DEF SInv, Session, CacheRight, Holds, CacheCoherent, Connected, ServerAlive
<1> QED
  BY <1>1, SessionInvariant, PTL

\* A call finds the connection as the one before should have left it.
THEOREM SessionNothingLeftOver == ASSUME FitsRegions PROVE SessionSpec => []NothingLeftOver
<1>1. SInv => NothingLeftOver
  BY DEF SInv, Session, Phases, AtRest, Unsent, Quiet, NothingLeftOver, Idle,
     RECV_LIMIT
<1> QED
  BY <1>1, SessionInvariant, PTL

\* No RDMA request leaves its region: while the server lives, a session's
\* connection is never broken.
THEOREM SessionRdmaInBounds == ASSUME FitsRegions PROVE SessionSpec => []RdmaInBounds
<1>1. SInv => RdmaInBounds
  BY BoundsKept
<1> QED
  BY <1>1, SessionInvariant, PTL

(***************************************************************************)
(* Part three: a session implements KvStore.  A kv_get returns what the    *)
(* last kv_set of its key stored, whether either went through a packet, a  *)
(* block or the cache, and however the server's handling and maintain_pool *)
(* come in between.  RInv adds to SInv where the value of every key is.    *)
(***************************************************************************)

\* The values of a key that are too large for a packet are of one length: of
\* a set through the cache the server does not learn the new one.
LargeAlike ==
  \A k \in Keys, v \in Values : ~Eager(k, v) =>
    /\ ValLen[v] > 0
    /\ \A w \in Values : ~Eager(k, w) => ValLen[w] = ValLen[v]

(***************************************************************************)
(* The inductive invariant                                                 *)
(***************************************************************************)

\* A set of key k is in the server's buffer.
Pending(k) ==
  ctx_buf # NULL /\ ctx_buf.type = "EAGER_SET_REQUEST" /\ ctx_buf.key = k

\* The entry of k has a block, and a length that makes a get read all of v.
Room(k, v) ==
  /\ k \in entries /\ value[k] = NULL
  /\ val_len[k] = ValLen[v] + 1
  /\ ~Eager(k, v)

InBlock(k, v) == Room(k, v) /\ rndv_buffer[large_val_mem_info[k]] = v

\* A get of k finds v, on whichever path it takes.
Stored(k, v) ==
  IF Pending(k) THEN ctx_buf.value = v
  ELSE /\ (k \in entries /\ value[k] = v) \/ InBlock(k, v)
       /\ Cached(k) => last_accessed_key_val_length >= ValLen[v]

Absent(k) == ~Pending(k) /\ k \notin entries

\* What the caller set last is there.
Held(k) == IF want[k] = NULL THEN Absent(k) ELSE Stored(k, want[k])

Contents == \A k \in Keys : ~InSet(k) => Held(k)

\* The value of a set is on its way to where a get will find it.
Writing ==
  /\ Room(call.key, call.value) /\ Cached(call.key)
  /\ last_accessed_key_val_length = ValLen[call.value]
  /\ \/ Sent /\ InBlock(call.key, call.value)
     \/ /\ Unsent
        /\ sq = [opcode |-> "RDMA_WRITE", value |-> call.value,
                 length |-> ValLen[call.value] + 1,
                 addr |-> last_accessed_server_addr]

Reading ==
  /\ Cached(call.key)
  /\ \/ Sent /\ result = Whole(want[call.key])
     \/ /\ Unsent /\ sq.opcode = "RDMA_READ"
        /\ sq.length >= ValLen[want[call.key]]
        /\ sq.length < sq.size \/ ValLen[want[call.key]] < sq.length

\* An answer tells what the caller set last.
Right(pkt) ==
  /\ pkt.type = "EAGER_GET_RESPONSE" => want[call.key] = pkt.value
  /\ pkt.type = "EAGER_GET_RESPONSE_SHORT" => want[call.key] = NULL

AnswersRight ==
  /\ reply # NULL => Right(reply)
  /\ response # NULL => Right(response)

Progress ==
  /\ pc = "eager_set" /\ Sent => Stored(call.key, call.value)
  /\ pc = "rndv_set" =>
       /\ ~Eager(call.key, call.value)
       /\ reply # NULL \/ response # NULL => Room(call.key, call.value)
  /\ pc = "write" => Writing
  /\ pc = "read" => Reading
  /\ pc = "get" => AnswersRight

RInv == SInv /\ (Connected => Contents /\ Progress)

(***************************************************************************)
(* What a step leaves alone                                                *)
(***************************************************************************)

\* The step leaves the place of k's value alone.
SameKey(k) ==
  /\ Pending(k)' = Pending(k) /\ (Pending(k) => ctx_buf' = ctx_buf)
  /\ (k \in entries') = (k \in entries)
  /\ value'[k] = value[k] /\ val_len'[k] = val_len[k]
  /\ large_val_mem_info'[k] = large_val_mem_info[k]
  /\ k \in entries /\ value[k] = NULL =>
       rndv_buffer'[large_val_mem_info[k]] = rndv_buffer[large_val_mem_info[k]]

SameCache(k) ==
  Cached(k)' => Cached(k) /\ last_accessed_key_val_length' = last_accessed_key_val_length

\* What holds of a key goes on holding.
LEMMA KeyKept ==
  ASSUME NEW k, NEW v, SameKey(k)
  PROVE  /\ Absent(k) => Absent(k)'
         /\ Room(k, v) => Room(k, v)'
         /\ InBlock(k, v) => InBlock(k, v)'
         /\ Stored(k, v) /\ SameCache(k) => Stored(k, v)'
<1>1. Absent(k) => Absent(k)'
  BY DEF SameKey, Absent
<1>2. Room(k, v) => Room(k, v)'
  BY DEF SameKey, Room, Eager
<1>3. InBlock(k, v) => InBlock(k, v)'
  BY <1>2 DEF SameKey, InBlock, Room
<1>4. ASSUME Stored(k, v), SameCache(k) PROVE Stored(k, v)'
  BY <1>3, <1>4 DEF SameKey, SameCache, Stored
<1> QED
  BY <1>1, <1>2, <1>3, <1>4

\* What a get would find does not change with a step that leaves the entries,
\* the blocks in use, the packet and the cache alone.
LEMMA HeldKept ==
  ASSUME NEW k, SameKey(k), SameCache(k), want'[k] = want[k], Held(k)
  PROVE  Held(k)'
<1>1. CASE want[k] = NULL
  BY <1>1, KeyKept DEF Held
<1>2. CASE want[k] # NULL
  <2>1. Stored(k, want[k]) => Stored(k, want[k])'
    BY KeyKept DEF Stored, Held
  <2> QED
    BY <1>2, <2>1 DEF Held
<1> QED
  BY <1>1, <1>2

\* The client's waiting variables.
WaitVars ==
  <<pc, call, result, sq, scnt, wc_error, response, reply, want, cacheVars>>

\* Progress is kept by a step that the call does not notice.
LEMMA ProgressKept ==
  ASSUME Progress, UNCHANGED WaitVars,
         pc \in {"eager_set", "rndv_set", "write"} => SameKey(call.key)
  PROVE  Progress'
<1>1. /\ UNCHANGED <<pc, call, result, sq, scnt, wc_error, response, reply, want>>
      /\ UNCHANGED <<last_rndv_accessed_key, last_accessed_key_val_length>>
      /\ UNCHANGED last_accessed_server_addr
  BY DEF WaitVars, cacheVars
<1>2. Sent' = Sent /\ Unsent' = Unsent
  BY <1>1 DEF Sent, Unsent
<1>3. ASSUME pc = "eager_set", Sent PROVE Stored(call.key, call.value)'
  BY <1>1, <1>3, KeyKept DEF Progress, SameCache, Cached
<1>4. ASSUME pc = "rndv_set"
      PROVE  /\ ~Eager(call.key, call.value)'
             /\ reply # NULL \/ response # NULL => Room(call.key, call.value)'
  BY <1>1, <1>4, KeyKept DEF Progress, Eager
<1>5. ASSUME pc = "write" PROVE Writing'
  <2>1. Room(call.key, call.value)' /\ Cached(call.key)'
    BY <1>1, <1>5, KeyKept DEF Progress, Writing, Cached
  <2>2. InBlock(call.key, call.value) => InBlock(call.key, call.value)'
    BY <1>1, <1>5, KeyKept
  <2> QED
    BY <1>1, <1>2, <1>5, <2>1, <2>2 DEF Progress, Writing
<1>6. ASSUME pc = "read" PROVE Reading'
  BY <1>1, <1>2, <1>6 DEF Progress, Reading, Cached, Whole, Cut, StrLen
<1>7. ASSUME pc = "get" PROVE AnswersRight'
  BY <1>1, <1>7 DEF Progress, AnswersRight, Right
<1> QED
  BY <1>1, <1>2, <1>3, <1>4, <1>5, <1>6, <1>7 DEF Progress

\* The block of an entry is owned.
LEMMA BlockOwned ==
  ASSUME SInv, NEW k \in Keys, k \in entries, value[k] = NULL
  PROVE  large_val_mem_info[k] \in Owned /\ large_val_mem_info[k] \in Blocks
BY DEF SInv, IndInv, OneHome, TypeOK, Owned

\* While the server runs, the cached key is none whose set is not handled.
LEMMA CachedKey ==
  ASSUME SInv, Connected, NEW k \in Keys, Cached(k)
  PROVE  /\ Holds(k, last_accessed_server_addr) /\ ~Pending(k) /\ value[k] = NULL
         /\ ~(pc = "eager_set" /\ call.key = k)
<1>1. Holds(k, last_accessed_server_addr) /\ ~Awaited(k)
  BY DEF SInv, Session, CacheRight, Cached, Connected, ServerAlive
<1>2. value[k] = NULL
  BY <1>1, ServerAssumption DEF SInv, IndInv, OneHome, Holds
<1> QED
  BY <1>1, <1>2 DEF Awaited, Pending

\* A step of maintain_pool clears no block that is owned.
LEMMA MaintainRight ==
  ASSUME RInv, Connected, UNCHANGED <<entryVars, ctx_buf, reply, clientVars>>,
         \A b \in Owned : rndv_buffer'[b] = rndv_buffer[b]
  PROVE  (Contents /\ Progress)'
<1>1. SInv /\ Contents /\ Progress
  BY DEF RInv
<1>2. UNCHANGED <<entries, value, val_len, large_val_mem_info, ctx_buf, want, pc, call>>
  BY DEF entryVars, clientVars
<1>3. UNCHANGED WaitVars
  BY DEF WaitVars, clientVars, cqVars
<1>4. ASSUME NEW k \in Keys PROVE SameKey(k)
  BY <1>1, <1>2, BlockOwned DEF SameKey, Pending
<1>5. ASSUME NEW k \in Keys PROVE SameCache(k)
  BY <1>3 DEF WaitVars, cacheVars, SameCache, Cached
<1>6. Contents'
  BY <1>1, <1>2, <1>4, <1>5, HeldKept DEF Contents, InSet
<1>7. Progress'
  <2>1. pc \in {"eager_set", "rndv_set", "write"} => call.key \in Keys
    BY <1>1 DEF SInv, Session, Phases, EagerSetPhase, RndvSetPhase, SetCalls
  <2> QED
    BY <1>1, <1>3, <1>4, <2>1, ProgressKept
<1> QED
  BY <1>6, <1>7

\* The loop that takes back tainted blocks keeps what is stored.
LEMMA ReclaimRight ==
  ASSUME RInv, Connected, ReclaimTainted, UNCHANGED clientVars
  PROVE  (Contents /\ Progress)'
<1>1. tainted_mem_pool_head \notin Owned
  BY DEF RInv, SInv, IndInv, PoolShape, ReclaimTainted
<1>2. Owned \subseteq Blocks /\ rndv_buffer \in [Blocks -> Values \cup {Zero}]
  BY DEF RInv, SInv, IndInv, TypeOK, Owned
<1>3. \A b \in Owned : rndv_buffer'[b] = rndv_buffer[b]
  BY <1>1, <1>2 DEF ReclaimTainted, ClearBuffer
<1> QED
  BY <1>3, MaintainRight DEF ReclaimTainted

\* The same for the loop that fills the pool.
LEMMA RefillRight ==
  ASSUME RInv, Connected, RefillPool, UNCHANGED clientVars
  PROVE  (Contents /\ Progress)'
<1>1. Owned \subseteq registered
  BY DEF RInv, SInv, IndInv, AddressesRegistered, RefillPool
<1>2. Owned \subseteq Blocks /\ rndv_buffer \in [Blocks -> Values \cup {Zero}]
  BY DEF RInv, SInv, IndInv, TypeOK, Owned
<1>3. \A b \in Owned : rndv_buffer'[b] = rndv_buffer[b]
  BY <1>1, <1>2 DEF RefillPool, LinkNewNode, ClearBuffer
<1> QED
  BY <1>3, MaintainRight DEF RefillPool, LinkNewNode

\* The same for the end of maintain_pool.
LEMMA MaintainDoneRight ==
  ASSUME RInv, Connected, MaintainDone, UNCHANGED clientVars
  PROVE  (Contents /\ Progress)'
BY MaintainRight DEF MaintainDone

(***************************************************************************)
(* The packet handler                                                      *)
(***************************************************************************)

\* The answer of a get tells what was set last.
LEMMA EagerGetRight ==
  ASSUME RInv, Connected, HandleEagerGet, UNCHANGED clientVars
  PROVE  (Contents /\ Progress)'
<1>1. SInv /\ Contents /\ Progress /\ TypeOK
  BY DEF RInv, SInv, IndInv
<1>2. pc = "get" /\ call \in GetCalls /\ Sent /\ AtServer(Get) /\ ServerAlive
  BY <1>1, HandledCall DEF HandleEagerGet, Handling, ServerAlive
<1>3. /\ call.key \in Keys /\ ctx_buf.key = call.key /\ ~InSet(call.key)
      /\ ctx_buf.type = "EAGER_GET_REQUEST"
  BY <1>2 DEF GetCalls, AtServer, Get, InSet
<1>4. /\ reply' = GetResponse(call.key) /\ ctx_buf' = NULL
      /\ UNCHANGED <<entries, value, val_len, large_val_mem_info, rndv_buffer>>
      /\ UNCHANGED <<pc, call, response, want>>
      /\ UNCHANGED <<last_rndv_accessed_key, last_accessed_key_val_length>>
  BY <1>3 DEF HandleEagerGet, HandlerReturns, clientVars, cacheVars, entryVars
<1>5. Contents'
  <2>1. ASSUME NEW k \in Keys PROVE SameKey(k) /\ SameCache(k)
    BY <1>3, <1>4 DEF SameKey, SameCache, Pending, Cached
  <2> QED
    BY <1>1, <1>4, <2>1, HeldKept DEF Contents, InSet
<1>6. Right(GetResponse(call.key))
  <2>1. Held(call.key) /\ ~Pending(call.key)
    BY <1>1, <1>3 DEF Contents, Pending
  <2>2. want[call.key] \in Values \cup {NULL}
    BY <1>1, <1>3 DEF SInv, Session, SessionTypeOK
  <2>3. CASE call.key \notin entries
    BY <2>1, <2>3 DEF Held, Stored, InBlock, Room, GetResponse, Right
  <2>4. CASE call.key \in entries /\ value[call.key] # NULL
    BY <2>1, <2>4 DEF Held, Absent, Stored, InBlock, Room, GetResponse, Right
  <2>5. CASE call.key \in entries /\ value[call.key] = NULL
    BY <2>5 DEF GetResponse, Right
  <2> QED
    BY <2>3, <2>4, <2>5
<1>7. Progress'
  <2>1. response = NULL
    BY <1>2 DEF AtServer, Quiet
  <2> QED
    BY <1>2, <1>4, <1>6, <2>1 DEF Progress, AnswersRight, Right
<1> QED
  BY <1>5, <1>7

\* A set that travelled in its request is where a get finds it, before and
\* after the handler has moved it into the entry.
LEMMA EagerSetRight ==
  ASSUME RInv, Connected, HandleEagerSet, UNCHANGED clientVars
  PROVE  (Contents /\ Progress)'
<1>1. SInv /\ Contents /\ Progress /\ TypeOK
  BY DEF RInv, SInv, IndInv
<1> PICK key \in Keys : key = ctx_buf.key
  BY <1>1, RequestFields DEF HandleEagerSet, Handling, TypeOK
<1>2. /\ Pending(key) /\ ctx_buf # NULL /\ ctx_buf.type = "EAGER_SET_REQUEST"
      /\ ctx_buf.value \in Values
  BY <1>1, RequestFields DEF HandleEagerSet, Handling, Pending, TypeOK
<1>3. /\ entries' = entries \cup {key}
      /\ value' = [value EXCEPT ![key] = ctx_buf.value]
      /\ val_len' = [val_len EXCEPT ![key] = ValLen[ctx_buf.value]]
      /\ large_val_mem_info' = [large_val_mem_info EXCEPT ![key] = NULL]
      /\ ctx_buf' = NULL
      /\ UNCHANGED <<rndv_buffer, pc, call, want>>
      /\ UNCHANGED WaitVars
  BY DEF HandleEagerSet, StoreSmall, HandlerReturns, clientVars, cqVars, WaitVars
<1>4. ~Cached(key)' /\ (\A k : SameCache(k))
  <2>1. ~Cached(key)
    BY <1>1, <1>2, CachedKey
  <2> QED
    BY <1>3, <2>1 DEF WaitVars, cacheVars, Cached, SameCache
<1>5. ASSUME NEW k \in Keys, k # key PROVE SameKey(k)
  BY <1>1, <1>2, <1>3, <1>5 DEF SameKey, Pending, TypeOK
<1>6. ASSUME NEW v, Stored(key, v) PROVE Stored(key, v)'
  <2>1. key \in entries' /\ value'[key] = ctx_buf.value /\ v = ctx_buf.value
    BY <1>1, <1>2, <1>3, <1>6 DEF Stored, TypeOK
  <2> QED
    BY <1>3, <1>4, <2>1 DEF Stored, Pending
<1>7. Contents'
  <2>1. ASSUME NEW k \in Keys, ~InSet(k), k # key PROVE Held(k)'
    BY <1>1, <1>3, <1>4, <1>5, <2>1, HeldKept DEF Contents
  <2>2. ASSUME ~InSet(key) PROVE Held(key)'
    <3>1. want[key] # NULL /\ Stored(key, want[key])
      BY <1>1, <1>2, <2>2 DEF Contents, Held, Absent
    <3> QED
      BY <1>3, <1>6, <3>1 DEF Held
  <2> QED
    BY <1>3, <2>1, <2>2 DEF Contents, InSet
<1>8. Progress'
  <2>1. CASE pc = "eager_set" /\ call.key = key
    <3>1. Sent' = Sent
      BY <1>3 DEF WaitVars, Sent
    <3> QED
      BY <1>1, <1>3, <1>6, <2>1, <3>1 DEF Progress
  <2>2. CASE ~(pc = "eager_set" /\ call.key = key)
    <3>1. pc \in {"eager_set", "rndv_set", "write"} => call.key \in Keys
      BY <1>1 DEF SInv, Session, Phases, EagerSetPhase, RndvSetPhase, SetCalls
    <3>2. CASE pc \in {"eager_set", "write"}
      <4>1. call.key # key
        BY <1>1, <1>2, <2>2, <3>1, <3>2, CachedKey DEF Progress, Writing
      <4> QED
        BY <1>1, <1>3, <1>5, <3>1, <3>2, <4>1, ProgressKept
    <3>3. CASE pc = "rndv_set"
      <4>1. reply = NULL /\ response = NULL
        BY <1>1, <1>2, <3>3 DEF SInv, Session, Phases, RndvSetPhase, Posting,
           AtServer, OnTheWay,
           Delivered, Lost, Quiet, RndvSet
      <4> QED
        BY <1>1, <1>3, <3>3, <4>1 DEF Progress, WaitVars, Eager
    <3>4. CASE pc \notin {"eager_set", "rndv_set", "write"}
      BY <1>1, <1>3, <3>4, ProgressKept
    <3> QED
      BY <3>2, <3>3, <3>4
  <2> QED
    BY <2>1, <2>2
<1> QED
  BY <1>7, <1>8

\* The entry of a large set has room for the value that will be written.
LEMMA RndvSetRight ==
  ASSUME RInv, Connected, HandleRndvSet, UNCHANGED clientVars
  PROVE  (Contents /\ Progress)'
<1>1. SInv /\ Contents /\ Progress /\ TypeOK
  BY DEF RInv, SInv, IndInv
<1>2. pc = "rndv_set" /\ call \in SetCalls /\ Sent /\ AtServer(RndvSet)
  BY <1>1, HandledCall DEF HandleRndvSet, Handling, ServerAlive
<1>3. /\ call.key \in Keys /\ ctx_buf.key = call.key /\ InSet(call.key)
      /\ ctx_buf.type = "RENDEZVOUS_SET_REQUEST"
      /\ ctx_buf.value_length = ValLen[call.value] + 1
  BY <1>2 DEF SetCalls, AtServer, RndvSet, InSet
<1>4. /\ entries' = entries \cup {call.key}
      /\ value' = [value EXCEPT ![call.key] = NULL]
      /\ val_len' = [val_len EXCEPT ![call.key] = ValLen[call.value] + 1]
      /\ ctx_buf' = NULL
      /\ UNCHANGED <<rndv_buffer, pc, call, want>>
      /\ UNCHANGED <<last_rndv_accessed_key, last_accessed_key_val_length>>
  BY <1>3 DEF HandleRndvSet, HandlerReturns, clientVars, cacheVars
<1>5. \A k \in Keys : k # call.key => large_val_mem_info'[k] = large_val_mem_info[k]
  BY <1>1, <1>3 DEF HandleRndvSet, TakeBlock, TypeOK
<1>6. Contents'
  <2>1. ASSUME NEW k \in Keys, k # call.key PROVE SameKey(k) /\ SameCache(k)
    BY <1>1, <1>3, <1>4, <1>5, <2>1 DEF SameKey, SameCache, Pending, Cached, TypeOK
  <2>2. ASSUME NEW k \in Keys, ~InSet(k)' PROVE Held(k)'
    <3>1. k # call.key /\ ~InSet(k)
      BY <1>2, <1>4, <2>2 DEF InSet
    <3> QED
      BY <1>1, <1>4, <2>1, <3>1, HeldKept DEF Contents
  <2> QED
    BY <2>2 DEF Contents
<1>7. Progress'
  <2>1. ~Eager(call.key, call.value)
    BY <1>1, <1>2 DEF Progress
  <2>2. Room(call.key, call.value)'
    BY <1>1, <1>3, <1>4, <2>1 DEF Room, Eager, TypeOK
  <2> QED
    BY <1>2, <1>4, <2>1, <2>2 DEF Progress, Eager
<1> QED
  BY <1>6, <1>7

(***************************************************************************)
(* The client                                                              *)
(***************************************************************************)

\* A step of the client or of the adapters touches no entry.
Entries == <<entries, value, val_len, large_val_mem_info>>

\* Between calls nothing is posted, and a cached key has its value in a block.
LEMMA CachedRoom ==
  ASSUME RInv, Connected, NEW k \in Keys, Cached(k), ~InSet(k)
  PROVE  /\ want[k] \in Values /\ InBlock(k, want[k])
         /\ last_accessed_key_val_length >= ValLen[want[k]]
<1>1. SInv /\ Contents
  BY DEF RInv
<1>2. k \in entries /\ ~Pending(k) /\ value[k] = NULL
  BY <1>1, CachedKey DEF Holds
<1>3. want[k] # NULL /\ Stored(k, want[k])
  BY <1>1, <1>2 DEF Contents, Held, Absent
<1>4. want[k] \in Values
  BY <1>1, <1>3 DEF SInv, Session, SessionTypeOK
<1> QED
  BY <1>2, <1>3, <1>4, ServerAssumption DEF Stored

\* Between two calls nothing is posted and nothing is on its way.
LEMMA AtRestBefore ==
  ASSUME RInv, Connected, Idle
  PROVE  /\ SInv /\ Contents /\ AtRest /\ (\A k : ~InSet(k))
         /\ sq = NULL /\ scnt = 0 /\ ~wc_error /\ reply = NULL /\ response = NULL
BY DEF RInv, SInv, Session, Phases, AtRest, Unsent, Quiet, InSet, Idle

\* A small set begins: the cache of its key is cleared before the post.
LEMMA SetEagerRight ==
  ASSUME RInv, Connected, FitsRegions, NEW key \in Keys, NEW v \in Values, SetEager(key, v)
  PROVE  (Contents /\ Progress)'
<1>1. SInv /\ Contents /\ (\A k : ~InSet(k)) /\ scnt = 0
  BY AtRestBefore DEF SetEager
<1>2. /\ UNCHANGED <<entries, value, val_len, large_val_mem_info, rndv_buffer, ctx_buf>>
      /\ UNCHANGED <<scnt, want>>
      /\ pc' = "eager_set" /\ call'.key = key
  BY DEF SetEager, SetCall, serverVars, entryVars, cqVars
<1>3. ASSUME NEW k \in Keys PROVE SameKey(k) /\ SameCache(k)
  BY <1>2 DEF SameKey, Pending, SameCache, Cached, SetEager, Forget, FitsRegions
<1>4. Contents'
  BY <1>1, <1>2, <1>3, HeldKept DEF Contents
<1>5. Progress'
  BY <1>1, <1>2 DEF Progress, Sent
<1> QED
  BY <1>4, <1>5

\* A cached set begins: the value is as long as the one in the block.
LEMMA SetCachedRight ==
  ASSUME RInv, Connected, LargeAlike, NEW key \in Keys, NEW v \in Values, SetCached(key, v)
  PROVE  (Contents /\ Progress)'
<1>1. SInv /\ Contents /\ (\A k : ~InSet(k)) /\ Unsent
  BY AtRestBefore DEF SetCached, Unsent
<1>2. /\ UNCHANGED <<entries, value, val_len, large_val_mem_info, rndv_buffer, ctx_buf>>
      /\ UNCHANGED <<scnt, wc_error, want, last_rndv_accessed_key>>
      /\ UNCHANGED last_accessed_server_addr
      /\ pc' = "write" /\ call'.key = key /\ call'.value = v
      /\ last_rndv_accessed_key = key /\ last_accessed_key_val_length' = ValLen[v]
      /\ ~Eager(key, v)
  BY DEF SetCached, SetCall, Cached, serverVars, entryVars, cqVars
<1>3. ASSUME NEW k \in Keys, k # key PROVE SameKey(k) /\ SameCache(k)
  BY <1>2, <1>3 DEF SameKey, Pending, SameCache, Cached
<1>4. Contents'
  <2>1. ASSUME NEW k \in Keys, ~InSet(k)' PROVE k # key
    BY <1>2, <2>1 DEF InSet
  <2> QED
    BY <1>1, <1>2, <1>3, <2>1, HeldKept DEF Contents
<1>5. Progress'
  <2>1. Room(key, want[key]) /\ want[key] \in Values
    BY <1>1, <1>2, CachedRoom DEF Cached, InBlock
  <2>2. Room(key, v)
    BY <1>2, <2>1 DEF Room, LargeAlike
  <2>3. Room(key, v)'
    BY <1>2, <2>2 DEF Room, Eager
  <2>4. Unsent' /\ sq' = [opcode |-> "RDMA_WRITE", value |-> v, length |-> ValLen[v] + 1,
                          addr |-> last_accessed_server_addr]
    BY <1>1, <1>2 DEF Unsent, SetCached, PostWrite
  <2>5. Writing'
    BY <1>2, <2>3, <2>4 DEF Writing, Cached
  <2> QED
    BY <1>2, <2>5 DEF Progress
<1> QED
  BY <1>4, <1>5

\* A large set begins with a request that carries no value.
LEMMA SetRendezvousRight ==
  ASSUME RInv, Connected, NEW key \in Keys, NEW v \in Values, SetRendezvous(key, v)
  PROVE  (Contents /\ Progress)'
<1>1. /\ SInv /\ Contents /\ (\A k : ~InSet(k)) /\ reply = NULL /\ response = NULL
  BY AtRestBefore DEF SetRendezvous
<1>2. /\ UNCHANGED <<entries, value, val_len, large_val_mem_info, rndv_buffer, ctx_buf>>
      /\ UNCHANGED <<want, last_rndv_accessed_key, last_accessed_key_val_length>>
      /\ UNCHANGED <<reply, response>>
      /\ pc' = "rndv_set" /\ call'.key = key /\ call'.value = v /\ ~Eager(key, v)
  BY DEF SetRendezvous, SetCall, serverVars, entryVars, cacheVars
<1>3. ASSUME NEW k \in Keys PROVE SameKey(k) /\ SameCache(k)
  BY <1>2 DEF SameKey, Pending, SameCache, Cached
<1>4. Contents'
  BY <1>1, <1>2, <1>3, HeldKept DEF Contents
<1>5. Progress'
  BY <1>1, <1>2 DEF Progress, Eager
<1> QED
  BY <1>4, <1>5

\* A get that needs an answer begins.
LEMMA GetRequestRight ==
  ASSUME RInv, Connected, NEW key \in Keys, GetRequest(key)
  PROVE  (Contents /\ Progress)'
<1>1. /\ SInv /\ Contents /\ (\A k : ~InSet(k)) /\ reply = NULL /\ response = NULL
  BY AtRestBefore DEF GetRequest
<1>2. /\ UNCHANGED <<entries, value, val_len, large_val_mem_info, rndv_buffer, ctx_buf>>
      /\ UNCHANGED <<want, last_rndv_accessed_key, last_accessed_key_val_length>>
      /\ UNCHANGED <<reply, response>>
      /\ pc' = "get"
  BY DEF GetRequest, serverVars, entryVars, cacheVars
<1>3. ASSUME NEW k \in Keys PROVE SameKey(k) /\ SameCache(k)
  BY <1>2 DEF SameKey, Pending, SameCache, Cached
<1>4. Contents'
  BY <1>1, <1>2, <1>3, HeldKept DEF Contents
<1>5. Progress'
  BY <1>1, <1>2 DEF Progress, AnswersRight
<1> QED
  BY <1>4, <1>5

\* The length in the cache is no less than that of the value in the block.
LEMMA GetCachedRight ==
  ASSUME RInv, Connected, NEW key \in Keys, GetCached(key)
  PROVE  (Contents /\ Progress)'
<1>1. SInv /\ Contents /\ (\A k : ~InSet(k)) /\ Unsent
  BY AtRestBefore DEF GetCached, Unsent
<1>2. /\ UNCHANGED <<entries, value, val_len, large_val_mem_info, rndv_buffer, ctx_buf>>
      /\ UNCHANGED <<want, last_rndv_accessed_key, last_accessed_key_val_length>>
      /\ UNCHANGED <<scnt, wc_error>>
      /\ pc' = "read" /\ call'.key = key /\ Cached(key)
      /\ sq'.opcode = "RDMA_READ" /\ sq'.length = last_accessed_key_val_length
      /\ sq'.size = last_accessed_key_val_length + 1
  BY DEF GetCached, GetCall, PostRead, serverVars, entryVars, cacheVars, cqVars
<1>3. ASSUME NEW k \in Keys PROVE SameKey(k) /\ SameCache(k)
  BY <1>2 DEF SameKey, Pending, SameCache, Cached
<1>4. Contents'
  BY <1>1, <1>2, <1>3, HeldKept DEF Contents
<1>5. Progress'
  <2>1. last_accessed_key_val_length >= ValLen[want[key]]
    BY <1>1, <1>2, CachedRoom
  <2>2. last_accessed_key_val_length < last_accessed_key_val_length + 1
    BY <1>1 DEF SInv, Session, SessionTypeOK
  <2>3. Reading'
    BY <1>1, <1>2, <2>1, <2>2 DEF Reading, Cached, Unsent
  <2> QED
    BY <1>2, <2>3 DEF Progress
<1> QED
  BY <1>4, <1>5

\* A close begins.
LEMMA CloseRight ==
  ASSUME RInv, Connected, Close
  PROVE  (Contents /\ Progress)'
<1>1. Contents /\ (\A k : ~InSet(k))
  BY AtRestBefore DEF Close
<1>2. /\ UNCHANGED <<entries, value, val_len, large_val_mem_info, rndv_buffer, ctx_buf>>
      /\ UNCHANGED <<want, last_rndv_accessed_key, last_accessed_key_val_length>>
      /\ pc' = "close"
  BY DEF Close, serverVars, entryVars, cacheVars
<1>3. ASSUME NEW k \in Keys PROVE SameKey(k) /\ SameCache(k)
  BY <1>2 DEF SameKey, Pending, SameCache, Cached
<1> QED
  BY <1>1, <1>2, <1>3, HeldKept DEF Contents, Progress

\* The address that the server has answered is remembered for the key.
LEMMA SetGotAddressRight ==
  ASSUME RInv, Connected, SetGotAddress
  PROVE  (Contents /\ Progress)'
<1>1. /\ SInv /\ Contents /\ Progress /\ pc = "rndv_set" /\ call \in SetCalls
      /\ InSet(call.key) /\ call.key \in Keys /\ response # NULL
  <2>1. SInv /\ Contents /\ Progress /\ pc = "rndv_set" /\ response # NULL
    BY DEF RInv, SetGotAddress, ResponseIs
  <2> QED
    BY <2>1 DEF SInv, Session, Phases, RndvSetPhase, SetCalls, InSet
<1>2. /\ UNCHANGED <<entries, value, val_len, large_val_mem_info, rndv_buffer, ctx_buf>>
      /\ UNCHANGED <<want, call>>
      /\ pc' = "write" /\ last_rndv_accessed_key' = call.key
      /\ last_accessed_key_val_length' = ValLen[call.value]
      /\ last_accessed_server_addr' = response.server_ptr
      /\ scnt' = 0 /\ wc_error' = FALSE
      /\ sq' = [opcode |-> "RDMA_WRITE", value |-> call.value,
                length |-> ValLen[call.value] + 1, addr |-> response.server_ptr]
  BY DEF SetGotAddress, CompletionsTaken, PostWrite, serverVars, entryVars
<1>3. ASSUME NEW k \in Keys, k # call.key PROVE SameKey(k) /\ SameCache(k)
  BY <1>2, <1>3 DEF SameKey, Pending, SameCache, Cached
<1>4. Contents'
  <2>1. ASSUME NEW k \in Keys, ~InSet(k)' PROVE k # call.key /\ ~InSet(k)
    BY <1>1, <1>2, <2>1 DEF InSet
  <2> QED
    BY <1>1, <1>2, <1>3, <2>1, HeldKept DEF Contents
<1>5. Progress'
  <2>1. Room(call.key, call.value)
    BY <1>1 DEF Progress
  <2>2. Room(call.key, call.value)'
    BY <1>2, <2>1 DEF Room, Eager
  <2>3. Writing'
    BY <1>2, <2>2 DEF Writing, Cached, Unsent
  <2> QED
    BY <1>2, <2>3 DEF Progress
<1> QED
  BY <1>4, <1>5

\* The value that was set is where a get will find it.
LEMMA SetReturnsRight ==
  ASSUME RInv, Connected, SetReturns
  PROVE  (Contents /\ Progress)'
<1>1. /\ SInv /\ Contents /\ Progress /\ pc \in {"eager_set", "write"} /\ call \in SetCalls
      /\ InSet(call.key) /\ call.key \in Keys /\ call.value \in Values
  <2>1. SInv /\ Contents /\ Progress /\ pc \in {"eager_set", "write"}
    BY DEF RInv, SetReturns
  <2> QED
    BY <2>1 DEF SInv, Session, Phases, EagerSetPhase, SetCalls, InSet
<1>2. Sent
  BY <1>1, OneCompletion DEF SetReturns, Failed, Connected
<1>3. /\ UNCHANGED <<entries, value, val_len, large_val_mem_info, rndv_buffer, ctx_buf>>
      /\ UNCHANGED <<call, last_rndv_accessed_key, last_accessed_key_val_length>>
      /\ pc' = "return" /\ want' = [want EXCEPT ![call.key] = call.value]
  BY DEF SetReturns, serverVars, entryVars, cacheVars
<1>4. want \in [Keys -> Values \cup {NULL}]
  BY <1>1 DEF SInv, Session, SessionTypeOK
<1>5. ASSUME NEW k \in Keys PROVE SameKey(k) /\ SameCache(k)
  BY <1>3 DEF SameKey, Pending, SameCache, Cached
<1>6. Stored(call.key, call.value)
  <2>1. CASE pc = "eager_set"
    BY <1>1, <1>2, <2>1 DEF Progress
  <2>2. CASE pc = "write"
    <3>1. /\ InBlock(call.key, call.value) /\ Cached(call.key)
          /\ last_accessed_key_val_length = ValLen[call.value]
      BY <1>1, <1>2, <2>2 DEF Progress, Writing, Sent, Unsent
    <3>2. ~Pending(call.key) /\ ValLen[call.value] \in Nat
      BY <1>1, <3>1, CachedKey, ServerAssumption
    <3> QED
      BY <3>1, <3>2 DEF Stored
  <2> QED
    BY <1>1, <2>1, <2>2
<1>7. ASSUME NEW k \in Keys PROVE Held(k)'
  <2>1. CASE k = call.key
    <3>1. Stored(k, call.value)'
      BY <1>3, <1>5, <1>6, <2>1, KeyKept
    <3>2. want'[k] = call.value /\ call.value # NULL
      BY <1>1, <1>3, <1>4, <2>1, ServerAssumption
    <3> QED
      BY <1>3, <3>1, <3>2 DEF Held
  <2>2. CASE k # call.key
    <3>1. want'[k] = want[k] /\ ~InSet(k)
      BY <1>3, <1>4, <2>2 DEF InSet
    <3> QED
      BY <1>1, <1>5, <3>1, HeldKept DEF Contents
  <2> QED
    BY <2>1, <2>2
<1> QED
  BY <1>3, <1>7 DEF Contents, Progress

\* A get that returns, and the caller's taking of a result, change no value.
LEMMA GetEndsRight ==
  ASSUME RInv, Connected, Connected',
         GetSmall \/ GetAbsent \/ GetErrs \/ GetReturns \/ Return
  PROVE  (Contents /\ Progress)'
<1>1. Contents /\ (\A k : ~InSet(k))
  BY DEF RInv, GetSmall, GetAbsent, GetErrs, GetReturns, Return, Answered, InSet
<1>2. /\ UNCHANGED <<entries, value, val_len, large_val_mem_info, rndv_buffer, ctx_buf>>
      /\ UNCHANGED <<want, last_rndv_accessed_key, last_accessed_key_val_length>>
      /\ pc' \in {"return", "idle"}
  BY DEF GetSmall, GetAbsent, GetErrs, GetReturns, Return, serverVars, entryVars,
     cacheVars, Connected
<1>3. ASSUME NEW k \in Keys PROVE SameKey(k) /\ SameCache(k)
  BY <1>2 DEF SameKey, Pending, SameCache, Cached
<1> QED
  BY <1>1, <1>2, <1>3, HeldKept DEF Contents, Progress

\* The read that follows the answer is long enough.
LEMMA GetLargeRight ==
  ASSUME RInv, Connected, GetLarge
  PROVE  (Contents /\ Progress)'
<1>1. SInv /\ Contents /\ pc = "get" /\ response # NULL
  BY DEF RInv, GetLarge, Answered, ResponseIs
<1>2. call.key \in Keys /\ GetAnswer(response) /\ ctx_buf = NULL /\ ~InSet(call.key)
  <2>1. Sent /\ Delivered /\ GetAnswer(response)
    <3>1. ~wc_error
      BY <1>1, ErrorCame DEF Quiet
    <3> QED
      BY <1>1, <3>1, AnswerCame DEF GetLarge, Answered
  <2> QED
    BY <1>1, <2>1 DEF SInv, Session, Phases, GetPhase, GetCalls, Delivered, InSet
<1>3. Holds(call.key, response.server_ptr) /\ response.value_length = val_len[call.key]
  BY <1>2 DEF GetLarge, Answered, ResponseIs, GetAnswer, EagerGetResponse,
     ShortGetResponse
<1>4. /\ want[call.key] \in Values /\ val_len[call.key] = ValLen[want[call.key]] + 1
      /\ InBlock(call.key, want[call.key])
  <2>1. Held(call.key) /\ ~Pending(call.key) /\ call.key \in entries
    BY <1>1, <1>2, <1>3 DEF Contents, Pending, Holds
  <2>2. want[call.key] \in Values /\ Stored(call.key, want[call.key])
    BY <1>1, <1>2, <2>1 DEF Held, Absent, SInv, Session, SessionTypeOK
  <2>3. value[call.key] = NULL
    BY <1>1, <1>2, <1>3, ServerAssumption DEF SInv, IndInv, OneHome, Holds
  <2> QED
    BY <2>1, <2>2, <2>3, ServerAssumption DEF Stored, InBlock, Room
<1>5. ValLen[want[call.key]] \in Nat
  BY <1>4, ServerAssumption
<1>6. /\ UNCHANGED <<entries, value, val_len, large_val_mem_info, rndv_buffer, ctx_buf>>
      /\ UNCHANGED <<want, call>>
      /\ pc' = "read" /\ last_rndv_accessed_key' = call.key
      /\ last_accessed_key_val_length' = response.value_length
      /\ scnt' = 0 /\ wc_error' = FALSE
      /\ sq'.opcode = "RDMA_READ" /\ sq'.length = response.value_length + 1
  BY DEF GetLarge, CompletionsTaken, PostRead, serverVars, entryVars
<1>7. Contents'
  <2>1. ASSUME NEW k \in Keys PROVE SameKey(k)
    BY <1>6 DEF SameKey, Pending
  <2>2. ASSUME NEW k \in Keys, k # call.key PROVE Held(k)'
    <3>1. SameCache(k) /\ ~InSet(k)
      BY <1>1, <1>6, <2>2 DEF SameCache, Cached, InSet
    <3> QED
      BY <1>1, <1>6, <2>1, <3>1, HeldKept DEF Contents
  <2>3. Held(call.key)'
    <3>1. InBlock(call.key, want[call.key])'
      BY <1>4, <1>6 DEF InBlock, Room, Eager
    <3>2. ~Pending(call.key)'
      BY <1>2, <1>6 DEF Pending
    <3>3. last_accessed_key_val_length' >= ValLen[want[call.key]]
      BY <1>3, <1>4, <1>5, <1>6
    <3>4. want[call.key] # NULL
      BY <1>4, ServerAssumption
    <3> QED
      BY <1>6, <3>1, <3>2, <3>3, <3>4 DEF Held, Stored
  <2> QED
    BY <1>6, <2>2, <2>3 DEF Contents
<1>8. Progress'
  <2>1. sq'.length >= ValLen[want[call.key]] /\ ValLen[want[call.key]] < sq'.length
    BY <1>3, <1>4, <1>5, <1>6
  <2> QED
    BY <1>6, <2>1 DEF Progress, Reading, Cached, Unsent
<1> QED
  BY <1>7, <1>8

(***************************************************************************)
(* The adapters                                                            *)
(***************************************************************************)

\* A small set counts from when it is in the server's buffer.
LEMMA SendRight ==
  ASSUME RInv, Connected, SendDelivered
  PROVE  (Contents /\ Progress)'
<1>1. SInv /\ Contents /\ Progress /\ sq # NULL /\ sq.opcode = "SEND" /\ ctx_buf = NULL
  BY DEF RInv, SendDelivered, Posted, Receive
<1>2. /\ Quiet
      /\ \/ pc = "eager_set" /\ call \in SetCalls /\ sq = Send(EagerSet)
         \/ pc = "rndv_set" /\ call \in SetCalls /\ sq = Send(RndvSet)
         \/ pc = "get" /\ call \in GetCalls /\ sq = Send(Get)
         \/ pc = "close" /\ sq = Send(CloseRequest)
  BY <1>1, PostedRequest
<1>3. /\ UNCHANGED <<entries, value, val_len, large_val_mem_info, rndv_buffer>>
      /\ UNCHANGED <<want, call, pc, reply, response>>
      /\ UNCHANGED <<last_rndv_accessed_key, last_accessed_key_val_length>>
      /\ ctx_buf' = sq.packet
  BY DEF SendDelivered, Completed, Receive, notCtxBuf, entryVars, cacheVars
<1>4. CASE pc = "eager_set"
  <2>1. /\ ctx_buf' = EagerSet /\ call.key \in Keys /\ InSet(call.key)
        /\ ctx_buf' # NULL
    <3>1. ctx_buf' = EagerSet /\ call \in SetCalls
      BY <1>2, <1>3, <1>4 DEF Send
    <3>2. EagerSet \in Requests
      BY <3>1 DEF SetCalls, EagerSet, Requests, EagerSetRequest
    <3> QED
      BY <1>4, <3>1, <3>2, SessionAssumption DEF SetCalls, InSet
  <2>2. ASSUME NEW k \in Keys, ~InSet(k) PROVE SameKey(k) /\ SameCache(k)
    BY <1>1, <1>3, <1>4, <2>1, <2>2 DEF SameKey, Pending, SameCache, Cached,
       EagerSet, InSet
  <2>3. Contents'
    BY <1>1, <1>3, <2>2, HeldKept DEF Contents, InSet
  <2>4. Stored(call.key, call.value)'
    BY <1>3, <2>1 DEF Stored, Pending, EagerSet
  <2> QED
    BY <1>3, <1>4, <2>3, <2>4 DEF Progress
<1>5. CASE pc # "eager_set"
  <2>1. ~(ctx_buf'.type = "EAGER_SET_REQUEST")
    BY <1>2, <1>3, <1>5 DEF Send, RndvSet, Get, CloseRequest
  <2>2. ASSUME NEW k \in Keys PROVE SameKey(k) /\ SameCache(k)
    BY <1>1, <1>3, <2>1 DEF SameKey, Pending, SameCache, Cached
  <2>3. Contents'
    BY <1>1, <1>3, <2>2, HeldKept DEF Contents, InSet
  <2>4. reply = NULL /\ response = NULL /\ pc \in {"rndv_set", "get", "close"}
    BY <1>2, <1>5 DEF Quiet
  <2>5. Progress'
    BY <1>1, <1>3, <2>4 DEF Progress, AnswersRight, Eager
  <2> QED
    BY <2>3, <2>5
<1> QED
  BY <1>4, <1>5

\* A large value counts from when it is written to the block of its key; no
\* other key has that block.
LEMMA WriteRight ==
  ASSUME RInv, Connected, WriteDone
  PROVE  (Contents /\ Progress)'
<1>1. /\ SInv /\ Contents /\ Progress /\ sq # NULL /\ sq.opcode = "RDMA_WRITE"
      /\ sq.opcode # "SEND"
  BY DEF RInv, WriteDone, Posted
<1>2. /\ Unsent /\ pc = "write" /\ call \in SetCalls /\ sq.addr = last_accessed_server_addr
      /\ call.key \in Keys /\ InSet(call.key)
  BY <1>1, PostedRequest DEF SetCalls, InSet
<1>3. /\ Room(call.key, call.value) /\ Cached(call.key) /\ sq.value = call.value
      /\ last_accessed_key_val_length = ValLen[call.value]
  BY <1>1, <1>2 DEF Progress, Writing, Sent, Unsent
<1>4. large_val_mem_info[call.key] = sq.addr /\ sq.addr \in Blocks
  BY <1>1, <1>2, <1>3, CachedKey DEF Holds
<1>5. /\ UNCHANGED <<entries, value, val_len, large_val_mem_info, ctx_buf>>
      /\ UNCHANGED <<want, call, pc, last_rndv_accessed_key, last_accessed_key_val_length>>
      /\ rndv_buffer' = [rndv_buffer EXCEPT ![sq.addr] = call.value]
      /\ sq' = NULL /\ scnt' = scnt + 1 /\ wc_error' = wc_error
  BY <1>3 DEF WriteDone, Completed, RdmaWrite, notBuffer, entryVars, cacheVars
<1>6. rndv_buffer \in [Blocks -> Values \cup {Zero}]
  BY <1>1 DEF SInv, IndInv, TypeOK
<1>7. ASSUME NEW k \in Keys, k # call.key PROVE SameKey(k) /\ SameCache(k)
  <2>1. ASSUME k \in entries, value[k] = NULL PROVE large_val_mem_info[k] # sq.addr
    <3>1. large_val_mem_info[k] \in Blocks
      BY <1>1, <2>1, BlockOwned
    <3> QED
      BY <1>1, <1>2, <1>4, <1>7, <3>1, ServerAssumption DEF SInv, IndInv,
         NoSharedBlock
  <2> QED
    BY <1>5, <1>6, <2>1 DEF SameKey, SameCache, Pending, Cached
<1>8. Contents'
  <2>1. ASSUME NEW k \in Keys, ~InSet(k)' PROVE k # call.key /\ ~InSet(k)
    BY <1>2, <1>5, <2>1 DEF InSet
  <2> QED
    BY <1>1, <1>5, <1>7, <2>1, HeldKept DEF Contents
<1>9. Progress'
  <2>1. Room(call.key, call.value)' /\ Cached(call.key)'
    BY <1>3, <1>5 DEF Room, Cached, Eager
  <2>2. InBlock(call.key, call.value)'
    BY <1>4, <1>5, <1>6, <2>1 DEF InBlock
  <2>3. Sent'
    BY <1>2, <1>5 DEF Sent, Unsent
  <2> QED
    BY <1>2, <1>3, <1>5, <2>1, <2>2, <2>3 DEF Progress, Writing
<1> QED
  BY <1>8, <1>9

\* A read finds the whole value.
LEMMA ReadRight ==
  ASSUME RInv, Connected, LargeAlike, ReadDone
  PROVE  (Contents /\ Progress)'
<1>1. /\ SInv /\ Contents /\ Progress /\ sq # NULL /\ sq.opcode = "RDMA_READ"
      /\ sq.opcode # "SEND"
  BY DEF RInv, ReadDone, Posted
<1>2. /\ Unsent /\ pc = "read" /\ call \in GetCalls /\ sq.addr = last_accessed_server_addr
      /\ call.key \in Keys /\ (\A k : ~InSet(k)) /\ sq.length \in Nat
  BY <1>1, PostedRequest DEF GetCalls, InSet
<1>3. /\ Cached(call.key) /\ sq.length >= ValLen[want[call.key]]
      /\ sq.length < sq.size \/ ValLen[want[call.key]] < sq.length
  BY <1>1, <1>2 DEF Progress, Reading, Sent, Unsent
<1>4. want[call.key] \in Values /\ InBlock(call.key, want[call.key])
  BY <1>2, <1>3, CachedRoom
<1>5. rndv_buffer[sq.addr] = want[call.key]
  BY <1>1, <1>2, <1>3, <1>4, CachedKey DEF Holds, InBlock
<1>6. ValLen[want[call.key]] \in Nat /\ ValLen[want[call.key]] > 0
  BY <1>2, <1>4, ServerAssumption DEF InBlock, Room, LargeAlike
<1>7. result' = Whole(want[call.key])
  <2>1. sq.length # 0
    BY <1>2, <1>3, <1>6
  <2>2. result' \in StringsIn(want[call.key], sq.length, sq.size)
    BY <1>5, <2>1 DEF ReadDone
  <2>3. result' = Cut(want[call.key], sq.length)
    BY <1>3, <1>4, <2>2 DEF StringsIn, StrLen
  <2> QED
    BY <1>2, <1>3, <1>4, <1>6, <2>3 DEF Cut, Whole, StrLen
<1>8. /\ UNCHANGED <<entries, value, val_len, large_val_mem_info, rndv_buffer, ctx_buf>>
      /\ UNCHANGED <<want, call, pc, last_rndv_accessed_key, last_accessed_key_val_length>>
      /\ sq' = NULL /\ scnt' = scnt + 1 /\ wc_error' = wc_error
  BY DEF ReadDone, Completed, serverVars, entryVars, cacheVars
<1>9. ASSUME NEW k \in Keys PROVE SameKey(k) /\ SameCache(k)
  BY <1>8 DEF SameKey, Pending, SameCache, Cached
<1>10. Contents'
  BY <1>1, <1>2, <1>8, <1>9, HeldKept DEF Contents
<1>11. Progress'
  <2>1. Sent' /\ Cached(call.key)'
    BY <1>2, <1>3, <1>8 DEF Sent, Unsent, Cached
  <2>2. Reading'
    BY <1>7, <1>8, <2>1 DEF Reading, Whole, Cut, StrLen
  <2> QED
    BY <1>2, <1>8, <2>2 DEF Progress
<1> QED
  BY <1>10, <1>11

\* The delivery of a response changes no value.
LEMMA ResponseRight ==
  ASSUME RInv, Connected, ResponseDelivered
  PROVE  (Contents /\ Progress)'
<1>1. /\ SInv /\ Contents /\ Progress /\ reply # NULL
      /\ pc \in {"rndv_set", "get"}
  BY AnswerOnTheWay DEF RInv, ResponseDelivered
<1>2. /\ UNCHANGED <<entries, value, val_len, large_val_mem_info, rndv_buffer, ctx_buf>>
      /\ UNCHANGED <<want, call, pc, last_rndv_accessed_key, last_accessed_key_val_length>>
      /\ reply' = NULL /\ response' = reply
  BY DEF ResponseDelivered, notReply, entryVars, cacheVars
<1>3. ASSUME NEW k \in Keys PROVE SameKey(k) /\ SameCache(k)
  BY <1>2 DEF SameKey, Pending, SameCache, Cached
<1>4. Contents'
  BY <1>1, <1>2, <1>3, HeldKept DEF Contents, InSet
<1>5. Progress'
  BY <1>1, <1>2 DEF Progress, AnswersRight, Right, Room, Eager
<1> QED
  BY <1>4, <1>5

(***************************************************************************)
(* The invariant                                                           *)
(***************************************************************************)

\* A connection that is lost does not come back.
LEMMA StaysLost ==
  ASSUME [SessionNext]_sessionVars, Connected'
  PROVE  Connected
<1>1. CASE ServerStep /\ UNCHANGED clientVars
  BY <1>1 DEF ServerStep, ReclaimTainted, RefillPool, RegisterFails,
     MaintainDone, HandleEagerGet,
     HandleEagerSet, HandleRndvSet, RndvSetCrashes, HandleClose, Handling, Connected, ServerAlive,
     clientVars
<1>2. CASE ClientStep
  BY <1>2 DEF ClientStep, SetGotAddress, SetAborts, SetReturns, GetSmall,
     GetAbsent, GetLarge,
     GetErrs, GetReturns, Return, CloseReturns, Answered, Connected, ServerAlive, serverVars
<1>3. CASE ClientCall
  <2>1. pc = "idle" /\ srv' = srv /\ qp_error' = qp_error
    <3>1. ASSUME NEW k, NEW v, SetEager(k, v) \/ SetCached(k, v) \/ SetRendezvous(k, v)
          PROVE  pc = "idle" /\ srv' = srv /\ qp_error' = qp_error
      BY <3>1 DEF SetEager, SetCached, SetRendezvous, serverVars, Idle
    <3>2. ASSUME NEW k, GetRequest(k) \/ GetCached(k)
          PROVE  pc = "idle" /\ srv' = srv /\ qp_error' = qp_error
      BY <3>2 DEF GetRequest, GetCached, serverVars, Idle
    <3>3. ASSUME Close PROVE pc = "idle" /\ srv' = srv /\ qp_error' = qp_error
      BY <3>3 DEF Close, serverVars, Idle
    <3> QED
      BY <1>3, <3>1, <3>2, <3>3 DEF ClientCall
  <2> QED
    BY <2>1 DEF Connected, ServerAlive
<1>4. CASE NetworkStep
  BY <1>4 DEF NetworkStep, SendDelivered, WriteDone, ReadDone, RequestFails,
     ResponseDelivered,
     ResponseLost, Completed, Receive, notCtxBuf, notBuffer, notReply, Connected, ServerAlive,
     serverVars, clientVars
<1>5. CASE UNCHANGED sessionVars
  BY <1>5 DEF sessionVars, serverVars, clientVars, Connected, ServerAlive
<1> QED
  BY <1>1, <1>2, <1>3, <1>4, <1>5 DEF SessionNext

\* A session starts with nothing set.
LEMMA InitRight == ASSUME FitsRegions, SessionInit PROVE RInv
<1>1. SInv
  BY InitSession
<1>2. Contents
  BY DEF SessionInit, ServerInit, Contents, Held, Absent, Pending
<1>3. Progress
  BY DEF SessionInit, Progress
<1> QED
  BY <1>1, <1>2, <1>3 DEF RInv

\* Each step of a session keeps every value where a get will find it.
LEMMA StepRight ==
  ASSUME FitsRegions, LargeAlike, RInv, [SessionNext]_sessionVars
  PROVE  RInv'
<1>1. SInv'
  BY StepSession DEF RInv
<1> SUFFICES ASSUME Connected' PROVE (Contents /\ Progress)'
  BY <1>1 DEF RInv
<1>2. Connected
  BY StaysLost
<1>3. CASE ServerStep /\ UNCHANGED clientVars
  <2>1. CASE RegisterFails \/ RndvSetCrashes \/ HandleClose
    BY <2>1 DEF RegisterFails, RndvSetCrashes, HandleClose, Connected, ServerAlive
  <2> QED
    BY <1>2, <1>3, <2>1, ReclaimRight, RefillRight, MaintainDoneRight,
       EagerGetRight, EagerSetRight,
       RndvSetRight
    DEF ServerStep
<1>4. CASE ClientStep
  <2>1. CASE SetAborts \/ CloseReturns
    BY <2>1 DEF SetAborts, CloseReturns, Connected
  <2> QED
    BY <1>2, <1>4, <2>1, SetGotAddressRight, SetReturnsRight, GetEndsRight,
       GetLargeRight
    DEF ClientStep
<1>5. CASE ClientCall
  <2>1. CASE Close
    BY <1>2, <2>1, CloseRight
  <2>2. CASE \E k \in Asked : GetRequest(k) \/ GetCached(k)
    BY <1>2, <2>2, GetRequestRight, GetCachedRight, SessionAssumption
  <2>3. ASSUME NEW w \in Workload,
               SetEager(w[1], w[2]) \/ SetCached(w[1], w[2]) \/ SetRendezvous(w[1], w[2])
        PROVE  (Contents /\ Progress)'
    <3>1. w[1] \in Keys /\ w[2] \in Values
      BY SessionAssumption
    <3> QED
      BY <1>2, <2>3, <3>1, SetEagerRight, SetCachedRight, SetRendezvousRight
  <2> QED
    BY <1>5, <2>1, <2>2, <2>3 DEF ClientCall
<1>6. CASE NetworkStep
  <2>1. CASE RequestFails \/ ResponseLost
    BY <1>2, <2>1 DEF RequestFails, ResponseLost, Connected
  <2> QED
    BY <1>2, <1>6, <2>1, SendRight, WriteRight, ReadRight, ResponseRight
    DEF NetworkStep
<1>7. CASE UNCHANGED sessionVars
  <2>1. UNCHANGED <<entryVars, ctx_buf, reply, clientVars, rndv_buffer>>
    BY <1>7 DEF sessionVars, serverVars
  <2> QED
    BY <1>2, <2>1, MaintainRight
<1> QED
  BY <1>3, <1>4, <1>5, <1>6, <1>7 DEF SessionNext

(***************************************************************************)
(* The refinement.  Under RInv the abstract store is what the caller set.  *)
(***************************************************************************)
Wanted(k) == IF want[k] = NULL THEN NULL ELSE Whole(want[k])

\* What a get would find is what the caller set last.
LEMMA FindsWanted ==
  ASSUME RInv, Connected, NEW k \in Keys, ~InSet(k)
  PROVE  View(k) = Wanted(k)
<1>1. SInv /\ Held(k)
  BY DEF RInv, Contents
<1>2. CASE want[k] = NULL
  <2>1. ~Pending(k) /\ k \notin entries
    BY <1>1, <1>2 DEF Held, Absent
  <2>2. ~Cached(k)
    BY <1>1, <2>1, CachedKey DEF Holds
  <2> QED
    BY <1>2, <2>1, <2>2 DEF View, Wanted, Pending
<1>3. CASE want[k] # NULL
  <2>1. Stored(k, want[k]) /\ want[k] \in Values /\ ValLen[want[k]] \in Nat
    BY <1>1, <1>3, ServerAssumption DEF Held, SInv, Session, SessionTypeOK
  <2>2. CASE Pending(k)
    BY <1>3, <2>1, <2>2 DEF View, Wanted, Pending, Stored
  <2>3. CASE ~Pending(k) /\ Cached(k)
    <3>1. /\ last_accessed_server_addr = large_val_mem_info[k]
          /\ last_accessed_server_addr # NULL
      BY <1>1, <2>3, CachedKey, ServerAssumption DEF Holds
    <3>2. InBlock(k, want[k]) /\ last_accessed_key_val_length >= ValLen[want[k]]
      BY <2>3, CachedRoom
    <3>3. last_accessed_key_val_length \in Nat
      BY <1>1 DEF SInv, Session, SessionTypeOK
    <3>4. View(k) = Cut(want[k], last_accessed_key_val_length)
      BY <2>3, <3>1, <3>2 DEF View, Pending, InBlock
    <3> QED
      BY <1>3, <2>1, <3>2, <3>3, <3>4 DEF Wanted, Whole, Cut, StrLen
  <2>4. CASE ~Pending(k) /\ ~Cached(k) /\ value[k] = want[k]
    <3>1. k \in entries
      BY <1>3, <2>1, <2>4 DEF Stored, InBlock, Room
    <3> QED
      BY <1>3, <2>4, <3>1 DEF View, Wanted, Pending
  <2>5. CASE ~Pending(k) /\ ~Cached(k) /\ InBlock(k, want[k])
    <3>1. View(k) = Cut(want[k], ValLen[want[k]] + 1 + 1)
      BY <2>5 DEF View, Pending, InBlock, Room
    <3> QED
      BY <1>3, <2>1, <3>1 DEF Wanted, Whole, Cut, StrLen
  <2> QED
    BY <2>1, <2>2, <2>3, <2>4, <2>5 DEF Stored
<1> QED
  BY <1>2, <1>3

StoredRight == StoredNow = [k \in Keys |-> IF Connected THEN Wanted(k) ELSE NULL]

\* The abstract store is what the caller has set.
LEMMA StoredIsWanted == RInv => StoredRight
BY FindsWanted DEF StoredRight, StoredNow, Wanted

\* The same in both states of a step.
LEMMA StoredBefore == RInv /\ RInv' => StoredRight /\ StoredRight'
BY StoredIsWanted, PTL

\* A call that begins is one of the abstract calls.
LEMMA BeginMaps ==
  ASSUME RInv, RInv', Connected, Connected', ClientCall
  PROVE  \E c \in Store!Calls : Store!Begin(c)
<1>1. /\ pc = "idle" /\ pc' \notin {"idle", "return"} /\ want' = want
      /\ \/ \E k \in Keys, v \in Values : call' = SetCall(k, v)
         \/ \E k \in Keys : call' = GetCall(k)
         \/ call' = [name |-> "close"]
  <2>1. ASSUME NEW w \in Workload,
               SetEager(w[1], w[2]) \/ SetCached(w[1], w[2]) \/ SetRendezvous(w[1], w[2])
        PROVE  /\ pc = "idle" /\ pc' \notin {"idle", "return"} /\ want' = want
               /\ \E k \in Keys, v \in Values : call' = SetCall(k, v)
    <3>1. w[1] \in Keys /\ w[2] \in Values
      BY SessionAssumption
    <3> QED
      BY <2>1, <3>1 DEF SetEager, SetCached, SetRendezvous, Idle
  <2>2. ASSUME NEW k \in Asked, GetRequest(k) \/ GetCached(k)
        PROVE  /\ pc = "idle" /\ pc' \notin {"idle", "return"} /\ want' = want
               /\ k \in Keys /\ call' = GetCall(k)
    BY <2>2, SessionAssumption DEF GetRequest, GetCached, Idle
  <2>3. ASSUME Close
        PROVE  /\ pc = "idle" /\ pc' \notin {"idle", "return"} /\ want' = want
               /\ call' = [name |-> "close"]
    BY <2>3 DEF Close, Idle
  <2> QED
    BY <2>1, <2>2, <2>3 DEF ClientCall
<1>2. CallNow' \in Store!Calls
  <2>1. ASSUME NEW k \in Keys, NEW v \in Values, call' = SetCall(k, v)
        PROVE  CallNow' = [name |-> "set", key |-> k, value |-> Whole(v)]
    <3>1. call' # NULL /\ call' = [name |-> "set", key |-> k, value |-> v]
      BY <2>1, SessionAssumption DEF SetCall
    <3> QED
      BY <3>1 DEF CallNow, Whole, Cut, StrLen
  <2>2. ASSUME NEW k \in Keys, call' = GetCall(k)
        PROVE  CallNow' = [name |-> "get", key |-> k]
    BY <2>2, SessionAssumption DEF CallNow, GetCall
  <2>3. ASSUME call' = [name |-> "close"] PROVE CallNow' = [name |-> "close"]
    BY <2>3, SessionAssumption DEF CallNow
  <2> QED
    BY <1>1, <2>1, <2>2, <2>3 DEF Store!Calls
<1>3. StoredNow' = StoredNow
  BY <1>1, StoredBefore DEF StoredRight, Wanted, Whole, Cut, StrLen
<1>4. PhaseNow = "idle" /\ PhaseNow' = "called" /\ AnswerNow = NULL /\ AnswerNow' = NULL
  BY <1>1 DEF PhaseNow, AnswerNow, Idle
<1> QED
  BY <1>2, <1>3, <1>4 DEF Store!Begin

\* A set takes effect when it returns.
LEMMA SetMaps ==
  ASSUME RInv, RInv', Connected, Connected', SetReturns
  PROVE  Store!ApplySet
<1>1. /\ pc \in {"eager_set", "write"} /\ call \in SetCalls
  BY DEF RInv, SInv, Session, Phases, EagerSetPhase, SetReturns
<1>2. /\ call.key \in Keys /\ call.value \in Values /\ call.name = "set" /\ call # NULL
      /\ call = [name |-> "set", key |-> call.key, value |-> call.value]
  BY <1>1, SessionAssumption DEF SetCalls
<1>3. CallNow = [name |-> "set", key |-> call.key, value |-> Whole(call.value)]
  BY <1>2 DEF CallNow, Whole, Cut, StrLen
<1>4. CallNow' = CallNow
  BY DEF SetReturns, CallNow, Whole, Cut, StrLen
<1>5. StoredNow' = [StoredNow EXCEPT ![call.key] = Whole(call.value)]
  <2>1. want' = [want EXCEPT ![call.key] = call.value] /\ call.value # NULL
    BY <1>2, ServerAssumption DEF SetReturns
  <2>2. want \in [Keys -> Values \cup {NULL}]
    BY DEF RInv, SInv, Session, SessionTypeOK
  <2>3. ASSUME NEW k \in Keys
        PROVE  Wanted(k)' = IF k = call.key THEN Whole(call.value) ELSE Wanted(k)
    BY <1>2, <2>1, <2>2 DEF Wanted, Whole, Cut, StrLen
  <2> QED
    BY <1>2, <2>3, StoredBefore DEF StoredRight
<1>6. PhaseNow = "called" /\ PhaseNow' = "done" /\ AnswerNow = NULL /\ AnswerNow' = NULL
  BY <1>1, <1>2 DEF SetReturns, PhaseNow, AnswerNow, Idle
<1> QED
  BY <1>3, <1>4, <1>5, <1>6 DEF Store!ApplySet

\* A get takes effect when it returns, with the value last set.
LEMMA GetMaps ==
  ASSUME RInv, RInv', Connected, Connected', pc' = "return",
         GetSmall \/ GetAbsent \/ GetErrs \/ GetReturns
  PROVE  Store!ApplyGet
<1>1. SInv /\ Progress
  BY DEF RInv
<1>2. pc \in {"get", "read"} /\ call \in GetCalls /\ call' = call /\ want' = want
  <2>1. pc \in {"get", "read"} /\ call' = call /\ want' = want
    BY DEF GetSmall, GetAbsent, GetErrs, GetReturns, Answered
  <2> QED
    BY <1>1, <2>1 DEF SInv, Session, Phases, GetPhase
<1>3. /\ call.key \in Keys /\ call.name = "get" /\ call # NULL
  BY <1>2, SessionAssumption DEF GetCalls
<1>4. CallNow = call /\ CallNow' = call
  BY <1>2, <1>3 DEF CallNow
<1>5. StoredNow' = StoredNow /\ StoredNow[call.key] = Wanted(call.key)
  BY <1>2, <1>3, StoredBefore DEF StoredRight, Wanted, Whole, Cut, StrLen
<1>6. PhaseNow = "called" /\ PhaseNow' = "done" /\ AnswerNow' = result'
  BY <1>2, <1>3 DEF PhaseNow, AnswerNow, Idle
<1>7. \/ result' = Wanted(call.key) /\ want[call.key] # NULL
      \/ want[call.key] = NULL /\ result' \in {Empty, <<Garbage, 0>>}
  <2>1. want[call.key] \in Values \cup {NULL}
    BY <1>1, <1>3 DEF SInv, Session, SessionTypeOK
  <2>2. CASE GetSmall
    <3>1. pc = "get" /\ response # NULL /\ response.type = "EAGER_GET_RESPONSE"
      BY <2>2 DEF GetSmall, Answered, ResponseIs
    <3>2. want[call.key] = response.value /\ GetAnswer(response)
      <4>1. ~wc_error
        BY <1>1, <3>1, ErrorCame DEF Quiet
      <4> QED
        BY <1>1, <2>2, <3>1, <4>1, AnswerCame
        DEF Progress, AnswersRight, Right, GetSmall, Answered
    <3>3. response.value \in Values
      BY <3>1, <3>2 DEF GetAnswer, EagerGetResponse, ShortGetResponse,
         RndvGetResponse
    <3>4. result' = Whole(response.value)
      BY <2>2 DEF GetSmall
    <3> QED
      BY <3>2, <3>3, <3>4, ServerAssumption DEF Wanted
  <2>3. CASE GetAbsent
    BY <1>1, <2>3 DEF GetAbsent, Answered, ResponseIs, Progress, AnswersRight, Right
  <2>4. CASE GetErrs
    <3>1. pc = "get" /\ WaitOver(2)
          /\ (response = NULL \/ ResponseIs("RENDEZVOUS_SET_RESPONSE"))
      BY <2>4 DEF GetErrs
    <3>2. ~wc_error
      BY <1>1, <3>1, ErrorCame DEF Failed, Connected
    <3>3. GetAnswer(response)
      BY <1>1, <3>1, <3>2, AnswerCame
    <3>4. NULL \notin Responses
      BY SessionAssumption
    <3> QED
      BY <3>1, <3>3, <3>4 DEF GetAnswer, ResponseIs, EagerGetResponse,
         ShortGetResponse,
         RndvGetResponse, Responses
  <2>5. CASE GetReturns
    <3>1. pc = "read" /\ WaitOver(1) /\ result' = result
      BY <2>5 DEF GetReturns
    <3>2. Sent
      BY <1>1, <3>1, OneCompletion DEF Failed, Connected
    <3>3. Cached(call.key) /\ result = Whole(want[call.key])
      BY <1>1, <3>1, <3>2 DEF Progress, Reading, Sent, Unsent
    <3>4. want[call.key] \in Values
      BY <1>3, <3>1, <3>3, CachedRoom DEF InSet
    <3> QED
      BY <3>1, <3>3, <3>4, ServerAssumption DEF Wanted
  <2> QED
    BY <2>2, <2>3, <2>4, <2>5
<1>8. want[call.key] # NULL => Wanted(call.key) \in {Whole(v) : v \in Values}
  BY <1>1, <1>3 DEF SInv, Session, SessionTypeOK, Wanted
<1> QED
  BY <1>3, <1>4, <1>5, <1>6, <1>7, <1>8 DEF Store!ApplyGet, Wanted

\* Every step of a connected session that is none of these is unseen.
Inner ==
  \/ ServerStep /\ UNCHANGED clientVars
  \/ SetGotAddress \/ GetLarge
  \/ SendDelivered \/ WriteDone \/ ReadDone \/ ResponseDelivered
  \/ UNCHANGED sessionVars

\* The steps between the beginning and the end of a call do not show in the
\* abstract store.
LEMMA InnerMaps ==
  ASSUME RInv, RInv', Connected, Connected', Inner
  PROVE  UNCHANGED Store!storeVars
<1>1. /\ call' = call /\ want' = want
      /\ \/ pc' = pc /\ (pc = "return" => result' = result)
         \/ {pc, pc'} \subseteq {"rndv_set", "write", "get", "read"}
  <2>1. CASE ServerStep /\ UNCHANGED clientVars
    BY <2>1 DEF clientVars
  <2>2. CASE SetGotAddress \/ GetLarge
    BY <2>2 DEF SetGotAddress, GetLarge, Answered
  <2>3. CASE SendDelivered \/ WriteDone \/ ResponseDelivered
    BY <2>3 DEF SendDelivered, WriteDone, ResponseDelivered, Completed
  <2>4. CASE ReadDone
    <3>1. pc = "read"
      BY <2>4, PostedRequest DEF RInv, ReadDone, Posted
    <3> QED
      BY <2>4, <3>1 DEF ReadDone, Completed
  <2>5. CASE UNCHANGED sessionVars
    BY <2>5 DEF sessionVars, clientVars
  <2> QED
    BY <2>1, <2>2, <2>3, <2>4, <2>5 DEF Inner
<1>2. StoredNow' = StoredNow
  BY <1>1, StoredBefore DEF StoredRight, Wanted, Whole, Cut, StrLen
<1>3. CallNow' = CallNow
  BY <1>1 DEF CallNow, Whole, Cut, StrLen
<1>4. PhaseNow' = PhaseNow /\ AnswerNow' = AnswerNow
  BY <1>1 DEF PhaseNow, AnswerNow, Idle
<1> QED
  BY <1>2, <1>3, <1>4 DEF Store!storeVars

\* A session starts as an empty store.
LEMMA InitMaps == ASSUME FitsRegions, SessionInit PROVE Store!Init
<1>1. Connected /\ call = NULL /\ pc = "idle" /\ \A k \in Keys : want[k] = NULL
  BY DEF SessionInit, ServerInit, Connected, ServerAlive
<1>2. StoredNow = [k \in Keys |-> NULL]
  BY <1>1, InitRight, StoredIsWanted DEF StoredRight, Wanted
<1> QED
  BY <1>1, <1>2 DEF Store!Init, CallNow, PhaseNow, AnswerNow, Idle

\* Each step of a session is a step of the abstract store or none.
LEMMA StepMaps ==
  ASSUME RInv, RInv', [SessionNext]_sessionVars
  PROVE  [Store!Next]_Store!storeVars
<1>1. CASE ~Connected
  <2>1. ~Connected'
    BY <1>1, StaysLost
  <2>2. StoredNow' = StoredNow
    BY <1>1, <2>1 DEF StoredNow
  <2>3. CallNow' = CallNow
    BY <1>1, <2>1 DEF CallNow
  <2>4. PhaseNow' = PhaseNow
    BY <1>1, <2>1 DEF PhaseNow
  <2>5. AnswerNow' = AnswerNow
    BY <1>1, <2>1 DEF AnswerNow
  <2>6. Connected' = Connected
    BY <1>1, <2>1 DEF Connected
  <2> QED
    BY <2>2, <2>3, <2>4, <2>5, <2>6 DEF Store!storeVars
<1>2. CASE Connected /\ ~Connected'
  BY <1>2 DEF Store!Next, Store!Break, StoredNow, CallNow, PhaseNow, AnswerNow
<1>3. CASE Connected /\ Connected'
  <2>1. CASE ClientCall
    BY <1>3, <2>1, BeginMaps DEF Store!Next
  <2>2. CASE SetReturns
    BY <1>3, <2>2, SetMaps DEF Store!Next
  <2>3. CASE GetSmall \/ GetAbsent \/ GetErrs \/ GetReturns
    <3>1. pc' = "return"
      BY <1>3, <2>3 DEF GetSmall, GetAbsent, GetErrs, GetReturns, Connected
    <3> QED
      BY <1>3, <2>3, <3>1, GetMaps DEF Store!Next
  <2>4. CASE Return
    <3>1. pc = "return" /\ pc' = "idle" /\ call' = NULL /\ want' = want
      BY <2>4 DEF Return
    <3>2. StoredNow' = StoredNow
      BY <1>3, <3>1, StoredBefore DEF StoredRight, Wanted, Whole, Cut, StrLen
    <3> QED
      BY <1>3, <3>1, <3>2 DEF Store!Next, Store!Return, CallNow, PhaseNow,
         AnswerNow, Idle
  <2>5. CASE Inner
    BY <1>3, <2>5, InnerMaps
  <2>6. ~SetAborts /\ ~CloseReturns /\ ~RequestFails /\ ~ResponseLost
    BY <1>3 DEF SetAborts, CloseReturns, RequestFails, ResponseLost, Connected
  <2> QED
    BY <2>1, <2>2, <2>3, <2>4, <2>5, <2>6 DEF SessionNext, ClientStep,
       NetworkStep, Inner
<1> QED
  BY <1>1, <1>2, <1>3

(***************************************************************************)
(* Theorems                                                                *)
(***************************************************************************)

\* Every value is where a get will find it.
THEOREM SessionHolds == ASSUME FitsRegions, LargeAlike PROVE SessionSpec => []RInv
<1>1. SessionInit => RInv
  BY InitRight
<1>2. RInv /\ [SessionNext]_sessionVars => RInv'
  BY StepRight
<1> QED
  BY <1>1, <1>2, PTL DEF SessionSpec

\* A session implements the abstract store: a get returns what the last set of
\* its key stored, until the connection is closed or fails.
THEOREM SessionImplementsStore ==
  ASSUME FitsRegions, LargeAlike PROVE SessionSpec => ImplementsStore
<1>1. SessionInit => Store!Init
  BY InitMaps
<1>2. RInv /\ RInv' /\ [SessionNext]_sessionVars => [Store!Next]_Store!storeVars
  BY StepMaps
<1> QED
  BY <1>1, <1>2, SessionHolds, PTL DEF SessionSpec, ImplementsStore, Store!Spec
=============================================================================
