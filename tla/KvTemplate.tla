------------------------------ MODULE KvTemplate ------------------------------
(***************************************************************************)
(* The key-value store of Ex3 (kv_template.c), from which Ex4 grew: one    *)
(* client and one server, two lists in the server (a small value is copied *)
(* into its node, a large one is written into a memory region of its own)  *)
(* and a client that remembers the region of every key it has set.  Which  *)
(* protocol is used depends on a global flag first, on the size second.    *)
(*                                                                         *)
(* Values are C strings.  A buffer is the value written into it last and   *)
(* the positions that hold a NUL, which is all that strcmp can tell.       *)
(***************************************************************************)
EXTENDS Integers, Sequences, FiniteSets, FiniteSetsExt

CONSTANTS
  Keys, Values, ValLen, \* the length of every value
  Big,                \* values that do not fit in a packet
  KEY_LEN,            \* all keys are of one length
  MAX_TEST_SIZE,      \* the bytes of remote_buf and of a region
  MIN_POOL_NODES,
  Mangled, NULL

Positions == 0 .. MAX_TEST_SIZE - 1

\* What a caller asks for.
Calls == [name : {"set"}, key : Keys, value : Values]
         \cup [name : {"get"}, key : Keys] \cup [name : {"close"}]

\* The packets, the RDMA requests, and where a client finds the value of a key.
Requests ==
  [type : {"EAGER_SET_REQUEST"}, key : Keys, value : Values]
  \cup [type : {"EAGER_GET_REQUEST", "RENDEZVOUS_SET_REQUEST", "RENDEZVOUS_GET_REQUEST"},
        key : Keys]
  \cup [type : {"CLOSE_CONNECTION"}]

Responses ==
  [type : {"EAGER_GET_RESPONSE"}, len : Nat, val : Values, nul : SUBSET Nat]
  \cup [type : {"RENDEZVOUS_SET_RESPONSE"}, at : Nat] \cup [type : {"NO_LENGTH"}]

RdmaRequests ==
  [type : {"WRITE"}, at : Nat, val : Values, size : Nat]
  \cup [type : {"READ"}, at : Nat, size : Nat]

Addresses == [at : Nat, len : Nat]

ASSUME TemplateAssumption ==
  /\ ValLen \in [Values -> Nat \ {0}] /\ Big \subseteq Values
  /\ MAX_TEST_SIZE \in Nat /\ \A v \in Values : ValLen[v] < MAX_TEST_SIZE
  /\ KEY_LEN \in 1 .. MAX_TEST_SIZE - 1 /\ MIN_POOL_NODES \in Nat \ {0, 1}
  /\ {NULL, Mangled} \cap (Keys \cup Values) = {} /\ NULL # Mangled
  /\ NULL \notin Calls \cup Requests \cup Responses \cup RdmaRequests \cup Addresses \cup Nat

VARIABLES
  caller,           \* "tests": run_throuput_tests; "any": a caller of its own
  pc, got,          \* the client; completions counted by the current wait
  call, result, last, \* its call, what a get returned, what each key was set to
  use_rndv_protocol, todo, testing, \* the phase, its keys, the key just set
  cache,            \* per key: region and val_len
  remote,           \* NUL positions of remote_buf, what was read, from where
  cq,               \* completions of the client that nobody has polled
  out, acking, buf, \* its posted request; one not yet acknowledged; ctx->buf
  srv, inbox, reply,\* the server, its receive buffer, its answer on the wire
  nodes,            \* the list from kv_head: key, value, val_len, NULs
  pool, rndv, region,\* free regions, used regions, and what they hold
  wild              \* the last free node's next is neither set nor NULL

clientVars == <<caller, pc, got, call, result, last, use_rndv_protocol, todo, testing,
                cache, remote>>
netVars == <<cq, out, acking, buf, reply>>
serverVars == <<srv, inbox, nodes, pool, rndv, region, wild>>
vars == <<clientVars, netVars, serverVars>>

Cleared == [val |-> NULL, nul |-> Positions]

Init ==
  /\ caller \in {"tests", "any"}
  /\ pc = "idle" /\ got = 0
  /\ call = NULL /\ result = NULL /\ last = [k \in Keys |-> NULL]
  /\ use_rndv_protocol = FALSE /\ todo = Keys /\ testing = NULL
  /\ cache = [k \in Keys |-> NULL]
  /\ remote = [val |-> NULL, nul |-> {}]
  /\ cq = <<>> /\ out = NULL /\ acking = FALSE /\ buf = NULL
  /\ srv = "running" /\ inbox = NULL /\ reply = NULL
  /\ nodes = <<>>
  /\ pool = [i \in 1 .. MIN_POOL_NODES |-> i] /\ rndv = <<>>
  /\ region = [i \in 1 .. MIN_POOL_NODES |-> Cleared]
  /\ wild \in BOOLEAN

(***************************************************************************)
(* Strings                                                                 *)
(***************************************************************************)

\* len bytes of v over what the buffer held before.
Written(b, v, len) == [val |-> v, nul |-> b.nul \ (0 .. len - 1)]

\* len bytes of v and the NUL.
Terminated(b, v, len) == [val |-> v, nul |-> (b.nul \ (0 .. len - 1)) \cup {len}]

\* The string at the start of b, when n + 1 bytes of it are copied.
StringAt(b, n) ==
  LET ends == b.nul \cap (0 .. n) IN
  IF ends # {} /\ b.val # NULL /\ Min(ends) = ValLen[b.val] THEN b.val ELSE Mangled

(***************************************************************************)
(* The network                                                             *)
(***************************************************************************)
Rdma == {"WRITE", "READ"}

Deliver ==
  /\ out # NULL /\ out.type \notin Rdma /\ inbox = NULL /\ srv = "running"
  /\ inbox' = out /\ out' = NULL /\ acking' = TRUE
  /\ UNCHANGED <<clientVars, cq, buf, reply, srv, nodes, pool, rndv, region, wild>>

Acknowledge ==
  /\ acking /\ acking' = FALSE
  /\ cq' = Append(cq, "send")
  /\ UNCHANGED <<clientVars, out, buf, reply, serverVars>>

ResponseArrives ==
  /\ reply # NULL
  /\ buf' = reply /\ reply' = NULL
  /\ cq' = Append(cq, "recv")
  /\ UNCHANGED <<clientVars, out, acking, serverVars>>

RdmaWrite ==
  /\ out # NULL /\ out.type = "WRITE" /\ srv = "running"
  /\ region' = [region EXCEPT ![out.at] =
       IF out.size > ValLen[out.val] THEN Terminated(@, out.val, ValLen[out.val])
                                   ELSE Written(@, out.val, out.size)]
  /\ out' = NULL /\ cq' = Append(cq, "send")
  /\ UNCHANGED <<clientVars, acking, buf, reply, srv, inbox, nodes, pool, rndv, wild>>

RdmaRead ==
  /\ out # NULL /\ out.type = "READ" /\ srv = "running"
  /\ remote' = [val |-> region[out.at].val,
                nul |-> (remote.nul \ (0 .. out.size - 1))
                        \cup (region[out.at].nul \cap (0 .. out.size - 1))]
  /\ out' = NULL /\ cq' = Append(cq, "send")
  /\ UNCHANGED <<caller, pc, got, call, result, last, use_rndv_protocol, todo, testing, cache>>
  /\ UNCHANGED <<acking, buf, reply, serverVars>>

(***************************************************************************)
(* The server: one request, its answer, and the pool filled up again       *)
(***************************************************************************)
NodeOf(k) == {i \in DOMAIN nodes : nodes[i].key = k}

\* A node that is found gives its value; an absent key is answered with the
\* packet's first 8 bytes, without value_length.  NO_LENGTH stands for this
\* and for a length that was never set.
HandleEagerGet(packet) ==
  /\ IF NodeOf(packet.key) # {}
     THEN LET n == nodes[Min(NodeOf(packet.key))] IN
          IF n.len = NULL THEN reply' = [type |-> "NO_LENGTH"]
          ELSE reply' = [type |-> "EAGER_GET_RESPONSE", len |-> n.len,
                         val |-> n.val, nul |-> n.nul]
     ELSE reply' = [type |-> "NO_LENGTH"]
  /\ UNCHANGED <<srv, nodes, pool, rndv, region, wild>>

AppendNode(packet) ==
  Append(nodes, [key |-> packet.key, val |-> packet.value,
                 len |-> ValLen[packet.value], nul |-> {}])

\* The node is freed and allocated anew.  Its val_len is never set; as a rule
\* the memory is the same and still holds the old one.  A NUL is then put not
\* behind the new value but at that place in the node kv_head points to.
ReplaceNode(i, packet) ==
  {[j \in DOMAIN nodes |->
      LET n == IF j = i THEN [nodes[i] EXCEPT !.val = packet.value, !.len = l, !.nul = {}]
                        ELSE nodes[j]
      IN IF j = 1 THEN [n EXCEPT !.nul = @ \cup {ValLen[packet.value]}] ELSE n] :
   l \in {nodes[i].len, NULL}}

\* A first or last node that moved to other memory leaves kv_head or kv_tail
\* dangling: the next walk down the list may end the server.
HandleEagerSet(packet) ==
  /\ IF NodeOf(packet.key) = {}
     THEN nodes' = AppendNode(packet) /\ UNCHANGED srv
     ELSE LET i == Min(NodeOf(packet.key)) IN
          /\ nodes' \in ReplaceNode(i, packet)
          /\ srv' \in IF i \in {1, Len(nodes)} \/ ValLen[packet.value] > ValLen[nodes[1].val]
                      THEN {"running", "crashed"} ELSE {"running"}
  /\ UNCHANGED <<reply, pool, rndv, region, wild>>

BugRegionLost == UNCHANGED rndv

RegionTaken == rndv' = Append(rndv, Head(pool))

BugHeadKept ==
  LET fresh == Cardinality(DOMAIN region) + 1 IN
  /\ wild' = FALSE
  /\ pool' = Append(pool, fresh)
  /\ region' = [r \in DOMAIN region \cup {fresh} |->
                  IF r = fresh THEN Cleared ELSE region[r]]

\* The region taken is made good behind rndv_pool_tail before the next request.
\* Where the last one was taken, that is behind the taken node, and
\* rndv_pool_head stays NULL.
PoolRefilled ==
  LET fresh == Cardinality(DOMAIN region) + 1 IN
  /\ wild' = FALSE
  /\ pool' = IF Len(pool) = 1 THEN <<>> ELSE Append(Tail(pool), fresh)
  /\ region' = [r \in DOMAIN region \cup {fresh} |->
       CASE r = fresh -> Cleared
         [] r = Head(pool) /\ inbox.type = "RENDEZVOUS_SET_REQUEST" ->
              [region[r] EXCEPT !.nul = @ \ (0 .. KEY_LEN - 1)]
         [] OTHER -> region[r]]

BugNotAnswered ==
  /\ RegionTaken /\ PoolRefilled
  /\ UNCHANGED <<srv, reply, nodes>>

\* rndv_pool_head is followed without a look at whether it is NULL.
PoolRunDry ==
  /\ srv' = "crashed"
  /\ UNCHANGED <<reply, nodes, pool, rndv, region, wild>>

\* Always a new node, with the key copied into the region instead of itself.
HandleRndvSet ==
  IF pool = <<>> THEN PoolRunDry
  ELSE /\ RegionTaken /\ PoolRefilled
       /\ reply' = [type |-> "RENDEZVOUS_SET_RESPONSE", at |-> Head(pool)]
       /\ UNCHANGED <<srv, nodes>>

\* A new node here too, and response_size stays 0.
HandleRndvGet ==
  IF pool = <<>> THEN PoolRunDry
  ELSE RegionTaken /\ PoolRefilled /\ UNCHANGED <<srv, reply, nodes>>

ServerHandles ==
  /\ srv = "running" /\ inbox # NULL
  /\ inbox' = NULL
  /\ \/ inbox.type = "EAGER_GET_REQUEST" /\ HandleEagerGet(inbox)
     \/ inbox.type = "EAGER_SET_REQUEST" /\ HandleEagerSet(inbox)
     \/ inbox.type = "RENDEZVOUS_SET_REQUEST" /\ HandleRndvSet
     \/ inbox.type = "RENDEZVOUS_GET_REQUEST" /\ HandleRndvGet
     \/ /\ inbox.type = "CLOSE_CONNECTION"
        /\ srv' = "closing"
        /\ UNCHANGED <<reply, nodes, pool, rndv, region, wild>>
  /\ UNCHANGED <<clientVars, cq, out, acking, buf>>

\* Copying as many bytes as a length that was never set says may end the server
\* before it answers.
ServerCrashes ==
  /\ srv = "running" /\ inbox # NULL /\ inbox.type = "EAGER_GET_REQUEST"
  /\ NodeOf(inbox.key) # {} /\ nodes[Min(NodeOf(inbox.key))].len = NULL
  /\ srv' = "crashed"
  /\ UNCHANGED <<clientVars, netVars, inbox, nodes, pool, rndv, region, wild>>

Listed == {pool[i] : i \in DOMAIN pool} \cup {rndv[i] : i \in DOMAIN rndv}

\* pp_close_ctx: the regions of both lists are deregistered; the protection
\* domain can only go when no other is left.  A wild next is followed, to an
\* address nobody registered.
ServerCloses ==
  /\ srv = "closing"
  /\ srv' \in IF wild THEN {"failed", "crashed"}
             ELSE IF Listed = DOMAIN region THEN {"closed"} ELSE {"failed"}
  /\ pool' = <<>> /\ rndv' = <<>>
  /\ UNCHANGED <<clientVars, netVars, inbox, nodes, region, wild>>

(***************************************************************************)
(* The client: kv_set, kv_get, kv_close                                    *)
(***************************************************************************)

\* How many completions each wait asks for.
Waits == [set |-> 1, rndv_set |-> 2, write |-> 1, get |-> 1, get_again |-> 1,
          rndv_get |-> 2, read |-> 1, close |-> 1]

Busy == pc \in DOMAIN Waits

Post(packet) == out' = packet /\ UNCHANGED <<cq, acking, buf, reply>>

SameCaller == UNCHANGED <<caller, last, use_rndv_protocol, todo, testing>>

\* One ibv_poll_cq: up to two completions, whatever they are.
Poll ==
  /\ Busy /\ got < Waits[pc] /\ cq # <<>>
  /\ got' = got + Min({2, Len(cq)})
  /\ cq' = SubSeq(cq, 3, Len(cq))
  /\ UNCHANGED <<pc, call, result, cache, remote>> /\ SameCaller
  /\ UNCHANGED <<out, acking, buf, reply, serverVars>>

Waited(where) == pc = where /\ got >= Waits[where]

Rendezvous(v) == use_rndv_protocol \/ v \in Big

Calling(name) == pc = "called" /\ call.name = name

SetEager ==
  /\ Calling("set") /\ ~Rendezvous(call.value)
  /\ Post([type |-> "EAGER_SET_REQUEST", key |-> call.key, value |-> call.value])
  /\ pc' = "set" /\ got' = 0
  /\ UNCHANGED <<call, result, cache, remote, serverVars>> /\ SameCaller

\* The address is known: the string goes out with its NUL.
SetCached ==
  /\ Calling("set") /\ Rendezvous(call.value) /\ cache[call.key] # NULL
  /\ remote' = Terminated(remote, call.value, ValLen[call.value])
  /\ Post([type |-> "WRITE", at |-> cache[call.key].at, val |-> call.value,
           size |-> ValLen[call.value] + 1])
  /\ pc' = "write" /\ got' = 0
  /\ UNCHANGED <<call, result, cache, serverVars>> /\ SameCaller

SetAsks ==
  /\ Calling("set") /\ Rendezvous(call.value) /\ cache[call.key] = NULL
  /\ Post([type |-> "RENDEZVOUS_SET_REQUEST", key |-> call.key])
  /\ pc' = "rndv_set" /\ got' = 0
  /\ UNCHANGED <<call, result, cache, remote, serverVars>> /\ SameCaller

BugLengthOfKey(v) == KEY_LEN

CachedLength(v) == ValLen[v]

\* Here the string goes without its NUL, and the region was cleared before.
SetWrites ==
  /\ Waited("rndv_set")
  /\ cache' = [cache EXCEPT ![call.key] =
                 [at |-> buf.at, len |-> CachedLength(call.value)]]
  /\ remote' = Terminated(remote, call.value, ValLen[call.value])
  /\ Post([type |-> "WRITE", at |-> buf.at, val |-> call.value,
           size |-> ValLen[call.value]])
  /\ pc' = "write" /\ got' = 0
  /\ UNCHANGED <<call, result, serverVars>> /\ SameCaller

SetReturns ==
  /\ Waited("set") \/ Waited("write")
  /\ pc' = "idle" /\ call' = NULL
  /\ last' = [last EXCEPT ![call.key] = call.value]
  /\ testing' = call.key
  /\ UNCHANGED <<caller, got, result, use_rndv_protocol, todo, cache, remote>>
  /\ UNCHANGED <<netVars, serverVars>>

GetCached ==
  /\ Calling("get") /\ use_rndv_protocol /\ cache[call.key] # NULL
  /\ Post([type |-> "READ", at |-> cache[call.key].at, size |-> cache[call.key].len])
  /\ pc' = "read" /\ got' = 0
  /\ UNCHANGED <<call, result, cache, remote, serverVars>> /\ SameCaller

\* val_len + 1 bytes are copied out of remote_buf, of which one was not read.
GetRead ==
  /\ Waited("read")
  /\ result' = StringAt(remote, cache[call.key].len)
  /\ pc' = "check"
  /\ UNCHANGED <<got, call, cache, remote, netVars, serverVars>> /\ SameCaller

GetEager ==
  /\ Calling("get") /\ ~use_rndv_protocol
  /\ Post([type |-> "EAGER_GET_REQUEST", key |-> call.key])
  /\ pc' = "get" /\ got' = 0
  /\ UNCHANGED <<call, result, cache, remote, serverVars>> /\ SameCaller

\* The second wait starts from zero, even if the first counted both.
GetWaitsAgain ==
  /\ Waited("get")
  /\ pc' = "get_again" /\ got' = 0
  /\ UNCHANGED <<call, result, cache, remote, netVars, serverVars>> /\ SameCaller

\* value_length may be the first bytes of the key, in an answer without one.
GetCopies ==
  /\ Waited("get_again")
  /\ IF buf.type = "EAGER_GET_RESPONSE"
     THEN /\ result' = StringAt([buf EXCEPT !.nul = (@ \cap 0 .. buf.len - 1) \cup {buf.len}],
                                buf.len)
          /\ pc' = "check"
     ELSE result' = Mangled /\ pc' \in {"check", "crashed"}
  /\ UNCHANGED <<got, call, cache, remote, netVars, serverVars>> /\ SameCaller

\* The cache is searched for the key again, without a step to the next entry.
GetSpins ==
  /\ Calling("get") /\ use_rndv_protocol /\ cache[call.key] = NULL
  /\ \E k \in Keys : cache[k] # NULL
  /\ pc' = "spinning"
  /\ UNCHANGED <<got, call, result, cache, remote, netVars, serverVars>> /\ SameCaller

\* The wait for 2 completions never ends, as there is no answer.
GetAsks ==
  /\ Calling("get") /\ use_rndv_protocol /\ \A k \in Keys : cache[k] = NULL
  /\ Post([type |-> "RENDEZVOUS_GET_REQUEST", key |-> call.key])
  /\ pc' = "rndv_get" /\ got' = 0
  /\ UNCHANGED <<call, result, cache, remote, serverVars>> /\ SameCaller

Close ==
  /\ Calling("close")
  /\ Post([type |-> "CLOSE_CONNECTION"])
  /\ pc' = "close" /\ got' = 0
  /\ UNCHANGED <<call, result, cache, remote, serverVars>> /\ SameCaller

Closed ==
  /\ Waited("close")
  /\ pc' = "closed"
  /\ UNCHANGED <<got, call, result, cache, remote, netVars, serverVars>>
  /\ SameCaller

(***************************************************************************)
(* The caller: run_throuput_tests with both protocols, or any calls        *)
(***************************************************************************)

\* The tests set every key once in each phase and get it at once; the values
\* of the first phase fit in a packet.
TestsMayCall(c) ==
  \/ /\ c.name = "set" /\ testing = NULL /\ c.key \in todo
     /\ c.value \in Big => use_rndv_protocol
  \/ c.name = "get" /\ testing = c.key
  \/ c.name = "close" /\ testing = NULL /\ todo = {} /\ use_rndv_protocol

Begin(c) ==
  /\ pc = "idle"
  /\ caller = "any" \/ TestsMayCall(c)
  /\ pc' = "called" /\ call' = c
  /\ UNCHANGED <<got, result, cache, remote, netVars, serverVars>> /\ SameCaller

\* assert(0 == strcmp(send_buffer, recv_buffer))
Check ==
  /\ pc = "check"
  /\ pc' = IF last[call.key] \in {result, NULL} THEN "idle" ELSE "aborted"
  /\ call' = NULL /\ result' = NULL
  /\ todo' = todo \ {call.key} /\ testing' = NULL
  /\ UNCHANGED <<caller, got, last, use_rndv_protocol, cache, remote, netVars, serverVars>>

NextPhase ==
  /\ pc = "idle" /\ ~use_rndv_protocol
  /\ caller = "any" \/ (todo = {} /\ testing = NULL)
  /\ use_rndv_protocol' = TRUE /\ todo' = Keys
  /\ UNCHANGED <<caller, pc, got, call, result, last, testing, cache, remote>>
  /\ UNCHANGED <<netVars, serverVars>>

ClientStep ==
  \/ Poll \/ SetEager \/ SetCached \/ SetAsks \/ SetWrites \/ SetReturns
  \/ GetCached \/ GetRead \/ GetEager \/ GetWaitsAgain \/ GetCopies \/ GetSpins \/ GetAsks
  \/ Close \/ Closed \/ Check

NetStep == Deliver \/ Acknowledge \/ ResponseArrives \/ RdmaWrite \/ RdmaRead

Next ==
  \/ ClientStep \/ NetStep \/ ServerHandles \/ ServerCrashes \/ ServerCloses
  \/ NextPhase \/ \E c \in Calls : Begin(c)

Spec == Init /\ [][Next]_vars

\* Both programs poll for ever and the connection is reliable.
FairSpec ==
  Spec /\ WF_vars(ClientStep) /\ WF_vars(NetStep) /\ WF_vars(ServerHandles \/ ServerCloses)

(***************************************************************************)
(* Properties                                                              *)
(***************************************************************************)
Buffers == [val : Values \cup {NULL}, nul : SUBSET Positions]

\* The variables keep their types: at most two completions are outstanding,
\* as many as one poll takes.
TypeOK ==
  /\ caller \in {"tests", "any"}
  /\ pc \in DOMAIN Waits \cup {"idle", "called", "check", "spinning", "closed", "aborted", "crashed"}
  /\ got \in 0 .. 2
  /\ call \in Calls \cup {NULL}
  /\ result \in Values \cup {Mangled, NULL}
  /\ last \in [Keys -> Values \cup {NULL}]
  /\ todo \subseteq Keys /\ testing \in Keys \cup {NULL}
  /\ remote \in Buffers
  /\ cq \in Seq({"send", "recv"}) /\ Len(cq) <= 2
  /\ srv \in {"running", "closing", "closed", "failed", "crashed"} /\ wild \in BOOLEAN
  /\ \A r \in DOMAIN region : region[r] \in Buffers
  /\ \A k \in Keys : cache[k] # NULL => cache[k].at \in DOMAIN region
  /\ \A i \in DOMAIN nodes : nodes[i].key \in Keys /\ nodes[i].val \in Values

\* run_throuput_tests never fails its assertion: with both protocols, and
\* with the keys of the first phase used again in the second, a get returns
\* what was set.
AssertHolds == caller = "tests" => pc # "aborted"

\* While the server runs, a region is free or holds one key, a key's cached
\* address is that of its own region, and the next request finds a region.
RegionsApart ==
  srv = "running" =>
    /\ pool # <<>>
    /\ \A i, j \in DOMAIN pool : i # j => pool[i] # pool[j]
    /\ {pool[i] : i \in DOMAIN pool} \cap {rndv[i] : i \in DOMAIN rndv} = {}
    /\ \A k \in Keys : cache[k] # NULL =>
         /\ cache[k].at \in {rndv[i] : i \in DOMAIN rndv}
         /\ \A j \in Keys \ {k} : cache[j] # NULL => cache[j].at # cache[k].at

\* When the server closes, no region keeps the protection domain alive and no
\* next leads astray, once it has served one rendezvous request.
ClosesClean ==
  srv = "failed" => wild /\ DOMAIN region = 1 .. MIN_POOL_NODES

\* In the second phase of the tests every call returns.
RndvCallsReturn ==
  caller = "tests" /\ use_rndv_protocol /\ pc = "called" ~> pc \in {"idle", "closed"}

(***************************************************************************)
(* What the code does not do: README, "Known divergences"                  *)
(***************************************************************************)

\* Every kv_set, kv_get and kv_close returns.
EveryCallReturns ==
  pc = "called" ~> pc \in {"idle", "closed", "aborted", "crashed"}

\* A get returns what the last set of its key stored.
GetReturnsLastSet ==
  pc = "check" => last[call.key] \in {result, NULL}

\* The characters of n's value that a NUL has overwritten.
Damage(n) == n.nul \cap (0 .. ValLen[n.val] - 1)

\* A set of one key leaves the value in every other key's node alone.
SetKeepsOthers ==
  [][\A i \in DOMAIN nodes :
       inbox = NULL \/ inbox.type # "EAGER_SET_REQUEST" \/ inbox.key # nodes[i].key =>
         Damage(nodes'[i]) = Damage(nodes[i])]_vars
=============================================================================
