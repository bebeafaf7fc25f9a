----------------------------- MODULE DkvCluster -----------------------------
(***************************************************************************)
(* The distributed store of Ex4: one client (dkv_* and mkv_* in            *)
(* kv_client.c), one indexer (kv_indexer.c) that tells by a hash which     *)
(* server is responsible for a key, and several servers.  The client's     *)
(* address cache is one for all servers.                                   *)
(*                                                                         *)
(* What a single server and connection do in detail is the subject of      *)
(* KvServer, KvSession and QpHandshake.  Here a server is a map from keys  *)
(* to small values or blocks, all values of a kind have one length, and a  *)
(* request is sent and acknowledged in one step, once the peer's receive   *)
(* buffer is free.  Of the pool's list there is left which servers have    *)
(* taken a block back, and what may come of it: maintain_pool may loop at  *)
(* a later one, and the list may be empty when a block is wanted.          *)
(***************************************************************************)
EXTENDS Integers, Sequences

CONSTANTS
  Keys, Values,
  Large,          \* the values that do not fit in a packet
  KeyBytes,       \* the characters of every key
  num_servers,    \* the servers named on the command line
  Indexer,
  Blocks,         \* memory regions of each server
  Offered,        \* which of the free ones the pool may give out
  NULL, Zero,     \* Zero: the empty string, what a cleared block holds
  Garbage,        \* what an absent key may be answered with
  Faulty,         \* peers that may be unreachable, or die
  LONG, INT       \* 2^width of unsigned long and unsigned int

Servers == 0 .. num_servers - 1
Peers == Servers \cup {Indexer}

Calls == [name : {"set"}, key : Keys, value : Values]
         \cup [name : {"get"}, key : Keys]

SetRequests == [type : {"EAGER_SET_REQUEST"}, key : Keys, value : Values]
               \cup [type : {"RENDEZVOUS_SET_REQUEST"}, key : Keys]

ASSUME ClusterAssumption ==
  /\ num_servers \in Nat \ {0}      \* parse_args asks for one at least
  /\ Large \subseteq Values
  /\ KeyBytes \in [Keys -> Seq(1 .. 255)]
  /\ \A free \in SUBSET Blocks : Offered[free] \subseteq free
  /\ Faulty \subseteq Peers /\ Indexer \notin Servers
  /\ NULL \notin Keys \cup Values \cup Blocks \cup Servers \cup {Zero, Garbage}
  /\ {Zero, Garbage} \cap Values = {} /\ Blocks \cap Values = {}
  /\ NULL \notin Calls \cup SetRequests
  /\ LONG \in Nat \ {0} /\ INT \in Nat \ {0}

VARIABLES
  pc, count,       \* where the client is; its loop counter over the peers
  call, answer,    \* the call in progress and what *value holds
  conns,           \* the peers whose connection works
  selected,        \* location.selected_server of the last LOCATION
  cache,           \* last_rndv_accessed_key and the address that goes with it
  peer,            \* "waiting" for a client, "serving", "looping" in
                   \* maintain_pool, "ended", or "dead"
  inbox, reply,    \* the request in a peer's buffer, its answer on the wire
  entries,         \* each server's map: NULL, a small value, or a block
  memory,          \* what each server's blocks hold
  drifted          \* the servers whose mem_pool_tail may be off the list

clientVars == <<pc, count, call, answer, conns, selected, cache>>
peerVars == <<peer, inbox, reply>>
storeVars == <<entries, memory, drifted>>
vars == <<clientVars, peerVars, storeVars>>

NoCache == [key |-> NULL, server |-> NULL, block |-> NULL]

Init ==
  /\ pc = "open" /\ count = 0
  /\ call = NULL /\ answer = NULL
  /\ conns = {} /\ selected = NULL /\ cache = NoCache
  /\ peer = [p \in Peers |-> "waiting"]
  /\ inbox = [p \in Peers |-> NULL]
  /\ reply = [p \in Peers |-> NULL]
  /\ entries = [s \in Servers |-> [k \in Keys |-> NULL]]
  /\ memory = [s \in Servers |-> [b \in Blocks |-> Zero]]
  /\ drifted = {}

(***************************************************************************)
(* dkv_open, mkv_open and dkv_close walk the peers: the indexer first.     *)
(***************************************************************************)
Target == IF count = 0 THEN Indexer ELSE count - 1

OpenPeer ==
  /\ pc = "open" /\ peer[Target] = "waiting"
  /\ peer' = [peer EXCEPT ![Target] = "serving"]
  /\ conns' = conns \cup {Target}
  /\ IF count = num_servers THEN pc' = "idle" /\ count' = 0
                            ELSE count' = count + 1 /\ UNCHANGED pc
  /\ UNCHANGED <<call, answer, selected, cache, inbox, reply, storeVars>>

\* orig_main returns 1, dkv_open returns 1, the assert in main aborts.
OpenFails ==
  /\ pc = "open" /\ (Target \in Faulty \/ peer[Target] = "dead")
  /\ pc' = "aborted"
  /\ UNCHANGED <<count, call, answer, conns, selected, cache>>
  /\ UNCHANGED <<peerVars, storeVars>>

CloseBegins ==
  /\ pc = "idle"
  /\ pc' = "close"
  /\ UNCHANGED <<count, call, answer, conns, selected, cache>>
  /\ UNCHANGED <<peerVars, storeVars>>

\* The loop of mkv_close stops one short.
BugCloseStopsShort == count = num_servers - 1

LastClosed == count = num_servers

\* kv_close of one peer; its result is not looked at.
ClosePeer ==
  /\ pc = "close"
  /\ \/ /\ Target \in conns /\ peer[Target] # "dead" /\ inbox[Target] = NULL
        /\ inbox' = [inbox EXCEPT ![Target] = [type |-> "CLOSE_CONNECTION"]]
     \/ /\ Target \notin conns \/ peer[Target] = "dead"
        /\ UNCHANGED inbox
  /\ conns' = conns \ {Target}
  /\ IF LastClosed THEN pc' = "closed" /\ count' = 0
                   ELSE count' = count + 1 /\ UNCHANGED pc
  /\ UNCHANGED <<call, answer, selected, cache, peer, reply, storeVars>>

(***************************************************************************)
(* The indexer                                                             *)
(***************************************************************************)

\* djb2 in an unsigned long.
HashKey(str) ==
  LET hash[n \in 0 .. Len(str)] ==
        IF n = 0 THEN 5381 ELSE (hash[n - 1] * 33 + str[n]) % LONG
  IN  hash[Len(str)]

\* (unsigned int) hash_value % num_of_servers: the cast comes first.
SelectedServer(key, num_of_servers) ==
  (HashKey(KeyBytes[key]) % INT) % num_of_servers

\* The answer is prepared but response_size stays 0.
BugNoAnswer ==
  /\ inbox[Indexer] # NULL /\ peer[Indexer] = "serving"
  /\ inbox' = [inbox EXCEPT ![Indexer] = NULL]
  /\ peer' = [peer EXCEPT ![Indexer] =
                IF inbox[Indexer].type = "FIND" THEN @ ELSE "ended"]
  /\ UNCHANGED <<clientVars, reply, storeVars>>

IndexerHandles ==
  LET packet == inbox[Indexer] IN
  /\ peer[Indexer] = "serving" /\ packet # NULL
  /\ inbox' = [inbox EXCEPT ![Indexer] = NULL]
  /\ \/ /\ packet.type = "FIND"
        /\ reply' = [reply EXCEPT ![Indexer] =
             [type |-> "LOCATION",
              selected_server |-> SelectedServer(packet.key, packet.num_of_servers)]]
        /\ UNCHANGED peer
     \/ /\ packet.type = "CLOSE_CONNECTION"
        /\ peer' = [peer EXCEPT ![Indexer] = "ended"]
        /\ UNCHANGED reply
  /\ UNCHANGED <<clientVars, storeVars>>

(***************************************************************************)
(* A server                                                                *)
(***************************************************************************)
IsBlock(e) == e \in Blocks

FreeBlocks(s) == Blocks \ {entries[s][k] : k \in Keys}

\* maintain_pool hangs the block of key behind mem_pool_tail, which it leaves
\* where it is.  After an earlier block that tail may be a block in use, at
\* last this one, which is then linked to itself.
Reclaim(s, key) ==
  /\ memory' = [memory EXCEPT ![s][entries[s][key]] = Zero]
  /\ drifted' = drifted \cup {s}
  /\ \/ UNCHANGED peer
     \/ s \in drifted /\ peer' = [peer EXCEPT ![s] = "looping"]

\* A small value takes the entry; a block it had is cleared for the pool.
HandleEagerSet(s, key, value) ==
  /\ entries' = [entries EXCEPT ![s][key] = value]
  /\ IF IsBlock(entries[s][key]) THEN Reclaim(s, key)
                                 ELSE UNCHANGED <<memory, drifted, peer>>
  /\ UNCHANGED reply

\* The key's block, or one that no key has.
HandleRndvSet(s, key) ==
  \E b \in IF IsBlock(entries[s][key]) THEN {entries[s][key]} ELSE Offered[FreeBlocks(s)] :
    /\ entries' = [entries EXCEPT ![s][key] = b]
    /\ reply' = [reply EXCEPT ![s] = [type |-> "RENDEZVOUS_SET_RESPONSE", block |-> b]]
    /\ UNCHANGED <<peer, memory, drifted>>

\* mem_pool_head may be NULL when a block is wanted: pool_size also counts
\* blocks that are no longer on the list.
RndvSetCrashes(s, key) ==
  /\ s \in drifted /\ ~IsBlock(entries[s][key])
  /\ peer' = [peer EXCEPT ![s] = "dead"]
  /\ UNCHANGED <<reply, storeVars>>

HandleGet(s, key) ==
  LET e == entries[s][key] IN
  /\ reply' = [reply EXCEPT ![s] =
       IF IsBlock(e) THEN [type |-> "RENDEZVOUS_GET_RESPONSE", block |-> e]
                     ELSE [type |-> "EAGER_GET_RESPONSE", value |-> e]]
  /\ UNCHANGED <<peer, storeVars>>

ServerHandles(s) ==
  LET packet == inbox[s] IN
  /\ peer[s] = "serving" /\ packet # NULL
  /\ inbox' = [inbox EXCEPT ![s] = NULL]
  /\ \/ packet.type = "EAGER_SET_REQUEST" /\ HandleEagerSet(s, packet.key, packet.value)
     \/ /\ packet.type = "RENDEZVOUS_SET_REQUEST"
        /\ HandleRndvSet(s, packet.key) \/ RndvSetCrashes(s, packet.key)
     \/ packet.type = "EAGER_GET_REQUEST" /\ HandleGet(s, packet.key)
     \/ /\ packet.type = "CLOSE_CONNECTION"
        /\ peer' = [peer EXCEPT ![s] = "ended"]
        /\ UNCHANGED <<reply, storeVars>>
  /\ UNCHANGED clientVars

PeerDies(p) ==
  /\ p \in Faulty /\ peer[p] \in {"waiting", "serving"}
  /\ peer' = [peer EXCEPT ![p] = "dead"]
  /\ UNCHANGED <<clientVars, inbox, reply, storeVars>>

(***************************************************************************)
(* dkv_set and dkv_get: ask the indexer, then call the server it names.    *)
(***************************************************************************)
Usable(p) == p \in conns /\ peer[p] # "dead"

\* A request goes out once the peer has a receive buffer for it.
Send(p, packet) ==
  /\ Usable(p) /\ inbox[p] = NULL
  /\ inbox' = [inbox EXCEPT ![p] = packet]
  /\ UNCHANGED <<peer, reply>>

Take(p) ==
  /\ reply' = [reply EXCEPT ![p] = NULL]
  /\ UNCHANGED <<peer, inbox>>

Begin(c) ==
  /\ pc = "idle"
  /\ pc' = "find" /\ call' = c
  /\ UNCHANGED <<count, answer, conns, selected, cache, peerVars, storeVars>>

\* A get counts the servers from zero.
BugGetCountsLess(c) ==
  [type |-> "FIND", key |-> c.key,
   num_of_servers |-> IF c.name = "get" /\ num_servers > 1
                      THEN num_servers - 1 ELSE num_servers]

FindPacket(c) ==
  [type |-> "FIND", key |-> c.key, num_of_servers |-> num_servers]

FindSent ==
  /\ pc = "find" /\ Send(Indexer, FindPacket(call))
  /\ pc' = "locate"
  /\ UNCHANGED <<count, call, answer, conns, selected, cache, storeVars>>

\* assert(pp_wait_completions(ctx->indexer, 2) == 0)
FindFails ==
  /\ pc = "find" /\ ~Usable(Indexer)
  /\ pc' = "aborted"
  /\ UNCHANGED <<count, call, answer, conns, selected, cache>>
  /\ UNCHANGED <<peerVars, storeVars>>

\* The server number is read before the answer has arrived.
BugReadsEarly ==
  /\ pc = "locate" /\ reply[Indexer] # NULL
  /\ selected' = IF selected = NULL THEN reply[Indexer].selected_server
                                    ELSE selected
  /\ pc' = "located"
  /\ Take(Indexer)
  /\ UNCHANGED <<count, call, answer, conns, cache, storeVars>>

\* assert(set_packet->type == LOCATION) holds: the indexer answers FIND only.
LocationReceived ==
  /\ pc = "locate" /\ reply[Indexer] # NULL
  /\ selected' = reply[Indexer].selected_server
  /\ pc' = "located"
  /\ Take(Indexer)
  /\ UNCHANGED <<count, call, answer, conns, cache, storeVars>>

Calling(name) == pc = "located" /\ call.name = name

BugKeyKept(key) == cache

\* What is left of the cache when a small value replaces the one of key.
Forgotten(key) == IF cache.key = key THEN NoCache ELSE cache

SetEager ==
  /\ Calling("set") /\ call.value \notin Large
  /\ Send(selected, [type |-> "EAGER_SET_REQUEST", key |-> call.key, value |-> call.value])
  /\ cache' = Forgotten(call.key)
  /\ pc' = "return"
  /\ UNCHANGED <<count, call, answer, conns, selected, storeVars>>

SetRendezvous ==
  /\ Calling("set") /\ call.value \in Large /\ cache.key # call.key
  /\ Send(selected, [type |-> "RENDEZVOUS_SET_REQUEST", key |-> call.key])
  /\ pc' = "rndv_set"
  /\ UNCHANGED <<count, call, answer, conns, selected, cache, storeVars>>

\* The address comes from the connection the request went to.
Remember(b) == cache' = [key |-> call.key, server |-> selected, block |-> b]

SetGotAddress ==
  /\ pc = "rndv_set" /\ reply[selected] # NULL
  /\ Remember(reply[selected].block)
  /\ Take(selected)
  /\ pc' = "write"
  /\ UNCHANGED <<count, call, answer, conns, selected, storeVars>>

SetCached ==
  /\ Calling("set") /\ call.value \in Large /\ cache.key = call.key
  /\ pc' = "write"
  /\ UNCHANGED <<count, call, answer, conns, selected, cache>>
  /\ UNCHANGED <<peerVars, storeVars>>

\* The cached key is a key of this server: its address and rkey are good.
RightServer == cache.server = selected /\ Usable(selected)

Write ==
  /\ pc = "write" /\ RightServer
  /\ memory' = [memory EXCEPT ![selected][cache.block] = call.value]
  /\ pc' = "return"
  /\ UNCHANGED <<count, call, answer, conns, selected, cache, peerVars, entries,
                 drifted>>

GetRequest ==
  /\ Calling("get") /\ cache.key # call.key
  /\ Send(selected, [type |-> "EAGER_GET_REQUEST", key |-> call.key])
  /\ pc' = "get"
  /\ UNCHANGED <<count, call, answer, conns, selected, cache, storeVars>>

GetSmall ==
  /\ pc = "get" /\ reply[selected] # NULL
  /\ reply[selected].type = "EAGER_GET_RESPONSE"
  /\ answer' \in IF reply[selected].value = NULL THEN {Zero, Garbage}
                                                 ELSE {reply[selected].value}
  /\ Take(selected)
  /\ pc' = "return"
  /\ UNCHANGED <<count, call, conns, selected, cache, storeVars>>

GetLarge ==
  /\ pc = "get" /\ reply[selected] # NULL
  /\ reply[selected].type = "RENDEZVOUS_GET_RESPONSE"
  /\ Remember(reply[selected].block)
  /\ Take(selected)
  /\ pc' = "read"
  /\ UNCHANGED <<count, call, answer, conns, selected, storeVars>>

GetCached ==
  /\ Calling("get") /\ cache.key = call.key
  /\ pc' = "read"
  /\ UNCHANGED <<count, call, answer, conns, selected, cache>>
  /\ UNCHANGED <<peerVars, storeVars>>

Read ==
  /\ pc = "read" /\ RightServer
  /\ answer' = memory[selected][cache.block]
  /\ pc' = "return"
  /\ UNCHANGED <<count, call, conns, selected, cache, peerVars, storeVars>>

\* The server is gone, or the address is one of another server: the wait
\* returns 1.  kv_set asserts when it waits for an address; every other call
\* returns, and a get with an empty string or an error.  A small set has
\* cleared the cache before it sends.
ServerCallFails ==
  /\ \/ pc = "located" /\ ~Usable(selected)
     \/ pc \in {"write", "read"} /\ ~RightServer
  /\ conns' = conns \ {selected}
  /\ answer' = IF call.name = "get" THEN Zero ELSE answer
  /\ pc' = IF Calling("set") /\ call.value \in Large /\ cache.key # call.key
           THEN "aborted" ELSE "return"
  /\ cache' = IF Calling("set") /\ call.value \notin Large
              THEN Forgotten(call.key) ELSE cache
  /\ UNCHANGED <<count, call, selected, peerVars, storeVars>>

Return ==
  /\ pc = "return"
  /\ pc' = "idle" /\ call' = NULL /\ answer' = NULL
  /\ UNCHANGED <<count, conns, selected, cache, peerVars, storeVars>>

ClientStep ==
  \/ OpenPeer \/ OpenFails \/ ClosePeer
  \/ FindSent \/ FindFails \/ LocationReceived
  \/ SetEager \/ SetRendezvous \/ SetGotAddress \/ SetCached \/ Write
  \/ GetRequest \/ GetSmall \/ GetLarge \/ GetCached \/ Read
  \/ ServerCallFails \/ Return

PeerStep(p) == IF p = Indexer THEN IndexerHandles ELSE ServerHandles(p)

Next ==
  \/ ClientStep
  \/ CloseBegins
  \/ \E c \in Calls : Begin(c)
  \/ \E p \in Peers : PeerStep(p) \/ PeerDies(p)

Spec == Init /\ [][Next]_vars

\* Everybody polls for ever; no caller has to call, nor to close.
Fairness == WF_vars(ClientStep) /\ \A p \in Peers : WF_vars(PeerStep(p))

FairSpec == Spec /\ Fairness

(***************************************************************************)
(* Properties                                                              *)
(***************************************************************************)
Addresses == [key : Keys, server : Servers, block : Blocks] \cup {NoCache}

\* The variables keep their types; every LOCATION names an existing server.
TypeOK ==
  /\ pc \in {"open", "idle", "find", "locate", "located", "rndv_set", "write",
             "get", "read", "return", "close", "closed", "aborted"}
  /\ count \in 0 .. num_servers
  /\ call \in Calls \cup {NULL}
  /\ answer \in Values \cup {Zero, Garbage, NULL}
  /\ conns \subseteq Peers
  /\ selected \in Servers \cup {NULL}
  /\ cache \in Addresses
  /\ peer \in [Peers -> {"waiting", "serving", "looping", "ended", "dead"}]
  /\ entries \in [Servers -> [Keys -> Values \cup Blocks \cup {NULL}]]
  /\ memory \in [Servers -> [Blocks -> Values \cup {Zero}]]
  /\ drifted \subseteq Servers

Home(k) == SelectedServer(k, num_servers)

\* A key lives on the server the indexer computes for it and on no other.
KeyAtHome ==
  \A k \in Keys, s \in Servers : entries[s][k] # NULL => s = Home(k)

\* Nothing is closed, given up or lost.
Connected ==
  /\ pc \notin {"close", "closed", "aborted"}
  /\ \A p \in Peers : peer[p] # "dead" /\ (pc = "open" \/ p \in conns)

SetPending(k) ==
  inbox[Home(k)] # NULL /\ inbox[Home(k)].type = "EAGER_SET_REQUEST"
  /\ inbox[Home(k)].key = k

\* The one cache of the client never holds an address of another server, nor
\* a block that its server has given to another key or taken from the key, also
\* after a call has failed because a server or its connection was lost.
CacheAtHome ==
  cache.key # NULL =>
    /\ cache.server = Home(cache.key)
    /\ entries[cache.server][cache.key] = cache.block
    /\ ~SetPending(cache.key)

\* Every dkv_set and dkv_get returns, unless a peer has died, or a server that
\* had taken back a block before took back another and loops.
EveryCallReturns ==
  pc \in {"find", "locate"} ~>
    \/ pc \in {"idle", "close", "closed"}
    \/ \E p \in Peers : peer[p] \in {"dead", "looping"}

\* dkv_close reaches the indexer and every server, also when it comes right
\* behind a set or another one has died: all that are left end.  It does not
\* get past a server that loops.
CloseEndsEverybody ==
  pc = "close" ~>
    \/ \A p \in Peers : peer[p] \in {"ended", "dead"}
    \/ \E s \in Servers : peer[s] = "looping"

\* A rendezvous set counts from the moment its block is known: nobody but the
\* caller can look before it is written.
SetApplied == pc = "write" \/ (pc = "rndv_set" /\ inbox[selected] = NULL)

\* What a get of k finds now.
View(k) ==
  LET e == entries[Home(k)][k] IN
  IF SetApplied /\ call.key = k THEN call.value
  ELSE IF SetPending(k) THEN inbox[Home(k)].value
  ELSE IF IsBlock(e) THEN memory[Home(k)][e] ELSE e

StoredNow == [k \in Keys |-> IF Connected THEN View(k) ELSE NULL]

CallNow == IF Connected THEN call ELSE NULL

PhaseNow ==
  IF ~Connected \/ call = NULL THEN "idle"
  ELSE IF pc = "return" \/ SetApplied THEN "done" ELSE "called"

AnswerNow == IF Connected THEN answer ELSE NULL

\* The cluster implements the store that one server promises.
Store == INSTANCE KvStore WITH
  Answers <- {Zero, Garbage},
  store <- StoredNow, call <- CallNow, phase <- PhaseNow, answer <- AnswerNow,
  up <- Connected

ImplementsStore == Store!Spec
=============================================================================
