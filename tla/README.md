# TLA+ models of the communication networks workshop

Four exercises of one course: a TCP echo (Ex1), the same with several streams
and `select` next to an InfiniBand benchmark (Ex2), a key-value store over
RDMA (Ex3), and its successor split into a client, servers, an indexer and a web
server (Ex4). Ex4 holds nearly all the state and all the interaction, and the
models are deepest there; every other program that compiles has a model as well.

## Inventory

| component | source | state | operations | hard behaviour | model |
|---|---|---|---|---|---|
| key-value server | `Ex4/kv_server.c` | list of `KV_ENTRY`; pool of registered `MEMORY_INFO` blocks (`mem_pool_*`, `tainted_mem_pool_*`, `pool_size`); one packet buffer | `handle_server_packets_only`, `maintain_pool`, `clear_server_data` | the client reads and writes blocks by RDMA without the server noticing; pointers and counter drift from the list | `KvServer` |
| key-value client | `Ex4/kv_client.c` | one-key cache of a block's address and length; the work request and completions in progress | `kv_set`, `kv_get`, `kv_close`, `pp_wait_completions` | cached address against what the server did since; send completion and response in either order; no timeout | `KvSession` |
| distributed store | `Ex4/kv_client.c` `mkv_*`, `dkv_*`; `Ex4/kv_indexer.c` | one context per server, one for the indexer, one cache for all | `dkv_open`, `dkv_set`, `dkv_get`, `dkv_close`; FIND -> LOCATION, `hash_key` | partial failure of opening; peers that die; shared cache; word width of the hash | `DkvCluster` |
| connection set-up | `orig_main`, `pp_*_exch_dest`, `pp_connect_ctx`, `pp_init_ctx` in every program | queue pair state, TCP socket, posted receives | exchange of addresses over TCP, INIT/RTR/RTS | who is ready to receive when; competing clients; the peer dying half way | `QpHandshake` |
| web server | `Ex4/nweb23.c` | the tree, one socket at a time, its own copy of the client | `main`, `recursive_fill_kv`, `web`, `logger` | errors exit the process; uninitialised length; oversized files | `WebServer` |
| template of Ex3 | `Ex3/kv_template.c` | server and client in one program; a cache entry per key; two node lists | as the store above | a response that is never sent; waits that count the wrong completions; a NUL put into another node | `KvTemplate` |
| TCP echo | `Ex1/client.cpp`, `Ex1/server.cpp` | sockets, read buffer | `echo`, `warm_up`, `measure_*`, `kill_client` | short reads; clients nobody accepts | `EchoTcp` over `TcpStream` |
| echo with select | `Ex2/client.cpp`, `Ex2/server.cpp` | set of client sockets, one buffer | `selectPhase`, `echoClient`, `killServer` | events in any order, timeout, buffers that fill up | `EchoSelect` over `TcpStream` |
| InfiniBand benchmark | `Ex2/ib_perf.c` | send window, completion counters, posted receives | `pp_post_send`, `pp_wait_completions`, the measurement loops | posted against completed; a wait that counts what it did not ask for | `IbPerf` |
| RDMA and reliable connection | the adapters, as used above | queue pair, completion queues | deliver, acknowledge, fail | order of completions | external, in every model |

Not modelled: `Ex2/bw_template.c` (the ancestor of `ib_perf.c`; `servername` is the
empty string there and never NULL, so it can be no server, and its client counts
completions in the same way); `Ex4/kv_shared.c` (almost all commented out, the
live copies are in the programs); `Ex1/main.cpp` (does not compile); option
parsing, the reports and the times they print (formatting and wall clock).
`parse_args` is looked at where it decides something: the port (`QpHandshake`) and
the number of servers (`DkvCluster`).

What must hold, per component:

* server: a block belongs to one key at a time and is cleared in between, every
  address given out stays registered;
* client and server: a get returns what the last set of the key stored, whichever
  of the three paths (eager, rendezvous, cache) either took; RDMA stays inside a
  region; nothing of a call is left for the next one; every call returns;
* distributed store: a key is always looked for where it was stored, and all servers
  together are one store; closing ends every peer that is alive;
* set-up: nobody sends before the other side can receive, and nobody hangs;
* web server: the body is the file asked for, one file's trouble does not cost
  another server's files, and whoever waits is answered;
* echoes: every reply is the request it answers, and nobody waits for a server that
  has ended;
* benchmark: queues stay within bounds and receives never run out.

The hazards, each at its line, are the list `hazards` of `PROJECT.json`. What
the code turned out not to do is under "Known divergences" below.

## Modules

| module | models | composed of |
|---|---|---|
| `KvStore` | abstract: what one connection promises its caller | |
| `KvServer` | `Ex4/kv_server.c` with an open client | |
| `KvSession` | `Ex4/kv_client.c`, the server and the adapters | `KvServer`, `KvStore` |
| `DkvCluster` | `dkv_*`, `mkv_*`, the indexer, several servers | `KvStore` |
| `QpHandshake` | set-up of a connection | |
| `WebServer` | `Ex4/nweb23.c` and browsers | |
| `KvTemplate` | `Ex3/kv_template.c` | |
| `TcpStream` | two byte streams per socket, external | |
| `EchoTcp`, `EchoSelect` | Ex1; Ex2 over TCP | `TcpStream` |
| `IbPerf` | `Ex2/ib_perf.c` | |
| `*Proofs` | theorems about the module of that name; `KvSessionProofs` also those about `KvServer`, and that `KvSession` implements `KvStore` | |
| `MC*` | small instances | |

The detail of a layer is modelled once. `DkvCluster` takes a server as a map from keys
to small values or blocks, which is what `KvSession` is shown to implement, and of the pool's list only
what its drift may come to; `WebServer` takes a call of the store as one step, because nobody else uses the
connections, and one more for a peer that dies in the middle of it (no path is set twice, so that no server
takes a block back); the set-up all of them need is `QpHandshake`.

### KvServer

The variables carry the names of the code's globals. The entry list is a set of
keys and one function per field, because the list is only searched by key and
appended to when the search fails. The pool is kept node by node (`next_mem`),
because the code's idea of it (`mem_pool_tail`, `pool_size`) can differ from what
is reachable from `mem_pool_head`; that difference is what the properties are
about. `srv` is the place in `run_server`: `maintain` inside `maintain_pool`
(one loop iteration per step: `ReclaimTainted`, `RefillPool`), `poll` in
`ibv_poll_cq`. A handler is one step, from the receive completion to the posted
response and the reposted receive; the server is single threaded and nothing
else can look at its data except by RDMA, which touches block contents only.
`RegisterFails`, `RndvSetCrashes` and `HandleClose` are the three ways to stop.

The length of an entry's value is `val_len`; contents are abstract values with a
length (`ValLen`), and a block holds the last string written to it (bytes after the
NUL of a shorter string are never read as part of a C string).

### KvSession

One action per stretch of `kv_set`, `kv_get`, `kv_close` between two waits: `Set*`
and `Get*` up to the post, then what follows the wait. `sq` is the posted work request
(one at a time), `scnt` and `rcnt` the completions counted by
`pp_wait_completions`, `recvs` the receives posted. A get's result is
`Cut(c, n)` when a zero follows the `n` bytes of `c` that are copied. The RDMA read of a value that is not
cached fills a buffer of just the `value_len + 1` bytes it reads: when the value is longer than that, the buffer
has no NUL, and the result is `<<Garbage, n>>` (`StringsIn`). The adapters
are external and modelled from the way the code uses them: a send completes when
the packet is in the receiver's buffer; without a posted receive it waits
(`rnr_retry = 7`, unlimited); RDMA outside a region, or to a peer that is gone,
completes with an error and breaks the connection, and everything posted afterwards fails.

`ImplementsStore` is refinement: `Store == INSTANCE KvStore` maps the abstract
`store` to `View(k)`, what a get of `k` would find now by the path it would
take (a pending packet, the cache, the entry, the block). A set takes effect when
it returns. The abstract connection breaks when the server ends, a request
fails or the client aborts.

### DkvCluster

`pc` and `count` are the client's place in `dkv_open`, `dkv_set`, `dkv_get` and
`dkv_close`; `conns` the peers whose queue pair works, `selected` the field of the
last LOCATION, `cache` the three `last_*` globals, of which `server` is a history
part: the code forgets whose address it keeps, and `RightServer` asks whether it
happens to be good. `HashKey` is the loop of `hash_key` as a recursive function, modulo the
width of an `unsigned long`, and `SelectedServer` casts to `unsigned int` before the
modulus, as the indexer does. `PeerDies` and `OpenFails` are the faults: an indexer or
server that is not there, or goes away at any time. `drifted` are the servers that have taken a
block back (`Reclaim`): `mem_pool_tail` stays where it was, so that one of the next blocks taken back may be linked to
itself and `maintain_pool` loop, and the list may be empty when a block is wanted (`RndvSetCrashes`). Both are
choices here; how many turns of a key it takes is `KvServer`'s subject. `Offered` is the block that the pool gives
out of the free ones, any function in the proofs. An indexer that is gone ends the client
in an assert; a server that is gone makes the calls of its keys fail and leaves
all others alone.

### QpHandshake

Each process is the straight line of its `orig_main` and `pp_*_exch_dest`; the TCP
sockets carry the address and the client's `done`, and the server reads and closes
its sockets where the code does. Clients compete for one `accept`; whoever is left in
the listen queue is reset when the listening socket closes. A faulty process may fail in
any step. `posted` is the receive a process has posted, and `AdapterStep` delivers
the client's first request if there is one.

### WebServer

`main` opens the store, sets every file of the tree in any order (`readdir` promises
none), then serves one browser after the other. `value` and `file_length` are two
variables, as in `web`: the length is a local that only two of the paths of `kv_get` set.
`logger` exits the process for every error, so `Forbid` ends the server. The first answer
after a browser has reset the connection goes out, the next raises SIGPIPE: `Reply`
may end in `killed`. `Reply` writes `file_length` bytes from `value` on: a record of the two,
which differ when the length was never set (`AnyLength` stands for what the stack may hold). `DiesAsked` is
a peer that dies after its adapter has acknowledged the request and before it answers: `pp_wait_completions`
polls for ever (`polling`). A write to a browser that stays is taken to return: the answers are not larger than what
the sockets buffer, or the browser reads them.

### KvTemplate

A buffer is the value last written to it and the set of positions that hold a NUL, which is what `strcmp`
can tell; the program's mistakes with string ends are in `HandleEagerSet`, `SetWrites` and `GetRead` as the
code makes them. `caller` is either `run_throuput_tests` or anybody who uses the interface; the properties
say which caller they are about. A value with its NUL fits in a region (`MAX_TEST_SIZE`): nothing checks it,
but the sizes of the tests end before (`kv_template.c:1688`). A wait (`Poll`) takes up to two completions of
any kind. `pool` is the list from `rndv_pool_head` to NULL. `PoolRefilled` hangs the new region behind
`rndv_pool_tail` and leaves the head alone: with one region in the pool the list stays empty, and the next
request follows NULL (`PoolRunDry`). `wild` is the `next` of the last region of the first pool, which
`pp_init_ctx` does not set. A get that finds other keys in the cache searches for ever (`GetSpins`); a
length that was never set may crash the server when it copies that much (`ServerCrashes`).

### TcpStream, EchoTcp, EchoSelect

A stream is the number of bytes in the sender's and in the receiver's buffer; a
segment carries up to `SEGMENT` bytes. `owed` is a history variable: bytes sent and
not received back. A client of Ex2 makes its blocking calls one after the other on all its
sockets; where it is are three counters: `phase` (0 connects, 1 warms up, then one per packet size),
`stream`, and `todo`, the packets of the throughput test that are left (0 in the latency test).
Warm-up rounds repeat any number of times (times are not modelled). The server's `select`
returns all that is ready (`ready`), which is then taken one socket after the other while
more becomes ready; it times out only when no client is left. `short` is a history variable: some client's `recv` has
returned less than the packet it waits for.

### IbPerf

Both loops of `client_performance` and the two waits of the server. Completions carry
their kind, and `pp_wait_completions` counts any kind, in batches of `WC_BATCH`; what it
counts beyond its goal is forgotten. `sq_size` is the number of sends the adapter takes before one has completed:
`max_send_wr` (`tx_depth`) at least, and adapters give more than was asked for. A post that is refused ends the client
(`PostFails`). Left out: a server that fails after the client has
left, when there is nothing to measure any more.

## Runs

| run | question | result |
|---|---|---|
| `kv_server` | any client: shape of the pool, block ownership, clearing, registration | holds |
| `kv_session` | does a session implement the store? does the cache stay right, does anything leak from call to call, is RDMA in bounds? | holds for large values of one length, up to the one whose read ends with the region |
| `kv_session_live` | does every call return, does closing end the server? | holds while no key changes between small and large |
| `kv_session_stale_length` | get after set, large values of two lengths | fails: the server's `val_len` is stale after a cached set, and the next get that is not cached returns a buffer without a NUL |
| `kv_session_pool` | every call returns, one key changes between small and large | fails: a block is linked to itself and `maintain_pool` loops |
| `qp_handshake` | three clients, two of them and the server may die | one client learns the address, finds the server ready and is heard; nobody hangs |
| `dkv_cluster` | two servers and an indexer, of which server 1 and the indexer may be missing or die; keys change between small and large | they are one store; the one cache never mixes up servers, also after a death; calls return unless a peer dies or a server loops, closing ends everybody behind no server that loops |
| `web` | two browsers that may leave or stay silent, a file that cannot be read back, one that fits no region, an indexer and a server that may die | what is written is the file asked for, and all of it unless it comes from the cached address; only a death or an oversized file costs a connection; whoever has sent a request and stays is answered, unless the process ends or waits for ever for a dead peer or a silent browser |
| `kv_template` | the program's own tests, and any caller | the tests' assertion holds, no two keys share a region, the pool never runs dry; a close fails only over the `next` that was not set, before the first rendezvous request; in the second phase every call returns |
| `echo_tcp` | three clients for a server that accepts one, any may be stopped | packets keep to themselves, the server ends well, nobody waits for it afterwards |
| `echo_select` | a client with one stream, one with two that may be stopped | no bytes change sockets, each client is served to its end or not at all while none is stopped, all calls return, the server ends |
| `ib_perf` | three windows of four packets, polls of two, a server that may leave first | `max_send_wr + 2` places take every post, one less all but the last; the completion queues never overflow, receives never run out, the client ends |

### Bounds

* `kv_*`: two keys, one to four values. One key suffices for every interleaving of a call with itself, two
  to move the cache and to compete for blocks. `MIN_POOL_NODES = 2` instead of 10: the least with a head
  that is not the tail. The drift of the pool needs the list to be cycled through, so 10 only makes the
  traces longer.
* `Blocks`: what `malloc` may return. Six in `kv_server`, so that blocks can be lost three times before
  memory ends; when no block is left the refill waits. In `kv_session_live` three are enough, since no block
  is ever lost.
* `INT_MAX` (4 to 8) caps `pool_size`. When `maintain_pool` loops on one block, the code counts until the
  `int` overflows and goes on looping; the model stops at the cap.
* Lengths: packet header 2, eager limit 8, region 10 bytes, but 7 in `kv_session`: there a large value has 5
  characters, of which a set writes 6 bytes and a get reads 7, up to the last one. Only the comparisons
  matter.
* Symmetry of `Blocks` in runs without liveness: no definition tells blocks apart.
* `dkv_cluster`: three keys, of which two hash to one server, two values, two blocks per server (a server
  needs no more than its keys). `LONG = 2^20` and `INT = 2^16` are small enough for both the wrap-around of
  the hash and the cast to change its value.
* `qp_handshake`: `BACKLOG = 2` of three clients, so that one is accepted, one waits to be reset, one may
  come too late. `PORT = 7 = SHORT_MAX`: the largest that fits the field.
* `web`: one file per case (small, large, large on another server, exactly as long as a region, longer than
  one), three servers, two browsers of which one waits in the backlog. `AnyLength` is a length below and one
  above every file's.
* `kv_template`: one small and one large value, two keys, two regions in the pool (the code has 10): the
  least with which the list is not empty after the first request. A pool of one is excluded by the module's
  assumption: its list stays empty and the next request crashes the server.
* `echo_*`: packets of one to three bytes, two packets per size in the throughput test, or one
  (`echo_select`); the buffers take as many. `echo_select` has three sockets, two of them of one process.
  Its packets fit a segment, so that no `recv` of a client is short; that `ServedOrNot` also holds of
  packets that travel in pieces is the theorem's part, and was looked at with TLC in instances of up to 1.5
  million states that are too large for the liveness properties.
* `ib_perf`: `ITERS = 12`, `DEPTH = 4`, `REFILL = 1`: three windows and several refills. `SQ_SIZES`: as many
  places as asked for, one more and two more; with two more no post is ever refused, so that larger queues
  behave alike.

Assumed of the environment: receives are posted one at a time (the default of `-r`), keys
are non-empty and fit a packet (`kv_client.c:809` "key length < 4KB"), `malloc` succeeds, the client's own
`ibv_reg_mr` succeeds, a response is acknowledged before the next request is handled
(`max_send_wr` is 1), TCP and the reliable connection lose, reorder and double nothing.

### Fairness

Everywhere weak fairness, and only of programs and of the network: the loops that poll do so without
blocking, a blocking call of TCP returns when it can, and a reliable connection delivers while both ends
exist. No caller has to call or to close, no process has to fail or to be stopped, and `ibv_reg_mr` never
has to fail; when it does, the server stops and a call may wait for ever, so `EveryCallReturns` of
`KvSession` excepts that state. Of a browser nothing is assumed: the server's `read` has no timeout, and
`EveryBrowserAnswered` excepts the server that waits there for ever, as it does the one that polls for a
dead peer (`Stuck`). `EveryCallReturns` of `DkvCluster` excepts a peer that has died and a server that
loops, `CloseEndsEverybody` a server that loops. The steps of one program are one fairness condition, since
it does one thing after the other.

Definitions whose name starts with `Bug` are slips the code does not have; they are used by
no specification. Each is substituted for the definition after it in a mutation run
(`mutants` of `PROJECT.json`), where the property must fail.

## Known divergences

Two are runs of `PROJECT.json`, `kv_session_stale_length` and `kv_session_pool`. The others are
stated at the end of their module ("What the code does not do") and found by TLC when the
statement is added to the run's configuration with the change named here.

| statement | configuration | the code | what says otherwise |
|---|---|---|---|
| `KvServer.AllDeregistered` | `KvServer.cfg` | `kv_server.c:893`: a block appended behind a tail that was handed out is lost and stays registered, so the protection domain cannot be freed | `kv_server.c:921` "deregister mr of structs" |
| `KvSession.RdmaInBounds` | `KvSession.cfg`, `MAX_TEST_SIZE = 6` | `kv_client.c:858`: one byte more than the region is read of a value of the largest length | the test of that length, `kv_client.c:1247-1257` |
| `KvSession.AbsentIsEmpty` | `KvSession.cfg` | `kv_server.c:720`: the response is cut to 9 bytes, one of them of the length | `kv_server.c:715` `respond ""` |
| `KvSession.ServerSurvives` | `KvSession.cfg`, `Values = {s1, m1}`, seven blocks, `INT_MAX = 8` | `kv_server.c:856`: `mem_pool_head` is NULL while `pool_size` is not 0 | `kv_server.c:854` |
| `QpHandshake.AcceptedPortConnects` | `QpHandshake.cfg`, `PORT = 8` | `kv_shared.h:148`: the client keeps the port in a `short`; above 32767 it connects elsewhere | `kv_client.c:448`, the usage text, without such a limit |
| `WebServer.LengthIsSize` | `WebServer.cfg` | `nweb23.c:892`: a get from the cache does not set the length; header and body are of whatever length the stack holds | `kv_shared.h:99` "value is binary, so needs to have length!" |
| `WebServer.StoredIsServed` | `WebServer.cfg` (the file `full`) | `nweb23.c:879`: a value that just fits its region is read with one byte more | it was stored without an error |
| `WebServer.NobodyWaitsForOthers` | `WebServer.cfg` | `nweb23.c:1177`: one browser that sends nothing keeps all others waiting; so does `nweb23.c:1055`, where a peer died before its answer | `nweb23.c:1168`, a child for every browser |
| `WebServer.SurvivesRequests` | `WebServer.cfg` | `nweb23.c:1165`: `exit(3)` for a request that is refused | `nweb23.c:1168` "this is a child web server process, so we can exit on errors": there is no child |
| `WebServer.AbsentIsAnswered` | `WebServer.cfg` | `kv_server.c:720`: the answer has no length, the copy runs over the packet | `nweb23.c:1154`, the 404 that is never sent |
| `KvTemplate.EveryCallReturns` | `KvTemplate.cfg` | `kv_template.c:1368-1369`: two waits for one completion each, while a poll may take both at once; 1385-1394: a search of the cache that never advances | the comments of the two lines |
| `KvTemplate.GetReturnsLastSet` | `KvTemplate.cfg` | `kv_template.c:882`: the new node's `val_len` is not set | the tests, `kv_template.c:1776-1781` |
| `KvTemplate.SetKeepsOthers` | `KvTemplate.cfg`, `Big = {}` | `kv_template.c:884`: the NUL goes into the first node of the list | a set names one key |
| `EchoTcp.WholePacketReceived` | `EchoTcp.cfg`, `SEGMENT = 2` | `Ex1/client.cpp:149`: one `recv` per packet | `Ex1/client.cpp:148` "Receive 1 packet with (size_t) packet_size" |
| `EchoSelect.LeavingIsHandled` | `EchoSelect.cfg`, `SEGMENT = 1`, `Stoppable = {}` | `Ex2/server.cpp:141`: a client that leaves with bytes unread resets the connection, and the server exits | `Ex2/server.cpp:207` "handling (new/ old/ leaving) clients" |
| `EchoSelect.EveryCallReturns` | `EchoSelect.cfg`, `MCSizes == <<1, 6>>`, `BUFFER = 6`, `SNDBUF = RCVBUF = SEGMENT = 1`, `Stoppable = {}` | `Ex2/client.cpp:165`: packets larger than all buffers are sent on every stream before anything is received | `Ex2/client.cpp:339`, sizes up to 1 MB |
| `IbPerf.LatencyOfAPacket` | `IbPerf.cfg` | `ib_perf.c:839`: the wait is over with an old completion | `ib_perf.c:838` "Receive 1 packet with (size_t) packet_size"; the latency column of `infiniband.csv` is 0 |
| `IbPerf.PostsSucceed` | `IbPerf.cfg` | `ib_perf.c:834`: up to two sends more than `max_send_wr`, because a wait counts the server's message for a send and none precedes the latency packet; on an adapter that gives only what was asked for, the client always ends with "Client couldn't post send" | `ib_perf.c:798` "Sending continuously pre defined # of packets" |

## Proofs

Each `*Proofs` module states an inductive invariant that TLC has checked on the small
instances before, proves that it holds initially and is kept by each action (one lemma per action
or group of actions), and draws the theorems from it. All are for any sets of keys, values,
blocks, clients and so on, and for any sizes that the module's `ASSUME` allows.

**`KvSessionProofs`, part one: the server** (`IndInv`): `[]TypeOK`, `[]PoolShape`, `[]OneHome`, `[]NoSharedBlock`,
`[]FreshBlockCleared`, `[]AddressesRegistered`. `NoSharedBlock` is not inductive: the next
head of the pool is whatever the present head links to, and links are written through a
`mem_pool_tail` that may be owned by an entry or lost. The strengthening is `PoolShape`:
there is a set `F` of free blocks that contains the head, is closed under `next_mem`, has no
two links to one block, is disjoint from the owned and the tainted ones, holds only cleared
blocks, and into which no other block points. The stale tail is the interesting case:

* while `mem_pool_tail` is in `F`, no block outside `F` has a link, so whatever is appended
  can join `F` (`AppendToFree`); the blocks cut off by the new link simply stay in `F`;
* once the tail has been handed out it is outside `F`, and what is appended behind it stays
  outside: it is lost, but it cannot be shared.

So the drift that makes the pool run dry and `maintain_pool` loop (the violated run) can
never give one block to two keys. `MIN_POOL_NODES >= 2` is assumed so that the pool can never
be counted down to 0, the value for which `maintain_pool` forgets the list and starts anew.

**Part two: the session** (`SInv`, under `FitsRegions`: no key is empty and a value is two bytes shorter
than a region): `SessionUsesServer`, a session is a behaviour of `ServerSpec`, so all that is proved with
an open client holds with the real one; `[]SessionTypeOK`, `[]CacheCoherent`,
`[]NothingLeftOver`, `[]RdmaInBounds`. `SInv` is `IndInv` and `Session`, whose heart is `Phases`: a
call's request or answer is in exactly one place (posted, in the server's buffer, on its way back,
in the client's buffer, lost with the server), and only an eager set may still be unhandled when the
call has returned. `CacheRight` says the cached address is the block of that key's entry unless
such a set is on its way; it is what makes the RDMA of a cached key safe.

**Part three: it implements `KvStore`** (`RInv`, also under `LargeAlike`: the large values of a key are of
one length): `SessionImplementsStore`, a session refines `KvStore`. `RInv` adds `Contents`, the value last
set is in the packet, the entry or the block, whichever a get of the key will look at, with a length that
makes it read all of it, and `Progress`, the same for the set or get under way. Neither hypothesis can be
dropped: without `LargeAlike` the run `kv_session_stale_length` shows a get that returns an unterminated
piece of the value, without `FitsRegions` a read leaves its region ("Known divergences").

**`DkvClusterProofs`** (`IInv`): `[]TypeOK`, `[]KeyAtHome`, `[]CacheAtHome`. The conjuncts follow a
question around: `IndexerMail` and `SelectedHome`, the indexer answers the question of the call under way;
`ServerMail`, a server is asked about keys that are at home there and answers with the block the
entry has; `CacheAtHome`, the cache is right for the home of its key whether or not
the connection works. That a key has a home at all is `HashIsNumber`: djb2 computes a number
for every key. The loop is a recursive function, so its value is known only once some function is shown
to satisfy the equation (`HashesExist`): a least length without one is impossible (`Least`).

The second half of the module proves `ClusterImplementsStore`, that `DkvCluster` refines `KvStore` for
any number of servers and whoever dies. `MInv` is what it needs beside `IInv`: `Addressed`, the block
that is written or read is the one of the call's key; `OwnBlocks`, no two keys of a server share
a block, so that an RDMA write shows in one key only; `SmallAnswers`, a small value on the wire is
still the one of the entry; `Asking`, what waits at the server during a large set is that set's own
request, so that the set counts from the moment the block is given. The steps of a connected cluster leave
what a get would find (`View`) alone, but for these: `SetEager`, `SetCached` and the handling of a
rendezvous request are `ApplySet`, `GetSmall` and `Read` are `ApplyGet`, and what ends a connection
is `Break`.

**`QpHandshakeProofs`** (`IInv`): `[]TypeOK`, `[]PeerReady`, `[]OneClient`. `OwnMessages` (what is on a
socket comes from its two ends), `ToldLast` (the server's address is on the wire only after its queue
pair is connected to that client) and `FilledByConn` carry the argument: a
client that has the address is the one that was accepted, and the receive is still posted.

**`WebServerProofs`** (`IInv`): `[]TypeOK`, `[]ConnectionsKept`, `[]RightBody`. `CacheKnown` says the cached
path is a large file and comes with its own block and size, so a cached get never reads another file, nor
less than all of it; `ValueKnown`, what `web` has read is at least as long as the file, and `file_length` is
the file's unless it is of a large file and not set: what `RightBody` says of the answer, one step earlier;
`RequestKnown` that `web` works on what it has resolved.

**`EchoTcpProofs`** (`IInv`, and `FitInv` under `PacketsFit`: every size fits one segment and the buffers):
`[]TypeOK`, `[]NothingLost`; `[]PacketsApart`, `[]ServerEndsWell`. `OnePiece` says that a packet is
nowhere or, whole, in one of five places, and `Endings` when a connection can be reset.

**`EchoSelectProofs`** (`IInv`, `ServedInv`): `[]TypeOK`, `[]NothingLost`; `[]ServedOrNot`, both for packets
and buffers of any size. The server has one buffer for all clients; `ServerSide` says whose bytes are in it,
where in the loop over the descriptors the server is, and that what it has in hand was ready; `NotConnected`
that a socket without a connection carries nothing. `NothingLost` is then inductive with them, whoever is
stopped and however small the buffers. For `ServedOrNot`, as long as nobody was stopped and no `recv` was
short: `Accounts`, a client that is to send is owed nothing but what it has sent of that packet already, and
one that is to receive the whole packet it has sent, in however many pieces (`Owes`); `Connections`, the
server has not closed what a client still uses, and what a client has closed is empty; `Ending`, the server
ends by the timeout, when no client is left.

**`KvTemplateProofs`** (`IInv`, `TInv`): `[]TypeOK`, `[]RegionsApart`, `[]ClosesClean`, and that one poll
takes all completions there are; `[]AssertHolds`. `IInv` holds whatever the caller does. `Pools`: the
regions are 1 to n, each is in the pool or handed out and none in both, and the pool is as long as at the
start, because what is taken at the head is made good at the tail before the next request: with two regions
or more (`MIN_POOL_NODES >= 2`, an assumption of the module) the tail is still in the list when it is. The
`next` that was never set is in the list only until the first request takes a region. `Cached`: a key's
address is a region in use that no other key has; the step from one to the other is the address on the wire,
which nobody has yet (`Granted`). That needs `Phases`: the request or answer of a call is in one place, and
the completions counted, queued and still to come add up to what the waits ask for, so that the client reads
`ctx->buf` when the answer is there. The types follow from it with `Bounded`: an RDMA request is for a
region there is, NULs stay inside the buffers, and a get never ends before a first answer came. `TInv` adds
what is true when `run_throuput_tests` calls. First phase (`EagerTest`): a key is set once, so every set
appends a node and the mistakes of `ReplaceNode` are never reached; a get is sent after the set and handled
after it. Second phase (`RndvTest`): the write of a value goes out without its NUL, and the read stops
before it, so that the string that is compared ends at the NUL which the same set left in `remote_buf`; this
holds because a key is read right after it was written.

**`IbPerfProofs`** (`IInv`): `[]TypeOK`, `[]ReceivesCounted`, and `[]QueuesFit` for `DEPTH >= 2`.
`ClientWindow` bounds the sends outstanding by the completions the waits have counted, and so says for which
sizes of the send queue a post can be refused;
`ServerWindow` relates what the server has counted to what the client has sent, so that it cannot
leave before the last window has come, and `ErrorsLast` that only the last packet can fail. With
`DEPTH = 1` `QueuesFit` is false: TLC fills the completion queue of two entries with three.

The assumptions are the `ASSUME` of each module, which TLC evaluates in every run, and the
hypotheses named above, which are stated in the theorems.

Every invariant and every refinement that a run checks is proved for all values of the constants, under
the assumptions and hypotheses named. Only model-checked: the liveness properties of the runs (liveness
under fairness and ENABLED are out of the prover's reach) and the divergences above, which are counterexamples.

## What is left out

* The throughput and latency tests of the store's `main`, and every printed time: wall clock and formatting.
  What they call is modelled, and `KvTemplate` has the calls of its `run_throuput_tests`.
* The service level, MTU and path of a queue pair, and signalling options of the adapters.
* `Ex4`: more than one receive posted (`-r`); `malloc` that fails; a store of which
  one server has both small and large values of several lengths behind several servers at once
  (`KvSession` has the lengths, `DkvCluster` the servers).
* `nweb23.c`: file types by extension (a request is a file, an absent path or a bad one) and its copies
  of `pp_post_send` and of the set-up, which are those of `KvSession` and `QpHandshake`.
* Crash recovery: nothing is persistent in any of the programs, and no program restarts another.
