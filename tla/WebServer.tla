------------------------------ MODULE WebServer ------------------------------
(***************************************************************************)
(* The web server of Ex4 (nweb23.c).  It connects to the distributed store *)
(* as a client, puts every file of its directory there, and then answers   *)
(* one browser after the other with dkv_get, in one process.               *)
(*                                                                         *)
(* Its copy of the client carries the length of a value beside it.  What   *)
(* the store does is the subject of DkvCluster; here a call of it is one   *)
(* step, because nobody else uses the connections, and one more for a peer *)
(* that dies in the middle of it.  A file is its name and its size, and a  *)
(* browser's request a file, an Absent one or a Bad one.                   *)
(***************************************************************************)
EXTENDS Integers, Sequences, FiniteSets

CONSTANTS
  Files, Size, Home,    \* the tree, and the server of every path in it
  Index,                \* what "GET /" asks for: a file or Absent
  Root, Absent, Bad,
  num_servers, Indexer,
  Faulty,               \* peers that may be unreachable, or die
  Browsers,
  EAGER_LIMIT,          \* the least size that does not fit in a packet
  MAX_TEST_SIZE,        \* the size of a memory region
  AnyLength,            \* what a length nobody has set may be
  NULL, Zero, Unset

Servers == 0 .. num_servers - 1
Peers == Servers \cup {Indexer}

ASSUME WebAssumption ==
  /\ num_servers \in Nat \ {0}
  /\ Home \in [Files -> Servers] /\ Size \in [Files -> Nat]
  /\ Index \in Files \cup {Absent}
  /\ {Root, Absent, Bad, NULL, Zero, Unset} \cap Files = {} /\ Absent # NULL
  /\ Faulty \subseteq Peers
  /\ EAGER_LIMIT \in Nat /\ MAX_TEST_SIZE \in Nat
  /\ EAGER_LIMIT <= MAX_TEST_SIZE
  /\ AnyLength \subseteq Nat /\ Unset \notin Nat

VARIABLES
  pc, count,        \* where main is, and its loop counter over the peers
  broken,           \* peers whose connection no longer works
  todo, stored,     \* files still to be set, and those the servers have
  cache,            \* the last large key, its block and length
  backlog, current, \* browsers not yet accepted, and the one being served
  asked,            \* what its request resolves to
  value, file_length,
  browser, request, \* every browser's state, and what it asks for
  reply             \* what it got

startVars == <<count, todo, stored>>
webVars == <<current, asked, value, file_length>>
browserVars == <<backlog, browser, request, reply>>
vars == <<pc, startVars, broken, cache, webVars, browserVars>>

\* "polling": in pp_wait_completions, for an answer that will never come.
Running ==
  {"open", "fill", "listen", "accept", "read", "get", "reply", "close", "polling"}
Ended == {"exited", "aborted", "killed"}   \* exit(3), assert, a signal

\* A URL with a supported extension, "GET /", or what is answered with 403.
Requests == Files \cup {Root, Absent, Bad}

NoCache == [key |-> NULL, block |-> NULL, len |-> 0]
NoValue == [of |-> NULL, len |-> 0]

Init ==
  /\ pc = "open" /\ count = 0 /\ broken = {}
  /\ todo = Files /\ stored = {} /\ cache = NoCache
  /\ current = NULL /\ asked = NULL /\ value = NoValue /\ file_length = Unset
  /\ backlog = <<>>
  /\ browser = [b \in Browsers |-> "idle"]
  /\ request = [b \in Browsers |-> NULL]
  /\ reply = [b \in Browsers |-> NULL]

(***************************************************************************)
(* main, up to the loop that accepts                                       *)
(***************************************************************************)

\* init_dkvs_client: the indexer first, then the servers in their order.
Target == IF count = 0 THEN Indexer ELSE count - 1

OpenPeer ==
  /\ pc = "open" /\ Target \notin broken
  /\ IF count = num_servers THEN pc' = "fill" /\ UNCHANGED count
                            ELSE count' = count + 1 /\ UNCHANGED pc
  /\ UNCHANGED <<broken, todo, stored, cache, webVars, browserVars>>

OpenFails ==
  /\ pc = "open" /\ Target \in broken
  /\ pc' = "aborted"
  /\ UNCHANGED <<startVars, broken, cache, webVars, browserVars>>

Small(f) == Size[f] < EAGER_LIMIT

\* An RDMA access to len bytes of a region.
InRegion(len) == len <= MAX_TEST_SIZE

Usable(f) == Home[f] \notin broken

\* dkv_set of a small file; its result is not looked at.
FillSmall(f) ==
  /\ pc = "fill" /\ f \in todo /\ Small(f) /\ Indexer \notin broken
  /\ todo' = todo \ {f}
  /\ stored' = IF Usable(f) THEN stored \cup {f} ELSE stored
  /\ UNCHANGED <<pc, count, broken, cache, webVars, browserVars>>

BugAddressKept(f, len) ==
  [key |-> f, block |-> IF cache.block = NULL THEN f ELSE cache.block, len |-> len]

Remembered(f, len) == [key |-> f, block |-> f, len |-> len]

\* dkv_set of a large one.  A write past the region breaks the connection;
\* the error is returned to recursive_fill_kv, which ignores it.  No path is
\* set twice, so the key is never in the cache already.
FillLarge(f) ==
  /\ pc = "fill" /\ f \in todo /\ ~Small(f) /\ Usable(f) /\ Indexer \notin broken
  /\ todo' = todo \ {f}
  /\ cache' = Remembered(f, Size[f])
  /\ IF InRegion(Size[f])
     THEN stored' = stored \cup {f} /\ UNCHANGED broken
     ELSE broken' = broken \cup {Home[f]} /\ UNCHANGED stored
  /\ UNCHANGED <<pc, count, webVars, browserVars>>

\* The asserts after pp_wait_completions in dkv_set and in kv_set.
FillFails(f) ==
  /\ pc = "fill" /\ f \in todo
  /\ Indexer \in broken \/ (~Small(f) /\ ~Usable(f))
  /\ pc' = "aborted"
  /\ UNCHANGED <<startVars, broken, cache, webVars, browserVars>>

FillEnds ==
  /\ pc = "fill" /\ todo = {}
  /\ pc' = "listen"
  /\ UNCHANGED <<startVars, broken, cache, webVars, browserVars>>

\* socket, bind and listen, each of which logs an ERROR and exits on failure.
Listen ==
  /\ pc = "listen"
  /\ pc' \in {"accept", "exited"}
  /\ UNCHANGED <<startVars, broken, cache, webVars, browserVars>>

\* The peers whose answer a call of the store waits for: the indexer's to
\* FIND, and the server's to a large set or to a get that is not cached.
AnswersAwaited ==
  CASE pc = "fill" ->
         {Indexer} \cup {Home[f] : f \in {g \in todo : ~Small(g)}}
    [] pc = "get" ->
         {Indexer} \cup (IF cache.key = asked THEN {}
                         ELSE IF asked \in Files THEN {Home[asked]} ELSE Servers)
    [] OTHER -> {}

\* A peer dies after its adapter has acknowledged the request.  Nothing is in
\* flight that could fail, and the wait for the answer has no end.
DiesAsked(p) ==
  /\ p \in (Faulty \cap AnswersAwaited) \ broken
  /\ p = Indexer \/ Indexer \notin broken
  /\ pc = "fill" => todo # {}
  /\ broken' = broken \cup {p}
  /\ pc' = "polling"
  /\ UNCHANGED <<startVars, cache, webVars, browserVars>>

PeerDies(p) ==
  /\ p \in Faulty \ broken
  /\ broken' = broken \cup {p}
  /\ UNCHANGED <<pc, startVars, cache, webVars, browserVars>>

(***************************************************************************)
(* Browsers                                                                *)
(***************************************************************************)
Listening ==
  pc \in {"accept", "read", "get", "reply", "close"} \/ (pc = "polling" /\ todo = {})

Connect(b) ==
  /\ Listening /\ browser[b] = "idle"
  /\ browser' = [browser EXCEPT ![b] = "connected"]
  /\ backlog' = Append(backlog, b)
  /\ \E r \in Requests : request' = [request EXCEPT ![b] = r]
  /\ UNCHANGED <<pc, startVars, broken, cache, webVars, reply>>

SendRequest(b) ==
  /\ browser[b] = "connected"
  /\ browser' = [browser EXCEPT ![b] = "waiting"]
  /\ UNCHANGED <<pc, startVars, broken, cache, webVars, backlog, request, reply>>

\* The user gives up, before or after the request was sent.
Leave(b) ==
  /\ browser[b] \in {"connected", "waiting"}
  /\ browser' = [browser EXCEPT ![b] = IF @ = "connected" THEN "silent" ELSE "left"]
  /\ UNCHANGED <<pc, startVars, broken, cache, webVars, backlog, request, reply>>

(***************************************************************************)
(* web, called for every connection accepted                               *)
(***************************************************************************)
Accept ==
  /\ pc = "accept" /\ backlog # <<>>
  /\ current' = Head(backlog) /\ backlog' = Tail(backlog)
  /\ file_length' = Unset
  /\ pc' = "read"
  /\ UNCHANGED <<startVars, broken, cache, asked, value, browser, request, reply>>

\* A connection that was reset while it waited.
AcceptFails ==
  /\ pc = "accept" /\ backlog # <<>>
  /\ browser[Head(backlog)] \in {"silent", "left"}
  /\ pc' = "exited"
  /\ UNCHANGED <<startVars, broken, cache, webVars, browserVars>>

\* "GET /" is rewritten.
Resolve(r) == IF r = Root THEN Index ELSE r

\* read takes what has arrived: a request in pieces may lose its URL's end,
\* or all but the first letters.
Arrived(r) == IF r \in {Bad, Root} THEN {r, Bad} ELSE {r, Absent, Bad}

ReadRequest ==
  /\ pc = "read" /\ browser[current] \in {"waiting", "left"}
  /\ \E r \in Arrived(request[current]) \ {Bad} : asked' = Resolve(r)
  /\ pc' = "get"
  /\ UNCHANGED <<startVars, broken, cache, current, value, file_length, browserVars>>

\* logger(FORBIDDEN, ...): the answer is sent, then the process exits.
Forbid ==
  /\ pc = "read"
  /\ \/ browser[current] = "silent"
     \/ browser[current] \in {"waiting", "left"} /\ Bad \in Arrived(request[current])
  /\ pc' = "exited"
  /\ reply' = IF browser[current] = "waiting"
              THEN [reply EXCEPT ![current] = [status |-> 403]] ELSE reply
  /\ UNCHANGED <<startVars, broken, cache, webVars, backlog, browser, request>>

Get(p) == pc = "get" /\ Indexer \notin broken /\ p

\* The server answers with 9 bytes, one of them of value_length; the others
\* are of the path sent before, so the length runs to hundreds of megabytes
\* and copying that much out of the packet is a segmentation fault.
GetAbsent ==
  /\ Get(IF asked \in Files THEN asked \notin stored /\ Usable(asked)
                           ELSE ~(Servers \subseteq broken))
  /\ pc' = "killed"
  /\ UNCHANGED <<startVars, broken, cache, webVars, browserVars>>

\* The absent path may also belong to a server that is gone.
GetFails ==
  /\ pc = "get" /\ cache.key # asked
  /\ IF asked \in Files THEN ~Usable(asked) ELSE broken \cap Servers # {}
  /\ Indexer \notin broken
  /\ value' = [of |-> Unset, len |-> MAX_TEST_SIZE]
  /\ pc' = "reply"
  /\ UNCHANGED <<startVars, broken, cache, current, asked, file_length, browserVars>>

GetSmall ==
  /\ Get(asked \in stored /\ Small(asked) /\ Usable(asked))
  /\ value' = [of |-> asked, len |-> Size[asked]]
  /\ file_length' = Size[asked]
  /\ pc' = "reply"
  /\ UNCHANGED <<startVars, broken, cache, current, asked, browserVars>>

\* RDMA read into a cleared buffer; the result of the wait is ignored.  The
\* server may die between its answer and the read.
Read(f, len) ==
  \/ /\ Usable(f) /\ InRegion(len)
     /\ value' = [of |-> f, len |-> len] /\ UNCHANGED broken
  \/ /\ Usable(f) /\ InRegion(len) => Home[f] \in Faulty
     /\ value' = [of |-> Zero, len |-> len] /\ broken' = broken \cup {Home[f]}

\* One byte more than the value is read.
GetLarge ==
  /\ Get(asked \in stored /\ ~Small(asked) /\ Usable(asked) /\ cache.key # asked)
  /\ cache' = Remembered(asked, Size[asked])
  /\ file_length' = Size[asked]
  /\ Read(asked, Size[asked] + 1)
  /\ pc' = "reply"
  /\ UNCHANGED <<startVars, current, asked, browserVars>>

BugOneMore ==
  /\ Get(cache.key = asked)
  /\ Read(cache.block, cache.len + 2)
  /\ pc' = "reply"
  /\ UNCHANGED <<startVars, cache, current, asked, file_length, browserVars>>

\* From the cached address, and without a word about the length.
GetCached ==
  /\ Get(cache.key = asked)
  /\ Read(cache.block, cache.len)
  /\ pc' = "reply"
  /\ UNCHANGED <<startVars, cache, current, asked, file_length, browserVars>>

\* assert(pp_wait_completions(ctx->indexer, 2) == 0)
FindFails ==
  /\ pc = "get" /\ Indexer \in broken
  /\ pc' = "aborted"
  /\ UNCHANGED <<startVars, broken, cache, webVars, browserVars>>

\* The header and file_length bytes from value on are written; where dkv_get
\* has not set file_length, it is what the stack holds.  A browser that has
\* left resets the connection, and SIGPIPE ends the server at the first write
\* after that.
Reply ==
  /\ pc = "reply"
  /\ \/ /\ browser[current] = "waiting"
        /\ \E n \in IF file_length = Unset THEN AnyLength ELSE {file_length} :
             reply' = [reply EXCEPT ![current] =
               [status |-> 200, asked |-> asked, body |-> value, length |-> n,
                set |-> file_length # Unset]]
        /\ pc' = "close"
     \/ /\ browser[current] = "left"
        /\ pc' \in {"close", "killed"}
        /\ UNCHANGED reply
  /\ UNCHANGED <<startVars, broken, cache, webVars, backlog, browser, request>>

BugLeftOpen ==
  /\ pc = "close"
  /\ pc' = "accept"
  /\ current' = NULL /\ asked' = NULL /\ value' = NoValue
  /\ UNCHANGED <<startVars, broken, cache, file_length, browserVars>>

Close ==
  /\ pc = "close"
  /\ browser' = [browser EXCEPT ![current] = IF @ = "waiting" THEN "done" ELSE @]
  /\ pc' = "accept"
  /\ current' = NULL /\ asked' = NULL /\ value' = NoValue
  /\ UNCHANGED <<startVars, broken, cache, file_length, backlog, request, reply>>

Startup ==
  \/ OpenPeer \/ OpenFails \/ FillEnds \/ Listen
  \/ \E f \in Files : FillSmall(f) \/ FillLarge(f) \/ FillFails(f)

Web ==
  \/ Accept \/ AcceptFails \/ ReadRequest \/ Forbid
  \/ GetAbsent \/ GetFails \/ GetSmall \/ GetLarge \/ GetCached \/ FindFails
  \/ Reply \/ Close

Browse(b) == Connect(b) \/ SendRequest(b) \/ Leave(b)

Next ==
  \/ Startup \/ Web
  \/ \E b \in Browsers : Browse(b)
  \/ \E p \in Peers : PeerDies(p) \/ DiesAsked(p)

Spec == Init /\ [][Next]_vars

\* The process runs.  Nothing obliges a browser to send, or to leave.
FairSpec == Spec /\ WF_vars(Startup \/ Web)

(***************************************************************************)
(* Properties                                                              *)
(***************************************************************************)

\* The variables keep their types: web resolves every request to a path.
TypeOK ==
  /\ pc \in Running \cup Ended
  /\ count \in 0 .. num_servers
  /\ broken \subseteq Peers
  /\ todo \subseteq Files /\ stored \subseteq Files \ todo
  /\ cache.key \in Files \cup {NULL} /\ cache.block \in Files \cup {NULL}
  /\ backlog \in Seq(Browsers)
  /\ current \in Browsers \cup {NULL}
  /\ asked \in Files \cup {Absent, NULL}
  /\ value.of \in Files \cup {NULL, Zero, Unset}
  /\ file_length \in Nat \cup {Unset}
  /\ browser \in [Browsers -> {"idle", "connected", "waiting", "silent", "left", "done"}]

Answered(b) == reply[b] # NULL /\ reply[b].status = 200

\* As long as the file's server can be reached, a browser has got the file it
\* asked for: the number of bytes written is the file's size, and they were
\* all read from the file's own block.  Only of a large file, read from the
\* cached address, is the number left to chance (the README has the case).
RightBody ==
  \A b \in Browsers :
    Answered(b) =>
      LET r == reply[b] IN
        r.asked \in Files /\ Usable(r.asked) =>
          /\ r.body.of = r.asked /\ r.body.len >= Size[r.asked]
          /\ r.length = Size[r.asked] \/ (~r.set /\ ~Small(r.asked))

\* Only a peer's death or a file that cannot be read back from one region
\* costs a connection; the files of all other servers stay available.
ConnectionsKept ==
  broken \subseteq Faulty \cup
    {Home[f] : f \in {g \in Files : ~Small(g) /\ ~InRegion(Size[g] + 1)}}

\* Where web may stay for ever: waiting for a peer that died instead of
\* answering, or for a browser that has connected and sends nothing.
Stuck ==
  \/ pc = "polling" /\ broken \cap Faulty # {}
  \/ pc = "read" /\ browser[current] = "connected"

\* A browser that has sent its request and stays is answered, unless the
\* server has ended or is stuck for good.
EveryBrowserAnswered ==
  \/ <>[]Stuck
  \/ \A b \in Browsers :
       browser[b] = "waiting" ~> browser[b] \in {"left", "done"} \/ pc \in Ended

(***************************************************************************)
(* What the code does not do: TLC refutes each of these (README, "Known    *)
(* divergences").                                                          *)
(***************************************************************************)

\* What a browser is sent of a file is as long as the file.
LengthIsSize ==
  \A b \in Browsers :
    Answered(b) /\ reply[b].body.of \in Files =>
      reply[b].length = Size[reply[b].body.of]

\* A file that dkv_set has stored is served.
StoredIsServed ==
  \A b \in Browsers :
    Answered(b) /\ reply[b].asked \in stored => reply[b].body.of = reply[b].asked

\* A browser that has sent its request is answered, whatever the others do.
NobodyWaitsForOthers ==
  \A b \in Browsers :
    browser[b] = "waiting" ~> browser[b] \in {"left", "done"} \/ pc \in Ended

\* No request makes the server that accepts connections exit.
SurvivesRequests == [][Listening => pc' # "exited"]_vars

\* A request for a file that is not there is answered, if no peer has died.
AbsentIsAnswered ==
  [][pc = "get" /\ asked = Absent /\ broken \cap Faulty = {} => pc' # "killed"]_vars
=============================================================================
