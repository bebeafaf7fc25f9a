--------------------------- MODULE WebServerProofs ---------------------------
(***************************************************************************)
(* For any tree of files, any servers and browsers, whoever dies or leaves *)
(* and in whatever order: a connection of the web server is lost only to a *)
(* peer's death or to a file too long for a memory region                  *)
(* (ConnectionsKept), and while the file's server can be reached a browser *)
(* is sent the file it asked for, whole unless it is the one large file    *)
(* whose address is cached (RightBody).                                    *)
(*                                                                         *)
(* Both rest on what the one address cache holds: the block and the length *)
(* of one large file, never a mixture of two.                              *)
(***************************************************************************)
EXTENDS WebServer, TLAPS

\* The files that cost a connection when they are set or read back.
TooLong == {f \in Files : ~Small(f) /\ ~InRegion(Size[f] + 1)}

\* The cached address and length belong to the cached key.
CacheKnown ==
  cache.key # NULL =>
    cache.key \in Files /\ cache.block = cache.key /\ cache.len = Size[cache.key]
    /\ ~Small(cache.key)

\* web works on a browser's request, which it has resolved.
RequestKnown ==
  /\ request \in [Browsers -> Requests \cup {NULL}]
  /\ \A b \in Browsers : browser[b] # "idle" => request[b] \in Requests
  /\ pc = "read" => current \in Browsers
  /\ pc \in {"get", "reply", "close"} => asked \in Files \cup {Absent}

\* What web is about to write for a file of a reachable server.
ValueKnown ==
  /\ pc \in {"read", "get"} => file_length = Unset
  /\ pc = "reply" /\ asked \in Files /\ Usable(asked) =>
       /\ value.of = asked /\ value.len >= Size[asked]
       /\ file_length = Size[asked] \/ (file_length = Unset /\ ~Small(asked))

\* What every browser has got.
RepliesKnown == RightBody /\ reply = [b \in Browsers |-> reply[b]]

IInv ==
  /\ TypeOK /\ CacheKnown /\ RequestKnown /\ ConnectionsKept
  /\ ValueKnown /\ RepliesKnown

USE WebAssumption DEF Running, Ended

\* What has been sent as a request resolves to a path.
LEMMA ResolvedPath ==
  ASSUME NEW r \in Requests \ {Bad} PROVE Resolve(r) \in Files \cup {Absent}
BY DEF Requests, Resolve

\* The initial state satisfies the invariant.
LEMMA InitInv == Init => IInv
BY DEF Init, IInv, TypeOK, CacheKnown, RequestKnown, ConnectionsKept, ValueKnown,
       RepliesKnown, RightBody, Answered, NoCache, NoValue, Peers, Servers

\* An RDMA access costs the connection only beyond the region.
LEMMA ReadKeeps ==
  ASSUME IInv, NEW f \in Files, NEW len \in Nat, Read(f, len),
         ~InRegion(len) => f \in TooLong
  PROVE  /\ broken' \subseteq Peers /\ broken \subseteq broken'
         /\ broken' \subseteq Faulty \cup {Home[g] : g \in TooLong}
         /\ value'.of \in {f, Zero} /\ value'.len = len
         /\ Home[f] \notin broken' => value'.of = f
<1>1. Home[f] \in Servers
  OBVIOUS
<1>2. /\ broken \subseteq Peers /\ broken \subseteq Faulty \cup {Home[g] : g \in TooLong}
  BY DEF IInv, TypeOK, ConnectionsKept, TooLong
<1>3. CASE Usable(f) /\ InRegion(len)
  BY <1>2, <1>3 DEF Read
<1>4. CASE ~(Usable(f) /\ InRegion(len))
  <2>1. broken' = broken \cup {Home[f]} /\ value' = [of |-> Zero, len |-> len]
    BY <1>4 DEF Read
  <2>2. Home[f] \in broken \/ f \in TooLong
    BY <1>4 DEF Usable
  <2> QED
    BY <1>1, <1>2, <2>1, <2>2 DEF Peers
<1> QED
  BY <1>3, <1>4

\* What browsers have got stays right when more connections break.
LEMMA RepliesKept ==
  ASSUME IInv, reply' = reply, broken \subseteq broken' PROVE RepliesKnown'
BY DEF IInv, RepliesKnown, RightBody, Answered, Usable, Small

\* The connections stay good when no more of them are broken.
LEMMA Kept ==
  ASSUME IInv, broken' = broken, reply' = reply
  PROVE  ConnectionsKept' /\ RepliesKnown'
BY RepliesKept DEF IInv, ConnectionsKept, Small, InRegion

\* The start of main.
LEMMA StartInv ==
  ASSUME IInv, OpenPeer \/ OpenFails \/ FillEnds \/ Listen PROVE IInv'
<1>1. /\ pc \in {"open", "fill", "listen"} /\ pc' \in Running \cup Ended
      /\ pc' \notin {"read", "get", "reply", "close"}
      /\ count' = count \/ (count # num_servers /\ count' = count + 1)
      /\ UNCHANGED <<todo, stored, broken, cache, webVars, browserVars>>
  BY DEF OpenPeer, OpenFails, FillEnds, Listen, startVars
<1> USE <1>1 DEF IInv, webVars, browserVars
<1>2. count' \in 0 .. num_servers
  BY DEF TypeOK
<1>3. TypeOK'
  BY <1>2 DEF TypeOK
<1>4. CacheKnown' /\ RequestKnown' /\ ValueKnown'
  BY DEF CacheKnown, RequestKnown, ValueKnown, Small
<1> QED
  BY <1>3, <1>4, Kept

LEMMA FillInv ==
  ASSUME IInv, NEW f \in Files, FillSmall(f) \/ FillLarge(f) \/ FillFails(f)
  PROVE  IInv'
<1> USE DEF IInv, startVars, webVars, browserVars
<1>1. CASE FillSmall(f)
  <2> USE <1>1 DEF FillSmall
  <2>1. TypeOK'
    BY DEF TypeOK
  <2>2. CacheKnown' /\ RequestKnown' /\ ValueKnown'
    BY DEF CacheKnown, RequestKnown, ValueKnown, Small
  <2> QED
    BY <2>1, <2>2, Kept
<1>2. CASE FillLarge(f)
  <2>1. /\ pc = "fill" /\ pc' = pc /\ ~Small(f) /\ f \in todo /\ todo' = todo \ {f}
        /\ cache' = [key |-> f, block |-> f, len |-> Size[f]]
        /\ \/ stored' = stored \cup {f} /\ broken' = broken
           \/ /\ stored' = stored /\ ~InRegion(Size[f])
              /\ broken' = broken \cup {Home[f]}
        /\ UNCHANGED <<count, webVars, browserVars>>
    BY <1>2 DEF FillLarge, Remembered
  <2>2. ~InRegion(Size[f]) => f \in TooLong
    <3>1. Size[f] \in Nat
      OBVIOUS
    <3> QED
      BY <2>1, <3>1 DEF TooLong, InRegion
  <2>3. Home[f] \in Peers
    BY DEF Peers
  <2>4. TypeOK'
    BY <2>1, <2>3 DEF TypeOK
  <2>5. CacheKnown' /\ RequestKnown' /\ ValueKnown'
    BY <2>1 DEF CacheKnown, RequestKnown, ValueKnown, Small
  <2>6. ConnectionsKept'
    BY <2>1, <2>2 DEF ConnectionsKept, TooLong, Small, InRegion
  <2>7. RepliesKnown'
    BY <2>1, RepliesKept
  <2> QED
    BY <2>4, <2>5, <2>6, <2>7
<1>3. CASE FillFails(f)
  <2> USE <1>3 DEF FillFails
  <2>1. TypeOK' /\ CacheKnown' /\ RequestKnown' /\ ValueKnown'
    BY DEF TypeOK, CacheKnown, RequestKnown, ValueKnown, Small
  <2> QED
    BY <2>1, Kept
<1> QED
  BY <1>1, <1>2, <1>3

\* A peer's death only makes more connections useless.
LEMMA PeerDiesInv ==
  ASSUME IInv, NEW p \in Peers, PeerDies(p) \/ DiesAsked(p) PROVE IInv'
<1>0. /\ p \in Faulty /\ broken' = broken \cup {p} /\ pc' \in {pc, "polling"}
      /\ UNCHANGED <<startVars, cache, webVars, browserVars>>
  BY DEF PeerDies, DiesAsked
<1> USE <1>0 DEF IInv, startVars, webVars, browserVars
<1>1. TypeOK' /\ CacheKnown' /\ RequestKnown'
  BY DEF TypeOK, CacheKnown, RequestKnown, Small
<1>2. ConnectionsKept'
  BY DEF ConnectionsKept, Small, InRegion
<1>3. ValueKnown'
  BY DEF ValueKnown, Usable
<1>4. RepliesKnown'
  BY RepliesKept
<1> QED
  BY <1>1, <1>2, <1>3, <1>4

\* Browsers touch neither the cache nor what is served.
LEMMA BrowseInv == ASSUME IInv, NEW b \in Browsers, Browse(b) PROVE IInv'
<1>1. UNCHANGED <<pc, startVars, broken, cache, webVars, reply>>
  BY DEF Browse, Connect, SendRequest, Leave
<1>2. /\ backlog' \in Seq(Browsers)
      /\ browser' \in [Browsers -> {"idle", "connected", "waiting", "silent", "left", "done"}]
  <2>1. backlog \in Seq(Browsers) => Append(backlog, b) \in Seq(Browsers)
    OBVIOUS
  <2>2. backlog' \in {backlog, Append(backlog, b)}
    BY DEF Browse, Connect, SendRequest, Leave
  <2>3. \E t \in {"connected", "waiting", "silent", "left"} :
          browser' = [browser EXCEPT ![b] = t]
    BY DEF Browse, Connect, SendRequest, Leave, IInv, TypeOK
  <2> QED
    BY <2>1, <2>2, <2>3 DEF IInv, TypeOK
<1>3. /\ request' \in [Browsers -> Requests \cup {NULL}]
      /\ \A c \in Browsers : browser'[c] # "idle" => request'[c] \in Requests
  <2>1. CASE Connect(b)
    BY <2>1 DEF Connect, IInv, TypeOK, RequestKnown
  <2>2. CASE SendRequest(b) \/ Leave(b)
    <3>1. request' = request /\ browser[b] # "idle"
      BY <2>2 DEF SendRequest, Leave
    <3>2. \A c \in Browsers : c # b => browser'[c] = browser[c]
      BY <2>2 DEF SendRequest, Leave, IInv, TypeOK
    <3> QED
      BY <3>1, <3>2 DEF IInv, RequestKnown
  <2> QED
    BY <2>1, <2>2 DEF Browse
<1> USE DEF IInv, startVars, webVars
<1>4. TypeOK'
  BY <1>1, <1>2 DEF TypeOK
<1>5. CacheKnown' /\ RequestKnown' /\ ValueKnown'
  BY <1>1, <1>3 DEF CacheKnown, RequestKnown, ValueKnown, Usable, Small
<1> QED
  BY <1>1, <1>4, <1>5, Kept

\* web, up to the call of dkv_get.
LEMMA ServeInv ==
  ASSUME IInv, Accept \/ AcceptFails \/ ReadRequest \/ Forbid PROVE IInv'
<1> USE DEF IInv, startVars, webVars, browserVars
<1>1. CASE Accept
  <2>1. backlog \in Seq(Browsers) /\ backlog # <<>>
    BY <1>1 DEF Accept, TypeOK
  <2>2. Head(backlog) \in Browsers /\ Tail(backlog) \in Seq(Browsers)
    BY <2>1
  <2> USE <1>1, <2>2 DEF Accept
  <2>3. TypeOK'
    BY DEF TypeOK
  <2>4. CacheKnown' /\ RequestKnown' /\ ValueKnown'
    BY DEF CacheKnown, RequestKnown, ValueKnown, Small
  <2> QED
    BY <2>3, <2>4, Kept
<1>2. CASE AcceptFails \/ Forbid
  <2>1. /\ pc' = "exited"
        /\ reply' = reply \/ reply' = [reply EXCEPT ![current] = [status |-> 403]]
        /\ UNCHANGED <<startVars, broken, cache, webVars, backlog, browser, request>>
    BY <1>2 DEF AcceptFails, Forbid
  <2>2. TypeOK' /\ CacheKnown' /\ RequestKnown' /\ ValueKnown'
    BY <2>1 DEF TypeOK, CacheKnown, RequestKnown, ValueKnown, Small
  <2>3. ConnectionsKept'
    BY <2>1 DEF ConnectionsKept, Small, InRegion
  <2>4. RepliesKnown'
    <3>1. reply' = [b \in Browsers |-> reply'[b]]
          /\ \A b \in Browsers : reply'[b] = reply[b] \/ reply'[b] = [status |-> 403]
      BY <2>1 DEF RepliesKnown
    <3> QED
      BY <2>1, <3>1 DEF RepliesKnown, RightBody, Answered, Usable, Small
  <2> QED
    BY <2>2, <2>3, <2>4
<1>3. CASE ReadRequest
  <2>1. PICK r \in Arrived(request[current]) \ {Bad} : asked' = Resolve(r)
    BY <1>3 DEF ReadRequest
  <2>2. request[current] \in Requests
    BY <1>3 DEF ReadRequest, RequestKnown
  <2>3. asked' \in Files \cup {Absent}
    BY <2>1, <2>2, ResolvedPath DEF Arrived, Requests
  <2> USE <1>3, <2>3 DEF ReadRequest
  <2>4. TypeOK'
    BY DEF TypeOK
  <2>5. CacheKnown' /\ RequestKnown' /\ ValueKnown'
    BY DEF CacheKnown, RequestKnown, ValueKnown, Small
  <2> QED
    BY <2>4, <2>5, Kept
<1> QED
  BY <1>1, <1>2, <1>3

\* dkv_get of a large file, which goes into the cache, or of the cached one.
LEMMA GetByReadInv == ASSUME IInv, GetLarge \/ GetCached PROVE IInv'
<1> DEFINE len == IF GetLarge THEN Size[asked] + 1 ELSE cache.len
<1>1. /\ pc = "get" /\ pc' = "reply" /\ asked \in Files /\ ~Small(asked)
      /\ Read(asked, len) /\ len \in Nat /\ len >= Size[asked]
      /\ ~InRegion(len) => asked \in TooLong
  <2>1. CASE GetLarge
    <3>1. asked \in Files /\ ~Small(asked) /\ pc = "get" /\ pc' = "reply"
          /\ Read(asked, Size[asked] + 1)
      BY <2>1 DEF GetLarge, Get, IInv, TypeOK
    <3>2. len = Size[asked] + 1 /\ Size[asked] \in Nat
      BY <2>1, <3>1
    <3> QED
      BY <3>1, <3>2 DEF TooLong
  <2>2. CASE ~GetLarge /\ GetCached
    <3>1. pc = "get" /\ pc' = "reply" /\ cache.key = asked /\ Read(cache.block, cache.len)
      BY <2>2 DEF GetCached, Get
    <3>2. asked \in Files /\ cache.block = asked /\ cache.len = Size[asked] /\ ~Small(asked)
      BY <3>1 DEF IInv, TypeOK, RequestKnown, CacheKnown
    <3>3. len = Size[asked] /\ Size[asked] \in Nat
      BY <2>2, <3>2
    <3> QED
      BY <3>1, <3>2, <3>3 DEF TooLong, InRegion
  <2> QED
    BY <2>1, <2>2
<1> HIDE DEF len
<1>2. /\ broken' \subseteq Peers /\ broken \subseteq broken'
      /\ broken' \subseteq Faulty \cup {Home[g] : g \in TooLong}
      /\ value'.of \in {asked, Zero} /\ value'.len = len
      /\ Home[asked] \notin broken' => value'.of = asked
  BY <1>1, ReadKeeps
<1>3. /\ UNCHANGED <<startVars, current, asked, browserVars>>
      /\ file_length' \in {Size[asked], Unset}
      /\ \/ cache' = cache
         \/ cache' = [key |-> asked, block |-> asked, len |-> Size[asked]]
  BY <1>1 DEF GetLarge, GetCached, Remembered, IInv, ValueKnown
<1> USE DEF IInv, startVars, browserVars
<1>4. TypeOK'
  BY <1>1, <1>2, <1>3 DEF TypeOK
<1>5. CacheKnown' /\ RequestKnown'
  BY <1>1, <1>3 DEF CacheKnown, RequestKnown, Small
<1>6. ConnectionsKept'
  BY <1>2 DEF ConnectionsKept, TooLong, Small, InRegion
<1>7. ValueKnown'
  BY <1>1, <1>2, <1>3 DEF ValueKnown, Usable
<1>8. RepliesKnown'
  BY <1>2, <1>3, RepliesKept
<1> QED
  BY <1>4, <1>5, <1>6, <1>7, <1>8

\* The answer to the browser that is served.
LEMMA ReplyRight == ASSUME IInv, Reply PROVE RepliesKnown'
<1>1. CASE reply' = reply
  BY <1>1, RepliesKept DEF Reply
<1>2. CASE reply' # reply
  <2>1. PICK n \in IF file_length = Unset THEN AnyLength ELSE {file_length} :
          reply' = [reply EXCEPT ![current] =
            [status |-> 200, asked |-> asked, body |-> value, length |-> n,
             set |-> file_length # Unset]]
    BY <1>2 DEF Reply
  <2> DEFINE r == [status |-> 200, asked |-> asked, body |-> value, length |-> n,
                   set |-> file_length # Unset]
  <2>2. /\ reply' = [b \in Browsers |-> reply'[b]]
        /\ \A b \in Browsers : reply'[b] = reply[b] \/ reply'[b] = r
    BY <2>1 DEF IInv, RepliesKnown
  <2>3. /\ r.asked = asked /\ r.body = value /\ r.length = n
        /\ r.set = (file_length # Unset)
    OBVIOUS
  <2> HIDE DEF r
  <2>4. asked \in Files /\ Usable(asked) =>
          /\ value.of = asked /\ value.len >= Size[asked]
          /\ n = Size[asked] \/ (file_length = Unset /\ ~Small(asked))
    BY DEF Reply, IInv, ValueKnown
  <2>5. broken' = broken
    BY DEF Reply
  <2>6. ASSUME NEW b \in Browsers, reply'[b] = r, r.asked \in Files, Usable(r.asked)
        PROVE  /\ r.body.of = r.asked /\ r.body.len >= Size[r.asked]
               /\ r.length = Size[r.asked] \/ (~r.set /\ ~Small(r.asked))
    BY <2>3, <2>4, <2>6
  <2> QED
    BY <2>2, <2>5, <2>6 DEF IInv, RepliesKnown, RightBody, Answered, Usable, Small
<1> QED
  BY <1>1, <1>2

\* Its other outcomes, and the answer.
LEMMA AnswerInv ==
  ASSUME IInv, GetAbsent \/ GetFails \/ GetSmall \/ FindFails \/ Reply \/ Close
  PROVE  IInv'
<1> USE DEF IInv, startVars, webVars, browserVars
<1>1. CASE GetAbsent \/ FindFails
  <2>1. /\ pc' \in {"killed", "aborted"}
        /\ UNCHANGED <<startVars, broken, cache, webVars, browserVars>>
    BY <1>1 DEF GetAbsent, FindFails
  <2>2. TypeOK' /\ CacheKnown' /\ RequestKnown' /\ ValueKnown'
    BY <2>1 DEF TypeOK, CacheKnown, RequestKnown, ValueKnown, Small
  <2> QED
    BY <2>1, <2>2, Kept
<1>2. CASE GetFails
  <2> USE <1>2 DEF GetFails
  <2>1. TypeOK' /\ CacheKnown' /\ RequestKnown'
    BY DEF TypeOK, CacheKnown, RequestKnown, Small
  <2>2. ValueKnown'
    BY DEF ValueKnown, Usable
  <2> QED
    BY <2>1, <2>2, Kept
<1>3. CASE GetSmall
  <2>1. /\ asked \in Files /\ Size[asked] \in Nat /\ pc = "get" /\ pc' = "reply"
        /\ value' = [of |-> asked, len |-> Size[asked]] /\ file_length' = Size[asked]
        /\ UNCHANGED <<startVars, broken, cache, current, asked, browserVars>>
    BY <1>3 DEF GetSmall, Get, TypeOK
  <2>2. TypeOK' /\ CacheKnown' /\ RequestKnown'
    BY <2>1 DEF TypeOK, CacheKnown, RequestKnown, Small
  <2>3. ValueKnown'
    BY <2>1 DEF ValueKnown
  <2> QED
    BY <2>1, <2>2, <2>3, Kept
<1>4. CASE Reply
  <2>1. /\ pc = "reply" /\ pc' \in {"close", "killed"}
        /\ UNCHANGED <<startVars, broken, cache, webVars, backlog, browser, request>>
    BY <1>4 DEF Reply
  <2>2. TypeOK' /\ CacheKnown' /\ RequestKnown' /\ ValueKnown'
    BY <2>1 DEF TypeOK, CacheKnown, RequestKnown, ValueKnown, Small
  <2>3. ConnectionsKept'
    BY <2>1 DEF ConnectionsKept, Small, InRegion
  <2>4. RepliesKnown'
    BY <1>4, ReplyRight
  <2> QED
    BY <2>2, <2>3, <2>4
<1>5. CASE Close
  <2>1. /\ pc' = "accept" /\ current' = NULL /\ asked' = NULL /\ value' = NoValue
        /\ browser' = [browser EXCEPT ![current] = IF @ = "waiting" THEN "done" ELSE @]
        /\ UNCHANGED <<startVars, broken, cache, file_length, backlog, request, reply>>
    BY <1>5 DEF Close
  <2>2. browser' \in [Browsers -> {"idle", "connected", "waiting", "silent", "left", "done"}]
        /\ \A b \in Browsers : browser'[b] # "idle" => browser[b] # "idle"
    BY <2>1 DEF TypeOK
  <2>3. TypeOK'
    BY <2>1, <2>2 DEF TypeOK, NoValue
  <2>4. CacheKnown' /\ RequestKnown' /\ ValueKnown'
    BY <2>1, <2>2 DEF CacheKnown, RequestKnown, ValueKnown, Small
  <2> QED
    BY <2>1, <2>3, <2>4, Kept
<1> QED
  BY <1>1, <1>2, <1>3, <1>4, <1>5

\* Every step keeps the invariant.
LEMMA StepInv == ASSUME IInv, [Next]_vars PROVE IInv'
<1>1. CASE Startup
  BY <1>1, StartInv, FillInv DEF Startup
<1>2. CASE Web
  BY <1>2, ServeInv, GetByReadInv, AnswerInv DEF Web
<1>3. CASE UNCHANGED vars
  BY <1>3 DEF vars, startVars, webVars, browserVars, IInv, TypeOK, CacheKnown,
       RequestKnown, ConnectionsKept, ValueKnown, RepliesKnown, RightBody,
       Answered, Small, InRegion, Usable
<1> QED
  BY <1>1, <1>2, <1>3, BrowseInv, PeerDiesInv DEF Next

\* IInv is an invariant of the web server.
THEOREM WebInvariant == Spec => []IInv
<1> QED
  BY InitInv, StepInv, PTL DEF Spec

\* The variables keep their types: every request is resolved to a path, and
\* what is written comes from a file, a cleared buffer or a failed get.
THEOREM WebTypeOK == Spec => []TypeOK
<1>1. IInv => TypeOK
  BY DEF IInv
<1> QED
  BY <1>1, WebInvariant, PTL

\* Only a death or a file too long for a region costs a connection.
THEOREM WebConnectionsKept == Spec => []ConnectionsKept
<1>1. IInv => ConnectionsKept
  BY DEF IInv
<1> QED
  BY <1>1, WebInvariant, PTL

\* What a browser has got from a reachable server is the file it asked for,
\* all of it and no more, unless dkv_get took it from the cached address and
\* so left the number of bytes to write unset.
THEOREM WebRightBody == Spec => []RightBody
<1>1. IInv => RightBody
  BY DEF IInv, RepliesKnown
<1> QED
  BY <1>1, WebInvariant, PTL
=============================================================================
