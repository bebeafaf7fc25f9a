-------------------------- MODULE KvTemplateProofs --------------------------
(***************************************************************************)
(* For any keys, values and pool of two regions or more: no two keys share *)
(* a region, the pool never runs dry and no region is lost at the close    *)
(* (RegionsApart, ClosesClean), whatever the caller does; and with the     *)
(* calls of run_throuput_tests a get returns what was set (AssertHolds).   *)
(***************************************************************************)
EXTENDS KvTemplate, TLAPS, FiniteSetTheorems, WellFoundedInduction

\* The minimum of two numbers.
LEMMA MinTwo ==
  ASSUME NEW m \in Int, NEW n \in Int
  PROVE  Min({m, n}) = IF m <= n THEN m ELSE n
<1> DEFINE least == IF m <= n THEN m ELSE n
<1>1. least \in {m, n} /\ \A y \in {m, n} : least <= y
  OBVIOUS
<1>2. \A x \in {m, n} : (\A y \in {m, n} : x <= y) => x = least
  OBVIOUS
<1> QED
  BY <1>1, <1>2 DEF Min

\* The minimum of a nonempty set of numbers is in it and none is smaller.
LEMMA MinInSet ==
  ASSUME NEW T \in SUBSET Nat, T # {}
  PROVE  Min(T) \in T /\ \A y \in T : Min(T) <= y
<1>1. PICK n \in T : \A m \in T : ~ (<<m, n>> \in OpToRel(<, Nat))
  BY WFMin, NatLessThanWellFounded, Zenon
<1>2. \A m \in T : ~ (m < n)
  BY <1>1, Zenon DEF OpToRel
<1>3. \E x \in T : \A y \in T : x <= y
  BY <1>2
<1> QED
  BY <1>3 DEF Min

\* What is in a sequence is in its set.
LEMMA EntryIn ==
  ASSUME NEW S, NEW s \in Seq(S), NEW i \in DOMAIN s PROVE s[i] \in S
OBVIOUS

(***************************************************************************)
(* The invariant                                                            *)
(***************************************************************************)

Entries(s) == {s[i] : i \in DOMAIN s}

Free == Entries(pool)
Used == Entries(rndv)

Serving == srv \in {"running", "closing"}

\* Every region is free or used, none is both, and the pool never gets shorter.
\* A next that was never set is gone with the first request that takes a region.
Pools ==
  /\ Cardinality(DOMAIN region) \in Nat
  /\ DOMAIN region = 1 .. Cardinality(DOMAIN region)
  /\ srv \in {"running", "crashed", "closing", "closed", "failed"}
  /\ wild \in BOOLEAN /\ (srv = "failed" => wild)
  /\ wild => DOMAIN region = 1 .. MIN_POOL_NODES
  /\ Serving =>
       /\ pool \in Seq(Nat) /\ Len(pool) = MIN_POOL_NODES /\ rndv \in Seq(Nat)
       /\ Free \cup Used = DOMAIN region /\ Free \cap Used = {}
       /\ \A i, j \in DOMAIN pool : i # j => pool[i] # pool[j]

\* A region that is in use and that the client does not know yet.
New(r) ==
  /\ r \in DOMAIN region /\ (Serving => r \in Used)
  /\ \A k \in Keys : cache[k] # NULL => cache[k].at # r

\* A key has a region of its own.
Cached ==
  \A k \in Keys : cache[k] # NULL =>
    /\ cache[k].at \in DOMAIN region /\ (Serving => cache[k].at \in Used)
    /\ \A j \in Keys \ {k} : cache[j] # NULL => cache[j].at # cache[k].at

(***************************************************************************)
(* A call is in one of few phases, and its request or answer is in exactly *)
(* one place.  Only an eager set may still be with the server when the     *)
(* call that sent it has returned.                                         *)
(***************************************************************************)

\* Nothing is on its way to or from the server and no completion is left.
Quiet == out = NULL /\ ~acking /\ reply = NULL /\ cq = <<>>

Unhandled == inbox = NULL \/ inbox.type = "EAGER_SET_REQUEST"

\* The completion of the client's send is still to come.
Sending == IF out # NULL \/ acking THEN 1 ELSE 0

\* The one completion of a request without an answer.
OneWay(type) ==
  /\ reply = NULL /\ got + Len(cq) + Sending = 1
  /\ out # NULL => out.type = type /\ ~acking /\ Unhandled

\* The answer to a request is still to come.
Asked(type) == out # NULL \/ (inbox # NULL /\ inbox.type = type) \/ reply # NULL

Awaited(type) == IF Asked(type) THEN 1 ELSE 0

TwoWay(type) ==
  /\ out # NULL => out.type = type /\ ~acking /\ reply = NULL /\ Unhandled
  /\ inbox # NULL => inbox.type \in {type, "EAGER_SET_REQUEST"}
  /\ reply # NULL => Unhandled

Granted(r) == r.type = "RENDEZVOUS_SET_RESPONSE" /\ New(r.at)

Phases ==
  /\ pc \in {"idle", "called", "check", "spinning", "aborted", "crashed"} => Quiet /\ Unhandled
  /\ pc = "set" => OneWay("EAGER_SET_REQUEST") /\ Unhandled
  /\ pc = "write" => OneWay("WRITE") /\ ~acking /\ Unhandled
  /\ pc = "read" => OneWay("READ") /\ ~acking /\ Unhandled
  /\ pc = "close" => OneWay("CLOSE_CONNECTION")
  /\ pc = "closed" => Quiet
  /\ pc \in {"close", "closed"} /\ inbox # NULL =>
       inbox.type \in {"CLOSE_CONNECTION", "EAGER_SET_REQUEST"}
  /\ pc = "get" => TwoWay("EAGER_GET_REQUEST")
                   /\ got + Len(cq) + Sending + Awaited("EAGER_GET_REQUEST") = 2
  /\ pc = "get_again" => TwoWay("EAGER_GET_REQUEST")
                   /\ got + Len(cq) + Sending + Awaited("EAGER_GET_REQUEST") <= 1
  /\ pc = "rndv_set" =>
       /\ TwoWay("RENDEZVOUS_SET_REQUEST")
       /\ got + Len(cq) + Sending + Awaited("RENDEZVOUS_SET_REQUEST") = 2
       /\ reply # NULL => Granted(reply)
       /\ ~Asked("RENDEZVOUS_SET_REQUEST") => buf # NULL /\ Granted(buf)
  /\ pc = "rndv_get" => TwoWay("RENDEZVOUS_GET_REQUEST") /\ reply = NULL
                        /\ got + Len(cq) + Sending <= 1

\* The call in progress is of the kind its phase says.
SetCalls == {"set", "rndv_set", "write"}
GetCalls == {"get", "get_again", "rndv_get", "read", "check"}

CallRight ==
  /\ pc \in SetCalls => call \in [name : {"set"}, key : Keys, value : Values]
  /\ pc \in GetCalls => call \in [name : {"get"}, key : Keys]
  /\ pc = "called" => call \in Calls

Types ==
  /\ caller \in {"tests", "any"}
  /\ pc \in DOMAIN Waits \cup {"idle", "called", "check", "closed", "spinning", "aborted", "crashed"}
  /\ got \in Nat /\ cq \in Seq({"send", "recv"}) /\ acking \in BOOLEAN
  /\ out \in Requests \cup RdmaRequests \cup {NULL} /\ inbox \in Requests \cup {NULL}
  /\ reply \in Responses \cup {NULL} /\ buf \in Responses \cup {NULL}
  /\ cache \in [Keys -> Addresses \cup {NULL}]
  /\ nodes \in Seq([key : Keys, val : Values, len : Nat \cup {NULL}, nul : SUBSET Nat])
  /\ use_rndv_protocol \in BOOLEAN
  /\ last \in [Keys -> Values \cup {NULL}]
  /\ todo \subseteq Keys /\ testing \in Keys \cup {NULL}

IInv == Types /\ CallRight /\ Pools /\ Cached /\ Phases

\* A poll takes completions off the queue and counts as many.
LEMMA PollCounts ==
  ASSUME Types, Poll
  PROVE  got' \in Nat /\ cq' \in Seq({"send", "recv"}) /\ got' + Len(cq') = got + Len(cq)
<1>1. got \in Nat /\ cq \in Seq({"send", "recv"}) /\ Len(cq) \in Nat
  BY DEF Types
<1>2. got' = got + Min({2, Len(cq)}) /\ cq' = SubSeq(cq, 3, Len(cq))
  BY DEF Poll
<1>3. Min({2, Len(cq)}) = IF 2 <= Len(cq) THEN 2 ELSE Len(cq)
  BY <1>1, MinTwo
<1>4. cq' \in Seq({"send", "recv"})
      /\ Len(cq') = IF 3 <= Len(cq) THEN Len(cq) - 2 ELSE 0
  BY <1>1, <1>2
<1> DEFINE n == Len(cq)
<1>5. got' = got + (IF 2 <= n THEN 2 ELSE n) /\ Len(cq') = (IF 3 <= n THEN n - 2 ELSE 0)
  BY <1>2, <1>3, <1>4
<1>6. n \in Nat /\ got \in Nat
  BY <1>1
<1> HIDE DEF n
<1>7. got' \in Nat /\ got' + Len(cq') = got + n
  BY <1>5, <1>6
<1> QED
  BY <1>4, <1>7 DEF n

\* A region goes from the head of the pool, a new one comes in at its tail.
LEMMA PoolTurns ==
  ASSUME NEW p \in Seq(Nat), p # <<>>, NEW f \in Nat, f \notin Entries(p),
         \A i, j \in DOMAIN p : i # j => p[i] # p[j]
  PROVE  LET q == Append(Tail(p), f) IN
         /\ q \in Seq(Nat) /\ Len(q) = Len(p) /\ Head(p) \in Entries(p)
         /\ Entries(q) = (Entries(p) \ {Head(p)}) \cup {f}
         /\ \A i, j \in DOMAIN q : i # j => q[i] # q[j]
<1> DEFINE q == Append(Tail(p), f)
<1>1. Len(p) \in Nat \ {0} /\ DOMAIN p = 1 .. Len(p) /\ Head(p) = p[1]
  OBVIOUS
<1> DEFINE t == Tail(p)
<1>t. t \in Seq(Nat) /\ Len(t) = Len(p) - 1 /\ \A i \in 1 .. Len(t) : t[i] = p[i + 1]
  BY <1>1
<1> HIDE DEF t
<1>2. q \in Seq(Nat) /\ Len(q) = Len(p) /\ DOMAIN q = 1 .. Len(p)
  BY <1>1, <1>t DEF t
<1>u. \A i \in 1 .. Len(t) + 1 : Append(t, f)[i] = IF i = Len(t) + 1 THEN f ELSE t[i]
  BY <1>t
<1>3. \A i \in 1 .. Len(p) : q[i] = IF i < Len(p) THEN p[i + 1] ELSE f
  <2> TAKE i \in 1 .. Len(p)
  <2> DEFINE m == Len(p)  l == Len(t)
  <2>2. m \in Nat /\ l = m - 1 /\ i \in 1 .. m
    BY <1>1, <1>t
  <2> HIDE DEF m, l
  <2>3. i \in 1 .. l + 1 /\ (i < m => i \in 1 .. l /\ i # l + 1) /\ (~(i < m) => i = l + 1)
    BY <2>2
  <2>1. i \in 1 .. Len(t) + 1 /\ (i < Len(p) => i \in 1 .. Len(t) /\ i # Len(t) + 1)
        /\ (~(i < Len(p)) => i = Len(t) + 1)
    BY <2>3 DEF m, l
  <2> QED
    BY <1>t, <1>u, <2>1 DEF t
<1> HIDE DEF q
<1>4. Head(p) \in Entries(p)
  BY <1>1 DEF Entries
<1>5. Entries(q) = (Entries(p) \ {Head(p)}) \cup {f}
  <2>1. ASSUME NEW r \in Entries(q) PROVE r \in (Entries(p) \ {Head(p)}) \cup {f}
    <3>1. PICK i \in 1 .. Len(p) : r = q[i]
      BY <1>2, <2>1 DEF Entries
    <3>2. CASE i < Len(p)
      <4>1. r = p[i + 1] /\ i + 1 \in 1 .. Len(p) /\ i + 1 # 1
        BY <1>1, <1>3, <3>1, <3>2
      <4>2. 1 \in DOMAIN p /\ i + 1 \in DOMAIN p
        BY <1>1, <4>1
      <4>3. p[i + 1] # p[1]
        BY <4>1, <4>2
      <4> QED
        BY <1>1, <4>1, <4>2, <4>3 DEF Entries
    <3>3. CASE ~(i < Len(p))
      BY <1>3, <3>1, <3>3
    <3> QED
      BY <3>2, <3>3
  <2>2. ASSUME NEW r \in Entries(p), r # Head(p) PROVE r \in Entries(q)
    <3>1. PICK i \in 1 .. Len(p) : r = p[i] /\ i # 1
      BY <1>1, <2>2 DEF Entries
    <3> DEFINE j == i - 1
    <3>3. j \in 1 .. Len(p) /\ j < Len(p) /\ j + 1 = i
      BY <1>1, <3>1
    <3> HIDE DEF j
    <3>2. j \in 1 .. Len(p) /\ q[j] = r
      BY <1>3, <3>1, <3>3
    <3> QED
      BY <1>2, <3>2 DEF Entries
  <2>3. f \in Entries(q)
    <3>1. Len(p) \in 1 .. Len(p) /\ q[Len(p)] = f
      BY <1>1, <1>3
    <3> QED
      BY <1>2, <3>1 DEF Entries
  <2> QED
    BY <2>1, <2>2, <2>3
<1>6. \A i, j \in DOMAIN q : i # j => q[i] # q[j]
  <2> SUFFICES ASSUME NEW i \in 1 .. Len(p), NEW j \in 1 .. Len(p), i < j
               PROVE  q[i] # q[j]
    BY <1>1, <1>2
  <2>1. i < Len(p) /\ q[i] = p[i + 1] /\ i + 1 \in DOMAIN p
    BY <1>1, <1>3
  <2>2. CASE j < Len(p)
    <3>1. q[j] = p[j + 1] /\ j + 1 \in DOMAIN p /\ i + 1 # j + 1
      BY <1>1, <1>3, <2>2
    <3> QED
      BY <2>1, <3>1
  <2>3. CASE ~(j < Len(p))
    BY <1>3, <2>1, <2>3 DEF Entries
  <2> QED
    BY <2>2, <2>3
<1> QED
  BY <1>2, <1>4, <1>5, <1>6 DEF q

\* Appending adds one entry.
LEMMA Appended ==
  ASSUME NEW s \in Seq(Nat), NEW r \in Nat
  PROVE  Append(s, r) \in Seq(Nat) /\ Entries(Append(s, r)) = Entries(s) \cup {r}
<1> DEFINE t == Append(s, r)
<1>1. t \in Seq(Nat) /\ DOMAIN t = 1 .. Len(s) + 1 /\ DOMAIN s = 1 .. Len(s) /\ Len(s) \in Nat
      /\ \A i \in 1 .. Len(s) + 1 : t[i] = IF i = Len(s) + 1 THEN r ELSE s[i]
  OBVIOUS
<1> HIDE DEF t
<1>2. ASSUME NEW x \in Entries(t) PROVE x \in Entries(s) \cup {r}
  <2>1. PICK i \in 1 .. Len(s) + 1 : x = t[i]
    BY <1>1, <1>2 DEF Entries
  <2>2. i \in 1 .. Len(s) \/ i = Len(s) + 1
    BY <1>1
  <2> QED
    BY <1>1, <2>1, <2>2 DEF Entries
<1>3. ASSUME NEW x \in Entries(s) PROVE x \in Entries(t)
  <2>1. PICK i \in 1 .. Len(s) : x = s[i]
    BY <1>1, <1>3 DEF Entries
  <2>2. i \in 1 .. Len(s) + 1 /\ i # Len(s) + 1
    BY <1>1
  <2>3. x = t[i]
    BY <1>1, <2>1, <2>2
  <2> QED
    BY <1>1, <2>2, <2>3 DEF Entries
<1>4. r \in Entries(t)
  <2>1. Len(s) + 1 \in 1 .. Len(s) + 1
    BY <1>1
  <2> QED
    BY <1>1, <2>1 DEF Entries
<1> QED
  BY <1>1, <1>2, <1>3, <1>4 DEF t

\* The pool hands out one region and gets another.
LEMMA RegionMoves ==
  ASSUME Pools, srv = "running", srv' = srv, RegionTaken, PoolRefilled
  PROVE  /\ Pools' /\ Used' = Used \cup {Head(pool)} /\ Head(pool) \in Free
         /\ Head(pool) \in Nat
         /\ DOMAIN region \subseteq DOMAIN region' /\ Head(pool) \in DOMAIN region'
<1> DEFINE n == Cardinality(DOMAIN region)
<1>1. /\ n \in Nat /\ DOMAIN region = 1 .. n /\ pool \in Seq(Nat) /\ Len(pool) = MIN_POOL_NODES
      /\ Len(pool) # 1 /\ pool # <<>> /\ rndv \in Seq(Nat)
      /\ Free \cup Used = DOMAIN region /\ Free \cap Used = {}
      /\ \A i, j \in DOMAIN pool : i # j => pool[i] # pool[j]
  <2>1. MIN_POOL_NODES \in Nat \ {0, 1}
    BY TemplateAssumption
  <2>2. /\ n \in Nat /\ DOMAIN region = 1 .. n /\ pool \in Seq(Nat) /\ Len(pool) = MIN_POOL_NODES
        /\ rndv \in Seq(Nat) /\ Free \cup Used = DOMAIN region /\ Free \cap Used = {}
        /\ \A i, j \in DOMAIN pool : i # j => pool[i] # pool[j]
    BY DEF Pools, Serving
  <2>3. Len(pool) # 1 /\ pool # <<>>
    BY <2>1, <2>2
  <2> QED
    BY <2>2, <2>3
<1>2. /\ pool' = Append(Tail(pool), n + 1) /\ rndv' = Append(rndv, Head(pool))
      /\ DOMAIN region' = (1 .. n) \cup {n + 1} /\ wild' = FALSE
  BY <1>1 DEF RegionTaken, PoolRefilled
<1> HIDE DEF n
<1>3. n + 1 \in Nat /\ n + 1 \notin 1 .. n /\ (1 .. n) \cup {n + 1} = 1 .. n + 1
  BY <1>1
<1>4. Cardinality(DOMAIN region') = n + 1
  <2>1. 1 \in Int /\ n + 1 \in Int /\ ~(1 > n + 1) /\ (n + 1) - 1 + 1 = n + 1
    BY <1>1
  <2>2. Cardinality(1 .. n + 1) = n + 1
    BY <2>1, FS_Interval
  <2> QED
    BY <1>2, <1>3, <2>2
<1>5. n + 1 \notin Free
  BY <1>1, <1>3
<1>6. /\ pool' \in Seq(Nat) /\ Len(pool') = Len(pool) /\ Head(pool) \in Free
      /\ Free' = (Free \ {Head(pool)}) \cup {n + 1}
      /\ \A i, j \in DOMAIN pool' : i # j => pool'[i] # pool'[j]
  <2> DEFINE q == Append(Tail(pool), n + 1)
  <2>1. n + 1 \notin Entries(pool)
    BY <1>5 DEF Free
  <2>2. /\ q \in Seq(Nat) /\ Len(q) = Len(pool) /\ Head(pool) \in Entries(pool)
        /\ Entries(q) = (Entries(pool) \ {Head(pool)}) \cup {n + 1}
        /\ \A i, j \in DOMAIN q : i # j => q[i] # q[j]
    BY <1>1, <1>3, <2>1, PoolTurns
  <2>3. pool' = q
    BY <1>2
  <2> HIDE DEF q
  <2>4. Free' = Entries(q)
    BY <2>3 DEF Free, Entries
  <2> QED
    BY <2>2, <2>3, <2>4 DEF Free
<1>7. Head(pool) \in Nat
  BY <1>1
<1>8. rndv' \in Seq(Nat) /\ Used' = Used \cup {Head(pool)}
  BY <1>1, <1>2, <1>7, Appended DEF Used
<1>9. Free' \cup Used' = DOMAIN region' /\ Free' \cap Used' = {}
  BY <1>1, <1>2, <1>3, <1>6, <1>8
<1>10. Pools'
  BY <1>1, <1>2, <1>3, <1>4, <1>6, <1>8, <1>9 DEF Pools, Serving
<1> QED
  BY <1>1, <1>2, <1>6, <1>7, <1>8, <1>10
LEMMA InitInv == Init => IInv
<1> SUFFICES ASSUME Init PROVE IInv
  OBVIOUS
<1> DEFINE n == MIN_POOL_NODES
<1>1. n \in Nat \ {0}
  BY TemplateAssumption
<1>2. /\ DOMAIN region = 1 .. n /\ pool = [i \in 1 .. n |-> i] /\ rndv = <<>>
      /\ srv = "running" /\ wild \in BOOLEAN
  BY DEF Init
<1>3. Cardinality(1 .. n) = n
  <2>1. 1 \in Int /\ n \in Int /\ ~(1 > n) /\ n - 1 + 1 = n
    BY <1>1
  <2> QED
    BY <2>1, FS_Interval
<1> HIDE DEF n
<1>4. pool \in Seq(Nat) /\ Len(pool) = n /\ DOMAIN pool = 1 .. n
  BY <1>1, <1>2
<1>5. Free = 1 .. n /\ Used = {}
  BY <1>1, <1>2, <1>4 DEF Free, Used, Entries
<1>6. rndv \in Seq(Nat)
  BY <1>2
<1>7. Pools
  BY <1>1, <1>2, <1>3, <1>4, <1>5, <1>6 DEF Pools, Serving, n
<1>8. Types
  <2>1. cq \in Seq({"send", "recv"}) /\ cache \in [Keys -> Addresses \cup {NULL}]
        /\ last \in [Keys -> Values \cup {NULL}]
    BY DEF Init
  <2>2. nodes \in Seq([key : Keys, val : Values, len : Nat \cup {NULL}, nul : SUBSET Nat])
    BY DEF Init
  <2>3. pc = "idle" /\ got = 0 /\ acking = FALSE /\ use_rndv_protocol = FALSE /\ todo = Keys
        /\ testing = NULL /\ out = NULL /\ inbox = NULL /\ reply = NULL /\ buf = NULL
        /\ caller \in {"tests", "any"}
    BY DEF Init
  <2> QED
    BY <2>1, <2>2, <2>3 DEF Types
<1>9. CallRight /\ Cached
  BY DEF Init, CallRight, Cached, SetCalls, GetCalls
<1>10. Phases
  BY DEF Init, Phases, Quiet, Unhandled
<1> QED
  BY <1>7, <1>8, <1>9, <1>10 DEF IInv

\* What leaves the regions and their lists alone.
SameRegions ==
  /\ UNCHANGED <<pool, rndv, wild>> /\ DOMAIN region' = DOMAIN region
  /\ srv' = srv \/ (srv = "running" /\ srv' \in {"crashed", "closing"})

LEMMA RegionsKept ==
  ASSUME Pools, SameRegions
  PROVE  Pools' /\ (Cached /\ cache' = cache => Cached')
         /\ \A r : cache' = cache /\ New(r) => New(r)'
<1>1. Free' = Free /\ Used' = Used
  BY DEF SameRegions, Free, Used, Entries
<1>2. pool' = pool /\ rndv' = rndv /\ wild' = wild /\ DOMAIN region' = DOMAIN region
      /\ (Serving' => Serving) /\ (srv' = "failed" => srv = "failed")
      /\ (srv \in {"running", "crashed", "closing", "closed", "failed"} =>
            srv' \in {"running", "crashed", "closing", "closed", "failed"})
  BY DEF SameRegions, Serving
<1>3. Pools'
  BY <1>1, <1>2 DEF Pools
<1>4. Cached /\ cache' = cache => Cached'
  BY <1>1, <1>2 DEF Cached
<1>5. \A r : cache' = cache /\ New(r) => New(r)'
  BY <1>1, <1>2 DEF New
<1> QED
  BY <1>3, <1>4, <1>5

\* A poll.
LEMMA PollKeeps ==
  ASSUME IInv, Poll PROVE IInv'
<1>1. Types /\ CallRight /\ Pools /\ Cached /\ Phases
  BY DEF IInv
<1>3. /\ pc' = pc /\ call' = call /\ cache' = cache /\ caller' = caller /\ last' = last
      /\ use_rndv_protocol' = use_rndv_protocol /\ todo' = todo /\ testing' = testing
      /\ out' = out /\ acking' = acking /\ buf' = buf /\ reply' = reply
      /\ srv' = srv /\ inbox' = inbox /\ nodes' = nodes /\ pool' = pool /\ rndv' = rndv /\ wild' = wild
      /\ region' = region /\ Busy
  BY DEF Poll, SameCaller, serverVars
<1>4. got' \in Nat /\ cq' \in Seq({"send", "recv"}) /\ got' + Len(cq') = got + Len(cq)
  BY <1>1, PollCounts
<1>5. Types'
  BY <1>1, <1>3, <1>4 DEF Types
<1>6. CallRight'
  BY <1>1, <1>3 DEF CallRight
<1>7. Pools' /\ Cached' /\ \A r : New(r) => New(r)'
  BY <1>1, <1>3, RegionsKept DEF SameRegions
<1>8. Phases'
  <2>1. pc \in DOMAIN Waits
    BY <1>3 DEF Busy
  <2>2. Sending' = Sending /\ (Unhandled <=> Unhandled')
    BY <1>3 DEF Sending, Unhandled
  <2>3. \A t : /\ (OneWay(t) => OneWay(t)') /\ (TwoWay(t) => TwoWay(t)')
               /\ (Asked(t) <=> Asked(t)') /\ Awaited(t)' = Awaited(t)
    BY <1>3, <1>4, <2>2 DEF OneWay, TwoWay, Asked, Awaited
  <2> QED
    BY <1>1, <1>3, <1>4, <1>7, <2>1, <2>2, <2>3 DEF Phases, Waits, Granted
<1> QED
  BY <1>5, <1>6, <1>7, <1>8 DEF IInv

\* What the network does.
LEMMA DeliverKeeps ==
  ASSUME IInv, Deliver PROVE IInv'
<1>1. Types /\ CallRight /\ Pools /\ Cached /\ Phases
  BY DEF IInv
<1>2. /\ pc' = pc /\ got' = got /\ call' = call /\ cache' = cache /\ caller' = caller
      /\ last' = last /\ use_rndv_protocol' = use_rndv_protocol /\ todo' = todo
      /\ testing' = testing /\ cq' = cq /\ buf' = buf /\ reply' = reply /\ srv' = srv
      /\ nodes' = nodes /\ pool' = pool /\ rndv' = rndv
      /\ region' = region /\ wild' = wild
  BY DEF Deliver, clientVars
<1>3. /\ out # NULL /\ out.type \notin Rdma /\ inbox = NULL
      /\ inbox' = out /\ out' = NULL /\ acking' = TRUE
  BY DEF Deliver
<1>4. out \in Requests
  BY <1>1, <1>3 DEF Types, Rdma, RdmaRequests
<1>5. Types'
  BY <1>1, <1>2, <1>3, <1>4 DEF Types
<1>6. CallRight'
  BY <1>1, <1>2 DEF CallRight
<1>7. Pools' /\ Cached'
  BY <1>1, <1>2, RegionsKept DEF SameRegions
<1>8. Phases'
  <2>1. Sending = 1 /\ Sending' = 1
    BY <1>3 DEF Sending
  <2>2. \A t : OneWay(t) =>
          out.type = t /\ reply' = NULL /\ got' + Len(cq') + Sending' = 1 /\ OneWay(t)'
    BY <1>2, <1>3, <2>1 DEF OneWay
  <2>3. \A t : TwoWay(t) => out.type = t /\ TwoWay(t)' /\ Asked(t) /\ Asked(t)'
                         /\ Awaited(t) = 1 /\ Awaited(t)' = 1 /\ reply = NULL
    BY <1>2, <1>3, <1>4, TemplateAssumption DEF TwoWay, Asked, Awaited, Unhandled
  <2>4. ~Quiet /\ (Unhandled' <=> out.type = "EAGER_SET_REQUEST") /\ out.type \notin {"READ", "WRITE"}
    BY <1>3, <1>4, TemplateAssumption DEF Quiet, Unhandled, Rdma
  <2> QED
    BY <1>1, <1>2, <1>3, <2>1, <2>2, <2>3, <2>4 DEF Phases
<1> QED
  BY <1>5, <1>6, <1>7, <1>8 DEF IInv

LEMMA AcknowledgeKeeps ==
  ASSUME IInv, Acknowledge PROVE IInv'
<1>1. Types /\ CallRight /\ Pools /\ Cached /\ Phases
  BY DEF IInv
<1>2. /\ pc' = pc /\ got' = got /\ call' = call /\ cache' = cache /\ caller' = caller
      /\ last' = last /\ use_rndv_protocol' = use_rndv_protocol /\ todo' = todo
      /\ testing' = testing /\ out' = out /\ buf' = buf /\ reply' = reply /\ srv' = srv
      /\ inbox' = inbox /\ nodes' = nodes /\ pool' = pool /\ rndv' = rndv
      /\ region' = region /\ wild' = wild
  BY DEF Acknowledge, clientVars, serverVars
<1>3. acking /\ acking' = FALSE /\ cq' = Append(cq, "send")
  BY DEF Acknowledge
<1>4. cq' \in Seq({"send", "recv"}) /\ Len(cq') = Len(cq) + 1 /\ Len(cq) \in Nat /\ got \in Nat
  BY <1>1, <1>3 DEF Types
<1>5. Types'
  BY <1>1, <1>2, <1>3, <1>4 DEF Types
<1>6. CallRight'
  BY <1>1, <1>2 DEF CallRight
<1>7. Pools' /\ Cached' /\ \A r : New(r) => New(r)'
  BY <1>1, <1>2, RegionsKept DEF SameRegions
<1>8. Phases'
  <2>1. \A t : OneWay(t) \/ TwoWay(t) => out = NULL
    BY <1>3 DEF OneWay, TwoWay
  <2>2. Sending = 1 /\ (out = NULL => Sending' = 0)
    BY <1>2, <1>3 DEF Sending
  <2>3. out = NULL => got' + Len(cq') + Sending' = got + Len(cq) + Sending
    BY <1>2, <1>4, <2>2
  <2>4. \A t : OneWay(t) => OneWay(t)'
    BY <1>2, <2>1, <2>3 DEF OneWay
  <2>5. \A t : /\ (Asked(t) <=> Asked(t)') /\ Awaited(t)' = Awaited(t)
               /\ (TwoWay(t) => out = NULL /\ TwoWay(t)')
    BY <1>2, <2>1 DEF TwoWay, Asked, Awaited, Unhandled
  <2>6. \A t : Awaited(t) \in {0, 1}
    BY DEF Awaited
  <2>7. ~Quiet /\ (Unhandled' <=> Unhandled)
    BY <1>2, <1>3 DEF Quiet, Unhandled
  <2> DEFINE s == got + Len(cq) + Sending
  <2>8. out = NULL => got' + Len(cq') + Sending' = s
    BY <2>3
  <2> QED
    BY <1>1, <1>2, <1>3, <1>7, <2>1, <2>2, <2>4, <2>5, <2>6, <2>7, <2>8 DEF Phases, Granted
<1> QED
  BY <1>5, <1>6, <1>7, <1>8 DEF IInv

LEMMA ResponseArrivesKeeps ==
  ASSUME IInv, ResponseArrives PROVE IInv'
<1>1. Types /\ CallRight /\ Pools /\ Cached /\ Phases
  BY DEF IInv
<1>2. /\ pc' = pc /\ got' = got /\ call' = call /\ cache' = cache /\ caller' = caller
      /\ last' = last /\ use_rndv_protocol' = use_rndv_protocol /\ todo' = todo
      /\ testing' = testing /\ out' = out /\ acking' = acking /\ srv' = srv
      /\ inbox' = inbox /\ nodes' = nodes /\ pool' = pool /\ rndv' = rndv
      /\ region' = region /\ wild' = wild
  BY DEF ResponseArrives, clientVars, serverVars
<1>3. reply # NULL /\ buf' = reply /\ reply' = NULL /\ cq' = Append(cq, "recv")
  BY DEF ResponseArrives
<1>4. cq' \in Seq({"send", "recv"}) /\ Len(cq') = Len(cq) + 1 /\ Len(cq) \in Nat /\ got \in Nat
  BY <1>1, <1>3 DEF Types
<1>5. Types'
  BY <1>1, <1>2, <1>3, <1>4 DEF Types
<1>6. CallRight'
  BY <1>1, <1>2 DEF CallRight
<1>7. Pools' /\ Cached' /\ \A r : New(r) => New(r)'
  BY <1>1, <1>2, RegionsKept DEF SameRegions
<1>8. Phases'
  <2>1. Sending' = Sending /\ Sending \in {0, 1} /\ ~Quiet /\ (Unhandled' <=> Unhandled)
    BY <1>2, <1>3 DEF Sending, Quiet, Unhandled
  <2>2. \A t : ~OneWay(t)
    BY <1>3 DEF OneWay
  <2>3. \A t : TwoWay(t) => out = NULL /\ Unhandled /\ TwoWay(t)'
    BY <1>2, <1>3 DEF TwoWay, Unhandled
  <2>4. \A t : t # "EAGER_SET_REQUEST" /\ TwoWay(t) => Awaited(t) = 1 /\ Awaited(t)' = 0 /\ ~Asked(t)'
    BY <1>2, <1>3, <2>3 DEF Awaited, Asked, Unhandled
  <2> DEFINE s == got + Len(cq) + Sending
  <2>5. s \in Nat /\ got' + Len(cq') + Sending' = s + 1
    BY <1>2, <1>4, <2>1
  <2> HIDE DEF s
  <2>6. pc \notin {"idle", "called", "check", "spinning", "aborted", "crashed", "set", "write", "read", "close", "closed",
                  "rndv_get"}
    BY <1>1, <1>3, <2>1, <2>2 DEF Phases
  <2>7. pc = "get" => TwoWay("EAGER_GET_REQUEST") /\ s + Awaited("EAGER_GET_REQUEST") = 2
    BY <1>1 DEF Phases, s
  <2>8. pc = "get_again" => TwoWay("EAGER_GET_REQUEST") /\ s + Awaited("EAGER_GET_REQUEST") <= 1
    BY <1>1 DEF Phases, s
  <2>9. pc = "rndv_set" => TwoWay("RENDEZVOUS_SET_REQUEST") /\ s + Awaited("RENDEZVOUS_SET_REQUEST") = 2
                           /\ Granted(reply)
    BY <1>1, <1>3 DEF Phases, s
  <2>10. pc = "get" => TwoWay("EAGER_GET_REQUEST")'
                       /\ got' + Len(cq') + Sending' + Awaited("EAGER_GET_REQUEST")' = 2
    BY <2>3, <2>4, <2>5, <2>7
  <2>11. pc = "get_again" => TwoWay("EAGER_GET_REQUEST")'
                       /\ got' + Len(cq') + Sending' + Awaited("EAGER_GET_REQUEST")' <= 1
    BY <2>3, <2>4, <2>5, <2>8
  <2>12. pc = "rndv_set" => /\ TwoWay("RENDEZVOUS_SET_REQUEST")'
                       /\ got' + Len(cq') + Sending' + Awaited("RENDEZVOUS_SET_REQUEST")' = 2
                       /\ buf' # NULL /\ Granted(buf)'
    BY <1>3, <1>7, <2>3, <2>4, <2>5, <2>9 DEF Granted
  <2> QED
    BY <1>2, <1>3, <2>6, <2>10, <2>11, <2>12 DEF Phases
<1> QED
  BY <1>5, <1>6, <1>7, <1>8 DEF IInv

\* An RDMA request is done when its completion comes.
LEMMA RdmaDone ==
  ASSUME IInv, out # NULL, out.type \in Rdma, out' = NULL, cq' = Append(cq, "send"),
         UNCHANGED <<pc, got, call, acking, buf, reply, inbox>>
  PROVE  cq' \in Seq({"send", "recv"}) /\ Phases'
<1>1. Types /\ Phases
  BY DEF IInv
<1>2. cq' \in Seq({"send", "recv"}) /\ Len(cq') = Len(cq) + 1 /\ Len(cq) \in Nat /\ got \in Nat
  BY <1>1 DEF Types
<1>3. ~Quiet /\ (Unhandled' <=> Unhandled) /\ Sending = 1 /\ (~acking => Sending' = 0)
  BY DEF Quiet, Unhandled, Sending
<1>4. pc \notin {"idle", "called", "check", "spinning", "aborted", "crashed", "closed"}
  BY <1>1, <1>3 DEF Phases
<1>5. \A t : OneWay(t) \/ TwoWay(t) => out.type = t /\ ~acking
  BY DEF OneWay, TwoWay
<1>6. pc \notin {"set", "close", "get", "get_again", "rndv_set", "rndv_get"}
  BY <1>1, <1>5 DEF Phases, Rdma
<1>7. \A t : OneWay(t) => OneWay(t)'
  BY <1>2, <1>3, <1>5 DEF OneWay
<1>8. Phases'
  BY <1>1, <1>3, <1>4, <1>6, <1>7 DEF Phases
<1> QED
  BY <1>2, <1>8

LEMMA RdmaWriteKeeps ==
  ASSUME IInv, RdmaWrite PROVE IInv'
<1>1. Types /\ CallRight /\ Pools /\ Cached /\ Phases
  BY DEF IInv
<1>2. /\ pc' = pc /\ got' = got /\ call' = call /\ cache' = cache /\ caller' = caller
      /\ last' = last /\ use_rndv_protocol' = use_rndv_protocol /\ todo' = todo
      /\ testing' = testing /\ acking' = acking /\ buf' = buf /\ reply' = reply /\ srv' = srv
      /\ inbox' = inbox /\ nodes' = nodes /\ pool' = pool /\ rndv' = rndv /\ wild' = wild
      /\ DOMAIN region' = DOMAIN region
  BY DEF RdmaWrite, clientVars
<1>3. out # NULL /\ out.type \in Rdma /\ out' = NULL /\ cq' = Append(cq, "send")
  BY DEF RdmaWrite, Rdma
<1>4. cq' \in Seq({"send", "recv"}) /\ Phases'
  BY <1>2, <1>3, RdmaDone
<1>5. Types'
  BY <1>1, <1>2, <1>3, <1>4 DEF Types
<1>6. CallRight' /\ Pools' /\ Cached'
  BY <1>1, <1>2, RegionsKept DEF SameRegions, CallRight
<1> QED
  BY <1>4, <1>5, <1>6 DEF IInv

LEMMA RdmaReadKeeps ==
  ASSUME IInv, RdmaRead PROVE IInv'
<1>1. Types /\ CallRight /\ Pools /\ Cached /\ Phases
  BY DEF IInv
<1>2. /\ pc' = pc /\ got' = got /\ call' = call /\ cache' = cache /\ caller' = caller
      /\ last' = last /\ use_rndv_protocol' = use_rndv_protocol /\ todo' = todo
      /\ testing' = testing /\ acking' = acking /\ buf' = buf /\ reply' = reply /\ srv' = srv
      /\ inbox' = inbox /\ nodes' = nodes /\ pool' = pool /\ rndv' = rndv /\ wild' = wild
      /\ DOMAIN region' = DOMAIN region
  BY DEF RdmaRead, serverVars
<1>3. out # NULL /\ out.type \in Rdma /\ out' = NULL /\ cq' = Append(cq, "send")
  BY DEF RdmaRead, Rdma
<1>4. cq' \in Seq({"send", "recv"}) /\ Phases'
  BY <1>2, <1>3, RdmaDone
<1>5. Types'
  BY <1>1, <1>2, <1>3, <1>4 DEF Types
<1>6. CallRight' /\ Pools' /\ Cached'
  BY <1>1, <1>2, RegionsKept DEF SameRegions, CallRight
<1> QED
  BY <1>4, <1>5, <1>6 DEF IInv

\* What the server takes from its receive buffer is the request of the call, or
\* an eager set.
LEMMA HandledPhases ==
  ASSUME IInv, inbox # NULL, inbox' = NULL, UNCHANGED <<pc, got, call, cq, out, acking, buf>>,
         inbox.type \in {"EAGER_GET_REQUEST", "RENDEZVOUS_SET_REQUEST"} => reply' # NULL,
         inbox.type = "RENDEZVOUS_SET_REQUEST" => Granted(reply)',
         inbox.type \notin {"EAGER_GET_REQUEST", "RENDEZVOUS_SET_REQUEST"} => reply' = reply,
         \A r : New(r) => New(r)'
  PROVE  Phases'
<1>1. Types /\ Phases
  BY DEF IInv
<1>2. Sending' = Sending /\ Unhandled' /\ (Quiet => reply = NULL) /\ (Quiet /\ reply' = NULL => Quiet')
      /\ (Unhandled <=> inbox.type = "EAGER_SET_REQUEST") /\ got' + Len(cq') = got + Len(cq)
  BY DEF Sending, Unhandled, Quiet
<1>3. Unhandled => reply' = reply
  BY <1>2
<1>4. pc \in {"idle", "called", "check", "spinning", "aborted", "crashed"} => Quiet' /\ Unhandled'
  BY <1>1, <1>2, <1>3 DEF Phases, Quiet
<1>5. \A t : OneWay(t) /\ Unhandled => OneWay(t)'
  BY <1>2, <1>3 DEF OneWay
<1>6. pc = "set" => OneWay("EAGER_SET_REQUEST")' /\ Unhandled'
  BY <1>1, <1>2, <1>5 DEF Phases
<1>7. pc = "write" => OneWay("WRITE")' /\ ~acking' /\ Unhandled'
  BY <1>1, <1>2, <1>5 DEF Phases
<1>8. pc = "read" => OneWay("READ")' /\ ~acking' /\ Unhandled'
  BY <1>1, <1>2, <1>5 DEF Phases
<1>9. pc = "close" => OneWay("CLOSE_CONNECTION")'
  <2> HAVE pc = "close"
  <2>1. OneWay("CLOSE_CONNECTION") /\ inbox.type \in {"CLOSE_CONNECTION", "EAGER_SET_REQUEST"}
    BY <1>1 DEF Phases
  <2>2. reply' = reply
    BY <2>1
  <2> QED
    BY <1>2, <2>1, <2>2 DEF OneWay
<1>10. pc = "closed" => Quiet'
  <2> HAVE pc = "closed"
  <2>1. Quiet /\ inbox.type \in {"CLOSE_CONNECTION", "EAGER_SET_REQUEST"}
    BY <1>1 DEF Phases
  <2>2. reply' = reply
    BY <2>1
  <2> QED
    BY <1>2, <2>1, <2>2 DEF Quiet
<1>11. \A t : TwoWay(t) /\ ~Unhandled => out = NULL /\ reply = NULL /\ inbox.type = t
  BY <1>2 DEF TwoWay
<1>12. \A t : TwoWay(t) => TwoWay(t)'
  <2> SUFFICES ASSUME NEW t, TwoWay(t) PROVE TwoWay(t)'
    OBVIOUS
  <2>1. out # NULL => reply' = NULL
    BY <1>3 DEF TwoWay
  <2> QED
    BY <1>2, <2>1 DEF TwoWay
<1>13. \A t : Unhandled /\ t # "EAGER_SET_REQUEST" => (Asked(t) <=> Asked(t)') /\ Awaited(t)' = Awaited(t)
  BY <1>2, <1>3 DEF Asked, Awaited
<1>14. \A t \in {"EAGER_GET_REQUEST", "RENDEZVOUS_SET_REQUEST"} :
         TwoWay(t) => (Asked(t) <=> Asked(t)') /\ Awaited(t)' = Awaited(t)
  <2> SUFFICES ASSUME NEW t \in {"EAGER_GET_REQUEST", "RENDEZVOUS_SET_REQUEST"}, TwoWay(t)
               PROVE  (Asked(t) <=> Asked(t)') /\ Awaited(t)' = Awaited(t)
    OBVIOUS
  <2>1. CASE Unhandled
    BY <1>13, <2>1
  <2>2. CASE ~Unhandled
    <3>1. Asked(t) /\ Asked(t)'
      BY <1>11, <2>2 DEF Asked
    <3> QED
      BY <3>1 DEF Awaited
  <2> QED
    BY <2>1, <2>2
<1>16. pc = "get" => TwoWay("EAGER_GET_REQUEST")'
                   /\ got' + Len(cq') + Sending' + Awaited("EAGER_GET_REQUEST")' = 2
  BY <1>1, <1>2, <1>12, <1>14 DEF Phases
<1>17. pc = "get_again" => TwoWay("EAGER_GET_REQUEST")'
                   /\ got' + Len(cq') + Sending' + Awaited("EAGER_GET_REQUEST")' <= 1
  BY <1>1, <1>2, <1>12, <1>14 DEF Phases
<1>18. pc = "rndv_set" =>
       /\ TwoWay("RENDEZVOUS_SET_REQUEST")'
       /\ got' + Len(cq') + Sending' + Awaited("RENDEZVOUS_SET_REQUEST")' = 2
       /\ reply' # NULL => Granted(reply)'
       /\ ~Asked("RENDEZVOUS_SET_REQUEST")' => buf' # NULL /\ Granted(buf)'
  <2> HAVE pc = "rndv_set"
  <2>1. /\ TwoWay("RENDEZVOUS_SET_REQUEST")
        /\ got + Len(cq) + Sending + Awaited("RENDEZVOUS_SET_REQUEST") = 2
        /\ reply # NULL => Granted(reply)
        /\ ~Asked("RENDEZVOUS_SET_REQUEST") => buf # NULL /\ Granted(buf)
    BY <1>1 DEF Phases
  <2>2. reply' # NULL => Granted(reply)'
    <3>1. CASE Unhandled
      BY <1>3, <2>1, <3>1 DEF Granted
    <3>2. CASE ~Unhandled
      BY <1>11, <2>1, <3>2
    <3> QED
      BY <3>1, <3>2
  <2>3. ~Asked("RENDEZVOUS_SET_REQUEST")' => buf' # NULL /\ Granted(buf)'
    BY <1>14, <2>1 DEF Granted
  <2> QED
    BY <1>2, <1>12, <1>14, <2>1, <2>2, <2>3
<1>19. pc = "rndv_get" => TwoWay("RENDEZVOUS_GET_REQUEST")' /\ reply' = NULL
                        /\ got' + Len(cq') + Sending' <= 1
  <2> HAVE pc = "rndv_get"
  <2>1. TwoWay("RENDEZVOUS_GET_REQUEST") /\ reply = NULL /\ got + Len(cq) + Sending <= 1
    BY <1>1 DEF Phases
  <2>2. reply' = reply
    BY <2>1 DEF TwoWay
  <2> QED
    BY <1>2, <1>12, <2>1, <2>2
<1> QED
  BY <1>4, <1>6, <1>7, <1>8, <1>9, <1>10, <1>16, <1>17, <1>18, <1>19 DEF Phases

\* The list holds nodes of keys and values.
LEMMA NodesKept ==
  ASSUME Types, inbox # NULL, inbox.type = "EAGER_SET_REQUEST", HandleEagerSet(inbox)
  PROVE  nodes' \in Seq([key : Keys, val : Values, len : Nat \cup {NULL}, nul : SUBSET Nat])
<1> DEFINE N == [key : Keys, val : Values, len : Nat \cup {NULL}, nul : SUBSET Nat]
<1>1. inbox \in [type : {"EAGER_SET_REQUEST"}, key : Keys, value : Values] /\ nodes \in Seq(N)
  BY DEF Types, Requests
<1>2. inbox.key \in Keys /\ inbox.value \in Values /\ ValLen[inbox.value] \in Nat
  BY <1>1, TemplateAssumption
<1>3. CASE NodeOf(inbox.key) = {}
  <2>1. nodes' = Append(nodes, [key |-> inbox.key, val |-> inbox.value,
                                len |-> ValLen[inbox.value], nul |-> {}])
    BY <1>3 DEF HandleEagerSet, AppendNode
  <2>2. [key |-> inbox.key, val |-> inbox.value, len |-> ValLen[inbox.value], nul |-> {}] \in N
    BY <1>2
  <2> QED
    BY <1>1, <2>1, <2>2
<1>4. CASE NodeOf(inbox.key) # {}
  <2> DEFINE i == Min(NodeOf(inbox.key))
  <2>1. i \in DOMAIN nodes
    <3>1. NodeOf(inbox.key) \in SUBSET Nat /\ NodeOf(inbox.key) \subseteq DOMAIN nodes
      BY <1>1 DEF NodeOf
    <3> QED
      BY <1>4, <3>1, MinInSet
  <2>2. nodes' \in ReplaceNode(i, inbox)
    BY <1>4 DEF HandleEagerSet
  <2> HIDE DEF i
  <2>3. PICK l \in {nodes[i].len, NULL} :
          nodes' = [j \in DOMAIN nodes |->
             LET n == IF j = i THEN [nodes[i] EXCEPT !.val = inbox.value, !.len = l, !.nul = {}]
                               ELSE nodes[j]
             IN IF j = 1 THEN [n EXCEPT !.nul = @ \cup {ValLen[inbox.value]}] ELSE n]
    BY <2>2 DEF ReplaceNode
  <2>4. \A j \in DOMAIN nodes : nodes[j] \in N
    BY <1>1, EntryIn
  <2>5. \A j \in DOMAIN nodes : nodes'[j] \in N
    <3> TAKE j \in DOMAIN nodes
    <3> DEFINE n == IF j = i THEN [nodes[i] EXCEPT !.val = inbox.value, !.len = l, !.nul = {}]
                             ELSE nodes[j]
    <3>1. n \in N
      BY <1>2, <2>1, <2>4
    <3>2. nodes'[j] = IF j = 1 THEN [n EXCEPT !.nul = @ \cup {ValLen[inbox.value]}] ELSE n
      BY <2>3
    <3> HIDE DEF n
    <3> QED
      BY <1>2, <3>1, <3>2
  <2>6. DOMAIN nodes' = 1 .. Len(nodes) /\ Len(nodes) \in Nat
        /\ nodes' = [j \in 1 .. Len(nodes) |-> nodes'[j]]
    BY <1>1, <2>3
  <2> QED
    BY <1>1, <2>5, <2>6
<1> QED
  BY <1>3, <1>4

LEMMA HandlesSame ==
  ASSUME IInv, ServerHandles
  PROVE  /\ pc' = pc /\ got' = got /\ call' = call /\ cache' = cache /\ caller' = caller
         /\ last' = last /\ use_rndv_protocol' = use_rndv_protocol /\ todo' = todo
         /\ testing' = testing /\ cq' = cq /\ out' = out /\ acking' = acking /\ buf' = buf
         /\ srv = "running" /\ inbox # NULL /\ inbox' = NULL /\ inbox \in Requests
BY DEF ServerHandles, clientVars, IInv, Types

\* The answer to a get is a packet.
LEMMA EagerGetAnswers ==
  ASSUME Types, HandleEagerGet(inbox) PROVE reply' \in Responses /\ reply' # NULL
<1>1. reply' \in Responses
  <2>1. CASE NodeOf(inbox.key) # {}
    <3> DEFINE n == nodes[Min(NodeOf(inbox.key))]
    <3>1. NodeOf(inbox.key) \in SUBSET Nat /\ NodeOf(inbox.key) \subseteq DOMAIN nodes
      BY DEF NodeOf, Types
    <3>2. Min(NodeOf(inbox.key)) \in DOMAIN nodes
      BY <2>1, <3>1, MinInSet
    <3>3. n \in [key : Keys, val : Values, len : Nat \cup {NULL}, nul : SUBSET Nat]
      <4> DEFINE N == [key : Keys, val : Values, len : Nat \cup {NULL}, nul : SUBSET Nat]
      <4>1. nodes \in Seq(N)
        BY DEF Types
      <4> HIDE DEF N
      <4>2. n \in N
        BY <3>2, <4>1, EntryIn
      <4> QED
        BY <4>2 DEF N
    <3>4. reply' = IF n.len = NULL THEN [type |-> "NO_LENGTH"]
                   ELSE [type |-> "EAGER_GET_RESPONSE", len |-> n.len,
                         val |-> n.val, nul |-> n.nul]
      BY <2>1 DEF HandleEagerGet
    <3> HIDE DEF n
    <3> QED
      BY <3>3, <3>4 DEF Responses
  <2>2. CASE NodeOf(inbox.key) = {}
    BY <2>2 DEF HandleEagerGet, Responses
  <2> QED
    BY <2>1, <2>2
<1>2. reply' # NULL
  BY <1>1, TemplateAssumption
<1> QED
  BY <1>1, <1>2

\* A request whose answer takes no region.
LEMMA HandlesKeeps ==
  ASSUME IInv, ServerHandles,
         inbox.type \in {"EAGER_GET_REQUEST", "EAGER_SET_REQUEST", "CLOSE_CONNECTION"}
  PROVE  IInv'
<1>1. Types /\ CallRight /\ Pools /\ Cached /\ Phases
  BY DEF IInv
<1>3. CASE inbox.type = "EAGER_GET_REQUEST"
  <2>1. HandleEagerGet(inbox)
    BY <1>3 DEF ServerHandles
  <2>2. UNCHANGED <<srv, nodes, pool, rndv, region, wild>>
    BY <2>1 DEF HandleEagerGet
  <2>3. reply' \in Responses
    BY <1>1, <2>1, EagerGetAnswers
  <2>4. reply' # NULL
    BY <2>3, TemplateAssumption
  <2>5. Types'
    BY <1>1, <2>2, <2>3, HandlesSame DEF Types
  <2>6. CallRight' /\ Pools' /\ Cached' /\ \A r : New(r) => New(r)'
    BY <1>1, <2>2, HandlesSame, RegionsKept DEF SameRegions, CallRight
  <2>7. Phases'
    BY <1>3, <2>4, <2>6, HandlesSame, HandledPhases
  <2> QED
    BY <2>5, <2>6, <2>7 DEF IInv
<1>4. CASE inbox.type = "EAGER_SET_REQUEST"
  <2>1. HandleEagerSet(inbox)
    BY <1>4 DEF ServerHandles
  <2>2. reply' = reply /\ pool' = pool /\ rndv' = rndv /\ region' = region /\ wild' = wild
    BY <2>1 DEF HandleEagerSet
  <2>3. srv' \in {"running", "crashed"}
    <3>1. CASE NodeOf(inbox.key) = {}
      BY <2>1, <3>1, HandlesSame DEF HandleEagerSet
    <3>2. CASE NodeOf(inbox.key) # {}
      BY <2>1, <3>2 DEF HandleEagerSet
    <3> QED
      BY <3>1, <3>2
  <2>4. nodes' \in Seq([key : Keys, val : Values, len : Nat \cup {NULL}, nul : SUBSET Nat])
    BY <1>1, <1>4, <2>1, HandlesSame, NodesKept
  <2>5. Types'
    BY <1>1, <2>2, <2>4, HandlesSame DEF Types
  <2>6. SameRegions
    BY <2>2, <2>3, HandlesSame DEF SameRegions
  <2>7. CallRight' /\ Pools' /\ Cached' /\ \A r : New(r) => New(r)'
    BY <1>1, <2>6, HandlesSame, RegionsKept DEF CallRight
  <2>8. Phases'
    BY <1>4, <2>2, <2>7, HandlesSame, HandledPhases
  <2> QED
    BY <2>5, <2>7, <2>8 DEF IInv
<1>5. CASE inbox.type = "CLOSE_CONNECTION"
  <2>1. srv' = "closing" /\ UNCHANGED <<reply, nodes, pool, rndv, region, wild>>
    BY <1>5 DEF ServerHandles
  <2>2. Types'
    BY <1>1, <2>1, HandlesSame DEF Types
  <2>3. SameRegions
    BY <2>1, HandlesSame DEF SameRegions
  <2>4. CallRight' /\ Pools' /\ Cached' /\ \A r : New(r) => New(r)'
    BY <1>1, <2>3, HandlesSame, RegionsKept DEF CallRight
  <2>5. Phases'
    BY <1>5, <2>1, <2>4, HandlesSame, HandledPhases
  <2> QED
    BY <2>2, <2>4, <2>5 DEF IInv
<1> QED
  BY <1>3, <1>4, <1>5

\* A region that is in use stays in use, and so does an address.
LEMMA RegionsGrow ==
  ASSUME Pools, Cached, cache' = cache, srv = "running", srv' = srv, RegionTaken, PoolRefilled
  PROVE  Pools' /\ Cached' /\ (\A r : r = Head(pool) => New(r)')
         /\ (\A r : New(r) => New(r)') /\ Head(pool) \in Nat
<1>1. /\ Pools' /\ Used' = Used \cup {Head(pool)} /\ Head(pool) \in Free
      /\ Head(pool) \in Nat
      /\ DOMAIN region \subseteq DOMAIN region' /\ Head(pool) \in DOMAIN region'
  BY RegionMoves
<1>2. Cached'
  BY <1>1 DEF Cached, Serving
<1>3. \A r : New(r) => New(r)'
  BY <1>1 DEF New, Serving
<1>4. Head(pool) \notin Used
  BY <1>1 DEF Pools, Serving
<1>5. \A k \in Keys : cache[k] # NULL => cache[k].at \in Used
  BY DEF Cached, Serving
<1>6. \A r : r = Head(pool) => New(r)'
  BY <1>1, <1>4, <1>5 DEF New
<1> QED
  BY <1>1, <1>2, <1>3, <1>6

\* While the server runs, there is a region to take.
LEMMA PoolNotEmpty == ASSUME Pools, srv = "running" PROVE pool # <<>>
<1>1. Len(pool) = MIN_POOL_NODES /\ MIN_POOL_NODES \in Nat \ {0} /\ pool \in Seq(Nat)
  BY TemplateAssumption DEF Pools, Serving
<1> QED
  BY <1>1

\* The other requests take a region.
LEMMA RndvHandlesKeeps ==
  ASSUME IInv, ServerHandles,
         inbox.type \in {"RENDEZVOUS_SET_REQUEST", "RENDEZVOUS_GET_REQUEST"}
  PROVE  IInv'
<1>1. Types /\ CallRight /\ Pools /\ Cached /\ Phases
  BY DEF IInv
<1>p. pool # <<>>
  BY <1>1, PoolNotEmpty, HandlesSame
<1>2. RegionTaken /\ PoolRefilled /\ srv' = srv /\ nodes' = nodes
  BY <1>p DEF ServerHandles, HandleRndvSet, HandleRndvGet
<1>3. Pools' /\ Cached' /\ (\A r : r = Head(pool) => New(r)') /\ (\A r : New(r) => New(r)')
      /\ Head(pool) \in Nat
  BY <1>1, <1>2, HandlesSame, RegionsGrow
<1>4. CallRight'
  BY <1>1, HandlesSame DEF CallRight
<1>5. CASE inbox.type = "RENDEZVOUS_SET_REQUEST"
  <2>1. reply' = [type |-> "RENDEZVOUS_SET_RESPONSE", at |-> Head(pool)]
    BY <1>p, <1>5 DEF ServerHandles, HandleRndvSet
  <2>2. reply' \in Responses /\ reply' # NULL
    BY <1>3, <2>1, TemplateAssumption DEF Responses
  <2>3. Types'
    BY <1>1, <1>2, <2>2, HandlesSame DEF Types
  <2>4. Granted(reply)'
    BY <1>3, <2>1 DEF Granted
  <2>5. Phases'
    BY <1>3, <1>5, <2>2, <2>4, HandlesSame, HandledPhases
  <2> QED
    BY <1>3, <1>4, <2>3, <2>5 DEF IInv
<1>6. CASE inbox.type = "RENDEZVOUS_GET_REQUEST"
  <2>1. reply' = reply
    BY <1>p, <1>6 DEF ServerHandles, HandleRndvGet
  <2>2. Types'
    BY <1>1, <1>2, <2>1, HandlesSame DEF Types
  <2>3. Phases'
    BY <1>3, <1>6, <2>1, HandlesSame, HandledPhases
  <2> QED
    BY <1>3, <1>4, <2>2, <2>3 DEF IInv
<1> QED
  BY <1>5, <1>6

LEMMA ServerHandlesKeeps ==
  ASSUME IInv, ServerHandles PROVE IInv'
<1>1. inbox.type \in {"EAGER_GET_REQUEST", "EAGER_SET_REQUEST", "CLOSE_CONNECTION",
                     "RENDEZVOUS_SET_REQUEST", "RENDEZVOUS_GET_REQUEST"}
  BY HandlesSame DEF Requests
<1> QED
  BY <1>1, HandlesKeeps, RndvHandlesKeeps

\* A crash leaves all but the server as it is.
LEMMA ServerCrashesKeeps == ASSUME IInv, ServerCrashes PROVE IInv'
<1>1. Types /\ CallRight /\ Pools /\ Cached /\ Phases
  BY DEF IInv
<1>2. /\ UNCHANGED <<clientVars, netVars, inbox, nodes, pool, rndv, region, wild>>
      /\ srv = "running" /\ srv' = "crashed"
  BY DEF ServerCrashes
<1>3. Pools' /\ Cached' /\ (\A r : New(r) => New(r)')
  BY <1>1, <1>2, RegionsKept DEF SameRegions, clientVars
<1>4. Types' /\ CallRight'
  BY <1>1, <1>2 DEF Types, CallRight, clientVars, netVars
<1>5. /\ Quiet' = Quiet /\ Unhandled' = Unhandled /\ Sending' = Sending
      /\ \A t : OneWay(t)' = OneWay(t) /\ TwoWay(t)' = TwoWay(t) /\ Asked(t)' = Asked(t)
               /\ Awaited(t)' = Awaited(t)
  BY <1>2 DEF Quiet, Unhandled, Sending, OneWay, TwoWay, Asked, Awaited, clientVars, netVars
<1>6. Phases'
  BY <1>1, <1>2, <1>3, <1>5 DEF Phases, Granted, clientVars, netVars
<1> QED
  BY <1>3, <1>4, <1>6 DEF IInv

\* Both lists together are all regions there are.
LEMMA ServerClosesKeeps ==
  ASSUME IInv, ServerCloses
  PROVE  IInv' /\ srv' \in {"closed", "failed", "crashed"} /\ (srv' # "closed" => wild)
<1>1. Types /\ CallRight /\ Pools /\ Cached /\ Phases
  BY DEF IInv
<1>2. /\ pc' = pc /\ got' = got /\ call' = call /\ cache' = cache /\ caller' = caller
      /\ last' = last /\ use_rndv_protocol' = use_rndv_protocol /\ todo' = todo
      /\ testing' = testing /\ cq' = cq /\ out' = out /\ acking' = acking /\ buf' = buf
      /\ reply' = reply /\ inbox' = inbox /\ nodes' = nodes /\ region' = region
      /\ wild' = wild /\ srv = "closing"
  BY DEF ServerCloses, clientVars, netVars
<1>3. srv' \in {"closed", "failed", "crashed"} /\ (srv' # "closed" => wild)
  <2>1. Free \cup Used = DOMAIN region
    BY <1>1, <1>2 DEF Pools, Serving
  <2>2. Listed = Free \cup Used
    BY DEF Listed, Free, Used, Entries
  <2> QED
    BY <2>1, <2>2 DEF ServerCloses
<1>4. Types' /\ CallRight' /\ Pools' /\ Cached'
  BY <1>1, <1>2, <1>3 DEF Types, CallRight, Pools, Cached, Serving
<1>5. \A r : New(r) => New(r)'
  BY <1>2, <1>3 DEF New, Serving
<1>6. /\ Quiet' = Quiet /\ Unhandled' = Unhandled /\ Sending' = Sending
      /\ \A t : OneWay(t)' = OneWay(t) /\ TwoWay(t)' = TwoWay(t) /\ Asked(t)' = Asked(t)
               /\ Awaited(t)' = Awaited(t)
  BY <1>2 DEF Quiet, Unhandled, Sending, OneWay, TwoWay, Asked, Awaited
<1>7. Phases'
  BY <1>1, <1>2, <1>5, <1>6 DEF Phases, Granted
<1> QED
  BY <1>3, <1>4, <1>7 DEF IInv

\* What the client leaves alone.
LEMMA ServerSame ==
  ASSUME IInv, UNCHANGED serverVars
  PROVE  /\ Pools' /\ (cache' = cache => Cached') /\ inbox' = inbox /\ nodes' = nodes
         /\ srv' = srv /\ region' = region /\ wild' = wild
<1>1. Pools /\ Cached
  BY DEF IInv
<1>2. /\ srv' = srv /\ inbox' = inbox /\ nodes' = nodes /\ pool' = pool /\ rndv' = rndv
      /\ region' = region /\ wild' = wild
  BY DEF serverVars
<1> QED
  BY <1>1, <1>2, RegionsKept DEF SameRegions

\* A request is posted when nothing is under way.
LEMMA PostPhases ==
  ASSUME IInv, Quiet, Unhandled, NEW t, out' # NULL, out'.type = t, got' = 0,
         UNCHANGED <<cq, acking, reply, inbox>>
  PROVE  /\ OneWay(t)' /\ TwoWay(t)' /\ ~acking' /\ Unhandled' /\ reply' = NULL
         /\ got' + Len(cq') + Sending' = 1 /\ Asked(t)' /\ Awaited(t)' = 1
<1>1. cq = <<>> /\ out = NULL /\ ~acking /\ reply = NULL
  BY DEF Quiet
<1>2. Len(cq') = 0 /\ Sending' = 1
  BY <1>1 DEF Sending
<1>3. Asked(t)' /\ Awaited(t)' = 1
  BY DEF Asked, Awaited
<1>4. Unhandled'
  BY DEF Unhandled
<1>5. OneWay(t)' /\ TwoWay(t)'
  BY <1>1, <1>2, <1>4 DEF OneWay, TwoWay, Unhandled
<1> QED
  BY <1>1, <1>2, <1>3, <1>4, <1>5

\* At the end of a wait nothing is under way.
LEMMA WaitedQuiet ==
  ASSUME IInv, NEW w \in {"set", "write", "read", "rndv_set", "get_again", "close"}, Waited(w)
  PROVE  /\ Quiet /\ (w # "close" => Unhandled)
         /\ w = "rndv_set" => buf # NULL /\ Granted(buf)
<1>1. Types /\ Phases /\ pc = w /\ got \in Nat /\ cq \in Seq({"send", "recv"}) /\ Len(cq) \in Nat
  BY DEF IInv, Types, Waited
<1>2. got >= IF w = "rndv_set" THEN 2 ELSE 1
  BY DEF Waited, Waits
<1>3. Sending \in {0, 1} /\ (Sending = 0 => out = NULL /\ ~acking)
  BY <1>1 DEF Sending, Types
<1>4. \A t : Awaited(t) \in {0, 1} /\ (Awaited(t) = 0 => ~Asked(t))
  BY DEF Awaited
<1> DEFINE n == Len(cq)
<1>5. n \in Nat /\ (n = 0 => cq = <<>>)
  BY <1>1
<1>6. CASE w \in {"set", "write", "read", "close"}
  <2>1. reply = NULL /\ got + n + Sending = 1
    BY <1>1, <1>6 DEF Phases, OneWay
  <2>2. w # "close" => Unhandled
    BY <1>1, <1>6 DEF Phases
  <2>3. got >= 1
    BY <1>2, <1>6
  <2> HIDE DEF n
  <2>4. n = 0 /\ Sending = 0
    BY <1>1, <1>3, <1>5, <2>1, <2>3
  <2> QED
    BY <1>3, <1>5, <1>6, <2>1, <2>2, <2>4 DEF Quiet
<1>7. CASE w = "get_again"
  <2> DEFINE t == "EAGER_GET_REQUEST"
  <2>1. TwoWay(t) /\ got + n + Sending + Awaited(t) <= 1
    BY <1>1, <1>7 DEF Phases
  <2>2. got >= 1
    BY <1>2, <1>7
  <2> HIDE DEF n, t
  <2>3. n = 0 /\ Sending = 0 /\ Awaited(t) = 0
    BY <1>1, <1>3, <1>4, <1>5, <2>1, <2>2
  <2>4. ~Asked(t) /\ cq = <<>> /\ out = NULL /\ ~acking
    BY <1>3, <1>4, <1>5, <2>3
  <2> QED
    BY <1>7, <2>1, <2>4 DEF Quiet, Asked, TwoWay, Unhandled
<1>8. CASE w = "rndv_set"
  <2> DEFINE t == "RENDEZVOUS_SET_REQUEST"
  <2>1. TwoWay(t) /\ got + n + Sending + Awaited(t) = 2 /\ (~Asked(t) => buf # NULL /\ Granted(buf))
    BY <1>1, <1>8 DEF Phases
  <2>2. got >= 2
    BY <1>2, <1>8
  <2> HIDE DEF n, t
  <2>3. n = 0 /\ Sending = 0 /\ Awaited(t) = 0
    BY <1>1, <1>3, <1>4, <1>5, <2>1, <2>2
  <2>4. ~Asked(t) /\ cq = <<>> /\ out = NULL /\ ~acking
    BY <1>3, <1>4, <1>5, <2>3
  <2> QED
    BY <1>8, <2>1, <2>4 DEF Quiet, Asked, TwoWay, Unhandled
<1> QED
  BY <1>6, <1>7, <1>8

\* A call posts its first request.
LEMMA PostKeeps ==
  ASSUME IInv, pc = "called", Quiet, Unhandled, NEW w, pc' = w, NEW t, out' # NULL, out'.type = t, got' = 0,
         out' \in Requests \cup RdmaRequests,
         \/ w = "set" /\ t = "EAGER_SET_REQUEST" /\ call.name = "set"
         \/ w = "write" /\ t = "WRITE" /\ call.name = "set"
         \/ w = "rndv_set" /\ t = "RENDEZVOUS_SET_REQUEST" /\ call.name = "set"
         \/ w = "read" /\ t = "READ" /\ call.name = "get"
         \/ w = "get" /\ t = "EAGER_GET_REQUEST" /\ call.name = "get"
         \/ w = "rndv_get" /\ t = "RENDEZVOUS_GET_REQUEST" /\ call.name = "get"
         \/ w = "close" /\ t = "CLOSE_CONNECTION",
         UNCHANGED <<cq, acking, buf, reply, call, cache, serverVars>>, SameCaller
  PROVE  IInv'
<1>1. Types /\ CallRight /\ Pools /\ Cached /\ Phases
  BY DEF IInv
<1>2. Pools' /\ Cached' /\ inbox' = inbox /\ nodes' = nodes
  BY ServerSame
<1>3. Types'
  BY <1>1, <1>2 DEF Types, SameCaller, Waits
<1>4. CallRight'
  BY <1>1 DEF CallRight, Calls, SetCalls, GetCalls
<1>5. /\ OneWay(t)' /\ TwoWay(t)' /\ ~acking' /\ Unhandled' /\ reply' = NULL
      /\ got' + Len(cq') + Sending' = 1 /\ Asked(t)' /\ Awaited(t)' = 1
  BY <1>2, PostPhases
<1>6. Phases'
  <2>1. inbox' # NULL => inbox'.type = "EAGER_SET_REQUEST"
    BY <1>2 DEF Unhandled
  <2> QED
    BY <1>5, <2>1 DEF Phases
<1> QED
  BY <1>2, <1>3, <1>4, <1>6 DEF IInv

\* The call that begins, and what is under way then.
LEMMA CalledQuiet ==
  ASSUME IInv, pc = "called"
  PROVE  /\ Quiet /\ Unhandled /\ call \in Calls
         /\ call.name = "set" => call \in [name : {"set"}, key : Keys, value : Values]
         /\ call.name = "get" => call \in [name : {"get"}, key : Keys]
BY DEF IInv, Phases, CallRight, Calls

\* Everything that posts the first request of a call.
LEMMA CallPostsKeeps ==
  ASSUME IInv, SetEager \/ SetCached \/ SetAsks \/ GetCached \/ GetEager \/ GetAsks \/ Close
  PROVE  IInv'
<1>1. pc = "called"
  BY DEF SetEager, SetCached, SetAsks, GetCached, GetEager, GetAsks, Close, Calling
<1>2. /\ Quiet /\ Unhandled /\ call \in Calls
      /\ call.name = "set" => call \in [name : {"set"}, key : Keys, value : Values]
      /\ call.name = "get" => call \in [name : {"get"}, key : Keys]
  BY <1>1, CalledQuiet
<1>3. \A k \in Keys : cache[k] # NULL => cache[k] \in Addresses
  BY DEF IInv, Types
<1>4. NULL \notin Requests \cup RdmaRequests /\ ValLen \in [Values -> Nat \ {0}]
  BY TemplateAssumption
<1>5. CASE SetEager
  <2>1. /\ out' \in Requests /\ out'.type = "EAGER_SET_REQUEST" /\ call.name = "set"
        /\ pc' = "set" /\ got' = 0
    BY <1>2, <1>5 DEF SetEager, Post, Calling, Requests
  <2>2. UNCHANGED <<cq, acking, buf, reply, call, cache, serverVars>> /\ SameCaller
    BY <1>5 DEF SetEager, Post
  <2> QED
    BY <1>1, <1>2, <1>4, <2>1, <2>2, PostKeeps
<1>6. CASE SetCached
  <2>1. call.name = "set" /\ cache[call.key] # NULL /\ call.key \in Keys /\ call.value \in Values
    BY <1>2, <1>6 DEF SetCached, Calling
  <2>2. cache[call.key].at \in Nat /\ ValLen[call.value] + 1 \in Nat
    BY <1>3, <1>4, <2>1 DEF Addresses
  <2>3. /\ out' \in RdmaRequests /\ out'.type = "WRITE" /\ pc' = "write" /\ got' = 0
    BY <1>6, <2>1, <2>2 DEF SetCached, Post, RdmaRequests
  <2>4. UNCHANGED <<cq, acking, buf, reply, call, cache, serverVars>> /\ SameCaller
    BY <1>6 DEF SetCached, Post
  <2> QED
    BY <1>1, <1>2, <1>4, <2>1, <2>3, <2>4, PostKeeps
<1>7. CASE SetAsks
  <2>1. /\ out' \in Requests /\ out'.type = "RENDEZVOUS_SET_REQUEST" /\ call.name = "set"
        /\ pc' = "rndv_set" /\ got' = 0
    BY <1>2, <1>7 DEF SetAsks, Post, Calling, Requests
  <2>2. UNCHANGED <<cq, acking, buf, reply, call, cache, serverVars>> /\ SameCaller
    BY <1>7 DEF SetAsks, Post
  <2> QED
    BY <1>1, <1>2, <1>4, <2>1, <2>2, PostKeeps
<1>8. CASE GetCached
  <2>1. call.name = "get" /\ cache[call.key] # NULL /\ call.key \in Keys
    BY <1>2, <1>8 DEF GetCached, Calling
  <2>2. cache[call.key].at \in Nat /\ cache[call.key].len \in Nat
    BY <1>3, <2>1 DEF Addresses
  <2>3. /\ out' \in RdmaRequests /\ out'.type = "READ" /\ pc' = "read" /\ got' = 0
    BY <1>8, <2>1, <2>2 DEF GetCached, Post, RdmaRequests
  <2>4. UNCHANGED <<cq, acking, buf, reply, call, cache, serverVars>> /\ SameCaller
    BY <1>8 DEF GetCached, Post
  <2> QED
    BY <1>1, <1>2, <1>4, <2>1, <2>3, <2>4, PostKeeps
<1>9. CASE GetEager
  <2>1. /\ out' \in Requests /\ out'.type = "EAGER_GET_REQUEST" /\ call.name = "get"
        /\ pc' = "get" /\ got' = 0
    BY <1>2, <1>9 DEF GetEager, Post, Calling, Requests
  <2>2. UNCHANGED <<cq, acking, buf, reply, call, cache, serverVars>> /\ SameCaller
    BY <1>9 DEF GetEager, Post
  <2> QED
    BY <1>1, <1>2, <1>4, <2>1, <2>2, PostKeeps
<1>10. CASE GetAsks
  <2>1. /\ out' \in Requests /\ out'.type = "RENDEZVOUS_GET_REQUEST" /\ call.name = "get"
        /\ pc' = "rndv_get" /\ got' = 0
    BY <1>2, <1>10 DEF GetAsks, Post, Calling, Requests
  <2>2. UNCHANGED <<cq, acking, buf, reply, call, cache, serverVars>> /\ SameCaller
    BY <1>10 DEF GetAsks, Post
  <2> QED
    BY <1>1, <1>2, <1>4, <2>1, <2>2, PostKeeps
<1>11. CASE Close
  <2>1. /\ out' \in Requests /\ out'.type = "CLOSE_CONNECTION" /\ pc' = "close" /\ got' = 0
    BY <1>11 DEF Close, Post, Requests
  <2>2. UNCHANGED <<cq, acking, buf, reply, call, cache, serverVars>> /\ SameCaller
    BY <1>11 DEF Close, Post
  <2> QED
    BY <1>1, <1>2, <1>4, <2>1, <2>2, PostKeeps
<1> QED
  BY <1>5, <1>6, <1>7, <1>8, <1>9, <1>10, <1>11

\* A new address comes from a granted region, which no key has.
LEMMA SetWritesKeeps ==
  ASSUME IInv, SetWrites PROVE IInv'
<1>1. Types /\ CallRight /\ Pools /\ Cached /\ Phases
  BY DEF IInv
<1>2. /\ pc = "rndv_set" /\ Waited("rndv_set") /\ pc' = "write" /\ got' = 0 /\ call' = call
      /\ UNCHANGED <<serverVars, cq, acking, buf, reply>> /\ SameCaller
  BY DEF SetWrites, Waited, Post
<1>3. Quiet /\ Unhandled /\ buf # NULL /\ Granted(buf)
  BY <1>2, WaitedQuiet
<1>4. call \in [name : {"set"}, key : Keys, value : Values] /\ ValLen[call.value] \in Nat
  BY <1>1, <1>2, TemplateAssumption DEF CallRight, SetCalls
<1>5. buf.at \in Nat
  BY <1>1, <1>3 DEF Types, Granted, Responses
<1>6. out' \in RdmaRequests /\ out' # NULL /\ out'.type = "WRITE"
  <2>1. out' \in RdmaRequests /\ out'.type = "WRITE"
    BY <1>4, <1>5 DEF SetWrites, Post, RdmaRequests
  <2> QED
    BY <2>1, TemplateAssumption
<1>7. cache' = [cache EXCEPT ![call.key] = [at |-> buf.at, len |-> ValLen[call.value]]]
  BY DEF SetWrites, CachedLength
<1>8. cache' \in [Keys -> Addresses \cup {NULL}]
  <2>1. [at |-> buf.at, len |-> ValLen[call.value]] \in Addresses
    BY <1>4, <1>5 DEF Addresses
  <2> QED
    BY <1>1, <1>4, <1>7, <2>1 DEF Types
<1>9. /\ Pools' /\ inbox' = inbox /\ nodes' = nodes /\ srv' = srv /\ region' = region
  BY <1>2, ServerSame
<1>10. Types'
  BY <1>1, <1>2, <1>6, <1>8, <1>9 DEF Types, SameCaller, Waits
<1>11. CallRight'
  BY <1>2, <1>4 DEF CallRight, SetCalls, GetCalls
<1>12. Used' = Used
  BY <1>2 DEF serverVars, Used, Entries
<1>13. Cached'
  <2>1. New(buf.at)
    BY <1>3 DEF Granted
  <2>2. \A k \in Keys : cache'[k] = IF k = call.key THEN [at |-> buf.at, len |-> ValLen[call.value]]
                                                 ELSE cache[k]
    BY <1>1, <1>7 DEF Types
  <2>3. \A k \in Keys : cache'[k] # NULL =>
          cache'[k].at \in DOMAIN region' /\ (Serving' => cache'[k].at \in Used')
    BY <1>1, <1>9, <1>12, <2>1, <2>2 DEF New, Cached, Serving
  <2>4. ASSUME NEW k \in Keys, cache'[k] # NULL, NEW j \in Keys \ {k}, cache'[j] # NULL
        PROVE  cache'[j].at # cache'[k].at
    <3>1. CASE k = call.key
      BY <2>1, <2>2, <2>4, <3>1 DEF New
    <3>2. CASE j = call.key
      BY <2>1, <2>2, <2>4, <3>2 DEF New
    <3>3. CASE k # call.key /\ j # call.key
      BY <1>1, <2>2, <2>4, <3>3 DEF Cached
    <3> QED
      BY <3>1, <3>2, <3>3
  <2> QED
    BY <2>3, <2>4 DEF Cached
<1>14. OneWay("WRITE")' /\ ~acking' /\ Unhandled'
  BY <1>2, <1>3, <1>6, <1>9, PostPhases
<1>15. Phases'
  BY <1>2, <1>14 DEF Phases
<1> QED
  BY <1>9, <1>10, <1>11, <1>13, <1>15 DEF IInv

\* A wait ends and the call goes on without a request.
LEMMA WaitEndsKeeps ==
  ASSUME IInv, SetReturns \/ GetRead \/ GetWaitsAgain \/ GetCopies \/ GetSpins \/ Closed
  PROVE  IInv'
<1>1. Types /\ CallRight /\ Pools /\ Cached /\ Phases
  BY DEF IInv
<1>2. /\ UNCHANGED <<netVars, serverVars, cache, caller, use_rndv_protocol, todo>>
      /\ cq' = cq /\ out' = out /\ acking' = acking /\ buf' = buf /\ reply' = reply
  BY DEF SetReturns, GetRead, GetWaitsAgain, GetCopies, GetSpins, Closed, SameCaller, netVars
<1>3. Pools' /\ Cached' /\ inbox' = inbox /\ nodes' = nodes
  BY <1>2, ServerSame
<1>4. Quiet' = Quiet /\ Unhandled' = Unhandled
  BY <1>2, <1>3 DEF Quiet, Unhandled
<1>5. CASE SetReturns
  <2>1. pc' = "idle" /\ got' = got /\ last' = [last EXCEPT ![call.key] = call.value] /\ testing' = call.key
        /\ pc \in {"set", "write"} /\ (Waited("set") \/ Waited("write"))
    BY <1>5 DEF SetReturns, Waited
  <2>2. call \in [name : {"set"}, key : Keys, value : Values]
    BY <1>1, <2>1 DEF CallRight, SetCalls
  <2>3. Types'
    BY <1>1, <1>2, <1>3, <2>1, <2>2 DEF Types
  <2>4. Quiet /\ Unhandled
    BY <2>1, WaitedQuiet
  <2> QED
    BY <1>3, <1>4, <2>1, <2>3, <2>4 DEF IInv, CallRight, Phases, SetCalls, GetCalls
<1>6. CASE GetRead
  <2>1. pc' = "check" /\ got' = got /\ call' = call /\ last' = last /\ testing' = testing
        /\ pc = "read" /\ Waited("read")
    BY <1>6 DEF GetRead, Waited, SameCaller
  <2>2. Types'
    BY <1>1, <1>2, <1>3, <2>1 DEF Types
  <2>3. CallRight'
    BY <1>1, <2>1 DEF CallRight, SetCalls, GetCalls
  <2>4. Quiet /\ Unhandled
    BY <2>1, WaitedQuiet
  <2> QED
    BY <1>3, <1>4, <2>1, <2>2, <2>3, <2>4 DEF IInv, Phases
<1>7. CASE GetWaitsAgain
  <2>1. pc' = "get_again" /\ got' = 0 /\ call' = call /\ last' = last /\ testing' = testing
        /\ pc = "get" /\ got >= 1
    BY <1>7 DEF GetWaitsAgain, Waited, SameCaller, Waits
  <2>2. Types'
    BY <1>1, <1>2, <1>3, <2>1 DEF Types, Waits
  <2>3. CallRight'
    BY <1>1, <2>1 DEF CallRight, SetCalls, GetCalls
  <2> DEFINE t == "EAGER_GET_REQUEST"  n == Len(cq)
  <2>4. TwoWay(t) /\ got + n + Sending + Awaited(t) = 2
    BY <1>1, <2>1 DEF Phases
  <2>5. n \in Nat /\ Sending \in Nat /\ Awaited(t) \in Nat /\ got \in Nat
    BY <1>1 DEF Types, Sending, Awaited
  <2>6. Len(cq') = n /\ Sending' = Sending /\ Awaited(t)' = Awaited(t) /\ TwoWay(t)'
    BY <1>2, <1>3, <2>4 DEF Sending, Awaited, Asked, TwoWay, Unhandled
  <2> HIDE DEF n, t
  <2>7. got' + Len(cq') + Sending' + Awaited(t)' <= 1
    BY <2>1, <2>4, <2>5, <2>6
  <2>8. Phases'
    BY <2>1, <2>6, <2>7 DEF Phases, t
  <2> QED
    BY <1>3, <2>2, <2>3, <2>8 DEF IInv
<1>8. CASE GetCopies
  <2>1. pc' \in {"check", "crashed"} /\ got' = got /\ call' = call /\ last' = last /\ testing' = testing
        /\ pc = "get_again" /\ Waited("get_again")
    BY <1>8 DEF GetCopies, Waited, SameCaller
  <2>2. Types'
    BY <1>1, <1>2, <1>3, <2>1 DEF Types
  <2>3. CallRight'
    BY <1>1, <2>1 DEF CallRight, SetCalls, GetCalls
  <2>4. Quiet /\ Unhandled
    BY <2>1, WaitedQuiet
  <2> QED
    BY <1>3, <1>4, <2>1, <2>2, <2>3, <2>4 DEF IInv, Phases
<1>9. CASE Closed
  <2>1. pc' = "closed" /\ got' = got /\ call' = call /\ last' = last /\ testing' = testing
        /\ pc = "close" /\ Waited("close")
    BY <1>9 DEF Closed, Waited, SameCaller
  <2>2. Types'
    BY <1>1, <1>2, <1>3, <2>1 DEF Types
  <2>3. CallRight'
    BY <2>1 DEF CallRight, SetCalls, GetCalls
  <2>4. Quiet
    BY <2>1, WaitedQuiet
  <2> QED
    BY <1>1, <1>3, <1>4, <2>1, <2>2, <2>3, <2>4 DEF IInv, Phases
<1>10. CASE GetSpins
  <2>1. pc' = "spinning" /\ got' = got /\ call' = call /\ last' = last /\ testing' = testing
        /\ pc = "called"
    BY <1>10 DEF GetSpins, Calling, SameCaller
  <2>2. Types'
    BY <1>1, <1>2, <1>3, <2>1 DEF Types
  <2>3. CallRight'
    BY <2>1 DEF CallRight, SetCalls, GetCalls
  <2> QED
    BY <1>1, <1>3, <1>4, <2>1, <2>2, <2>3 DEF IInv, Phases
<1> QED
  BY <1>5, <1>6, <1>7, <1>8, <1>9, <1>10

\* What the caller does.
LEMMA CallerKeeps ==
  ASSUME IInv, Check \/ NextPhase \/ \E c \in Calls : Begin(c) PROVE IInv'
<1>1. Types /\ CallRight /\ Pools /\ Cached /\ Phases
  BY DEF IInv
<1>2. /\ UNCHANGED <<netVars, serverVars>> /\ got' = got /\ cache' = cache /\ caller' = caller
      /\ cq' = cq /\ out' = out /\ acking' = acking /\ buf' = buf /\ reply' = reply /\ last' = last
      /\ pc \in {"idle", "check"} /\ pc' \in {"idle", "called", "aborted"}
  BY DEF Check, NextPhase, Begin, SameCaller, netVars
<1>3. Pools' /\ Cached' /\ inbox' = inbox /\ nodes' = nodes
  BY <1>2, ServerSame
<1>4. Quiet' /\ Unhandled'
  BY <1>1, <1>2, <1>3 DEF Phases, Quiet, Unhandled
<1>5. Phases'
  BY <1>2, <1>4 DEF Phases
<1>6. CallRight'
  BY <1>2 DEF CallRight, SetCalls, GetCalls, Check, NextPhase, Begin
<1>7. use_rndv_protocol' \in BOOLEAN /\ todo' \subseteq Keys /\ testing' \in Keys \cup {NULL}
  BY <1>1 DEF Types, Check, NextPhase, Begin, SameCaller
<1>8. Types'
  BY <1>1, <1>2, <1>3, <1>7 DEF Types
<1> QED
  BY <1>3, <1>5, <1>6, <1>8 DEF IInv

\* No two keys share a region, every region is free or used, and a call has one
\* request under way (memory and protocol of kv_template.c, any caller).
THEOREM TemplateInvariant == Spec => []IInv
<1>1. Init => IInv
  BY InitInv
<1>2. IInv /\ [Next]_vars => IInv'
  <2> SUFFICES ASSUME IInv, [Next]_vars PROVE IInv'
    OBVIOUS
  <2>1. CASE UNCHANGED vars
    <3>1. Types /\ CallRight /\ Pools /\ Cached /\ Phases
      BY DEF IInv
    <3>2. UNCHANGED <<clientVars, netVars, serverVars>>
      BY <2>1 DEF vars
    <3>3. Pools' /\ Cached' /\ (\A r : New(r) => New(r)')
      BY <3>1, <3>2, RegionsKept DEF SameRegions, clientVars, serverVars
    <3>4. Types' /\ CallRight'
      BY <3>1, <3>2 DEF Types, CallRight, clientVars, serverVars, netVars
    <3>5. /\ Quiet' = Quiet /\ Unhandled' = Unhandled /\ Sending' = Sending
          /\ \A t : OneWay(t)' = OneWay(t) /\ TwoWay(t)' = TwoWay(t) /\ Asked(t)' = Asked(t)
                   /\ Awaited(t)' = Awaited(t)
      BY <3>2 DEF Quiet, Unhandled, Sending, OneWay, TwoWay, Asked, Awaited,
                  clientVars, serverVars, netVars
    <3>6. Phases'
      BY <3>1, <3>2, <3>3, <3>5 DEF Phases, Granted, clientVars, serverVars, netVars
    <3> QED
      BY <3>3, <3>4, <3>6 DEF IInv
  <2>2. CASE ClientStep
    BY <2>2, PollKeeps, CallPostsKeeps, SetWritesKeeps, WaitEndsKeeps, CallerKeeps DEF ClientStep
  <2>3. CASE NetStep
    BY <2>3, DeliverKeeps, AcknowledgeKeeps, ResponseArrivesKeeps, RdmaWriteKeeps, RdmaReadKeeps
       DEF NetStep
  <2>4. CASE ServerHandles \/ ServerCrashes \/ ServerCloses
    BY <2>4, ServerHandlesKeeps, ServerCrashesKeeps, ServerClosesKeeps
  <2>5. CASE NextPhase \/ \E c \in Calls : Begin(c)
    BY <2>5, CallerKeeps
  <2> QED
    BY <2>1, <2>2, <2>3, <2>4, <2>5 DEF Next
<1> QED
  BY <1>1, <1>2, PTL DEF Spec

\* While the server runs, a region is free or holds one key, no key has the
\* address of another key's region, and there is a region for the next request.
THEOREM TemplateRegionsApart == Spec => []RegionsApart
<1>1. IInv => RegionsApart
  <2> SUFFICES ASSUME IInv, srv = "running" PROVE RegionsApart
    BY DEF RegionsApart
  <2>1. Pools /\ Cached
    BY DEF IInv
  <2>2. pool # <<>>
    BY <2>1, PoolNotEmpty
  <2>3. \A i, j \in DOMAIN pool : i # j => pool[i] # pool[j]
    BY <2>1 DEF Pools, Serving
  <2>4. {pool[i] : i \in DOMAIN pool} \cap {rndv[i] : i \in DOMAIN rndv} = {}
    BY <2>1 DEF Pools, Serving, Free, Used, Entries
  <2>5. \A k \in Keys : cache[k] # NULL =>
          /\ cache[k].at \in {rndv[i] : i \in DOMAIN rndv}
          /\ \A j \in Keys \ {k} : cache[j] # NULL => cache[j].at # cache[k].at
    BY <2>1 DEF Cached, Serving, Used, Entries
  <2> QED
    BY <2>2, <2>3, <2>4, <2>5 DEF RegionsApart
<1> QED
  BY <1>1, TemplateInvariant, PTL

\* No region is in neither list when the server closes, and no next that was
\* never set is followed once a rendezvous request has come, so the protection
\* domain can go (pp_close_ctx).
THEOREM TemplateClosesClean == Spec => []ClosesClean
<1>1. IInv => ClosesClean
  BY DEF IInv, Pools, ClosesClean
<1> QED
  BY <1>1, TemplateInvariant, PTL

\* At most two completions are outstanding, as many as one poll takes
\* (pp_wait_completions).
THEOREM TemplateOnePoll == Spec => [](Len(cq) <= 2)
<1>1. IInv => Len(cq) <= 2
  <2> SUFFICES ASSUME IInv PROVE Len(cq) <= 2
    OBVIOUS
  <2> DEFINE n == Len(cq)
  <2>1. Types /\ Phases /\ got \in Nat /\ n \in Nat
    BY DEF IInv, Types
  <2>2. Sending \in {0, 1} /\ \A t : Awaited(t) \in {0, 1}
    BY DEF Sending, Awaited
  <2>3. pc \in {"set", "write", "read", "close"} => got + n + Sending = 1
    BY <2>1 DEF Phases, OneWay
  <2>4. pc = "get" => got + n + Sending + Awaited("EAGER_GET_REQUEST") = 2
    BY <2>1 DEF Phases
  <2>5. pc = "get_again" => got + n + Sending + Awaited("EAGER_GET_REQUEST") <= 1
    BY <2>1 DEF Phases
  <2>6. pc = "rndv_set" => got + n + Sending + Awaited("RENDEZVOUS_SET_REQUEST") = 2
    BY <2>1 DEF Phases
  <2>7. pc = "rndv_get" => got + n + Sending <= 1
    BY <2>1 DEF Phases
  <2>8. pc \in {"idle", "called", "check", "spinning", "aborted", "crashed", "closed"} => n = 0
    BY <2>1 DEF Phases, Quiet
  <2>9. pc \in {"set", "write", "read", "close", "get", "get_again", "rndv_set", "rndv_get",
                "idle", "called", "check", "spinning", "aborted", "crashed", "closed"}
    BY <2>1 DEF Types, Waits
  <2> HIDE DEF n
  <2>10. n <= 2
    BY <2>1, <2>2, <2>3, <2>4, <2>5, <2>6, <2>7, <2>8, <2>9
  <2> QED
    BY <2>10 DEF n
<1> QED
  BY <1>1, TemplateInvariant, PTL


(***************************************************************************)
(* The tests                                                               *)
(***************************************************************************)

\* The key that is being set or tested.
Current(k) == testing = k \/ (pc \in SetCalls /\ call.key = k)

\* A set that the server has not handled.
PendingSet(k) ==
  \E p \in {out, inbox} : p # NULL /\ p.type = "EAGER_SET_REQUEST" /\ p.key = k

\* The first phase: v is in the node of k or on its way there.
Sent(k, v) ==
  \E p \in {out, inbox} : p # NULL /\ p.type = "EAGER_SET_REQUEST" /\ p.key = k /\ p.value = v

InNode(k, v) == \E i \in DOMAIN nodes : nodes[i].key = k /\ nodes[i].val = v

\* Every key has one node at most, with its value whole.
Nodes ==
  /\ nodes \in Seq([key : Keys, val : Values, len : Nat, nul : SUBSET Nat])
  /\ \A i \in DOMAIN nodes : nodes[i].len = ValLen[nodes[i].val] /\ nodes[i].nul = {}
  /\ \A i, j \in DOMAIN nodes : nodes[i].key = nodes[j].key => i = j

Answers(r, v) == r = [type |-> "EAGER_GET_RESPONSE", len |-> ValLen[v], val |-> v, nul |-> {}]

\* The second phase: v is whole in the region of k, and remote_buf ends where v
\* does.
InRegion(k, v) ==
  /\ cache[k] # NULL /\ cache[k].len = ValLen[v]
  /\ region[cache[k].at].val = v
  /\ region[cache[k].at].nul \cap (0 .. ValLen[v] - 1) = {}

\* What the test of a key will find.
EagerTest ==
  /\ cache = [k \in Keys |-> NULL]
  /\ \A k \in Keys : PendingSet(k) => Current(k) /\ \A i \in DOMAIN nodes : nodes[i].key # k
  /\ out # NULL /\ out.type = "EAGER_SET_REQUEST" => inbox = NULL
  /\ \A k \in todo : Current(k) \/ \A i \in DOMAIN nodes : nodes[i].key # k
  /\ pc = "set" => Sent(call.key, call.value) \/ InNode(call.key, call.value)
  /\ testing # NULL => Sent(testing, last[testing]) \/ InNode(testing, last[testing])
  /\ pc \in {"get", "get_again", "check"} /\ inbox # NULL /\ inbox.type = "EAGER_SET_REQUEST" =>
       out # NULL
  /\ pc \in {"get", "get_again"} =>
       /\ inbox # NULL /\ inbox.type = "EAGER_GET_REQUEST" => inbox.key = call.key
       /\ out # NULL => out.key = call.key
       /\ reply # NULL => Answers(reply, last[testing])
       /\ ~Asked("EAGER_GET_REQUEST") => Answers(buf, last[testing])
  /\ pc \notin {"rndv_set", "write", "rndv_get", "read"}
  /\ pc = "called" /\ call.name = "set" => call.value \notin Big

RndvTest ==
  /\ \A k \in Keys : ~PendingSet(k)
  /\ \A k \in todo : Current(k) \/ cache[k] = NULL
  /\ pc = "write" =>
       /\ cache[call.key] # NULL /\ cache[call.key].len = ValLen[call.value]
       /\ ValLen[call.value] \in remote.nul
       /\ out # NULL => out.at = cache[call.key].at /\ out.val = call.value
                        /\ out.size = ValLen[call.value]
       /\ out = NULL => InRegion(call.key, call.value)
  /\ testing # NULL => InRegion(testing, last[testing])
  /\ testing # NULL /\ (pc # "read" \/ out # NULL) => ValLen[last[testing]] \in remote.nul
  /\ pc = "read" =>
       /\ out # NULL => out.at = cache[call.key].at /\ out.size = ValLen[last[testing]]
       /\ out = NULL => /\ remote.val = last[testing]
                        /\ remote.nul \cap (0 .. ValLen[last[testing]]) = {ValLen[last[testing]]}
  /\ pc \notin {"set", "get", "get_again", "rndv_get"}

\* A key is tested right after it was set.
Turns ==
  /\ testing # NULL => last[testing] \in Values /\ pc \in GetCalls \cup {"idle", "called", "aborted"}
  /\ testing # NULL /\ pc # "idle" => call.name = "get" /\ call.key = testing
  /\ testing = NULL => pc \notin GetCalls
  /\ pc \in SetCalls \/ (pc = "called" /\ call.name = "set") => testing = NULL /\ call.key \in todo
  /\ pc = "called" /\ call.name = "get" => testing = call.key
  /\ pc = "check" => result = last[testing]
  /\ pc # "aborted"

TestInv == Nodes /\ Turns /\ IF use_rndv_protocol THEN RndvTest ELSE EagerTest

TInv == IInv /\ (caller = "tests" => TestInv)

\* The request under way is the one of the phase.
LEMMA OutPhase ==
  ASSUME IInv, out # NULL
  PROVE  /\ pc \in {"set", "write", "read", "close", "get", "get_again", "rndv_set", "rndv_get"}
         /\ pc = "set" => out.type = "EAGER_SET_REQUEST"
         /\ pc = "write" => out.type = "WRITE"
         /\ pc = "read" => out.type = "READ"
         /\ pc = "close" => out.type = "CLOSE_CONNECTION"
         /\ pc \in {"get", "get_again"} => out.type = "EAGER_GET_REQUEST"
         /\ pc = "rndv_set" => out.type = "RENDEZVOUS_SET_REQUEST"
         /\ pc = "rndv_get" => out.type = "RENDEZVOUS_GET_REQUEST"
         /\ reply = NULL
<1>1. Phases /\ Types
  BY DEF IInv
<1>2. \A t : OneWay(t) \/ TwoWay(t) => out.type = t /\ reply = NULL
  BY DEF OneWay, TwoWay
<1>3. ~Quiet
  BY DEF Quiet
<1>4. pc \notin {"idle", "called", "check", "spinning", "aborted", "crashed", "closed"}
  BY <1>1, <1>3 DEF Phases
<1>5. pc \in {"set", "write", "read", "close", "get", "get_again", "rndv_set", "rndv_get"}
  BY <1>1, <1>4 DEF Types, Waits
<1> QED
  BY <1>1, <1>2, <1>5 DEF Phases

LEMMA InboxPhase ==
  ASSUME IInv, inbox # NULL
  PROVE  /\ inbox.type = "EAGER_GET_REQUEST" =>
              pc \in {"get", "get_again"} /\ out = NULL /\ reply = NULL
         /\ inbox.type = "RENDEZVOUS_SET_REQUEST" => pc = "rndv_set"
         /\ inbox.type = "RENDEZVOUS_GET_REQUEST" => pc = "rndv_get"
         /\ inbox.type = "CLOSE_CONNECTION" => pc \in {"close", "closed"}
<1>1. Phases /\ Types
  BY DEF IInv
<1>2. Unhandled <=> inbox.type = "EAGER_SET_REQUEST"
  BY DEF Unhandled
<1>3. \A t : TwoWay(t) => inbox.type \in {t, "EAGER_SET_REQUEST"}
                          /\ (~Unhandled => out = NULL /\ reply = NULL)
  BY DEF TwoWay
<1>4. ~Unhandled => pc \in {"close", "closed", "get", "get_again", "rndv_set", "rndv_get"}
  BY <1>1 DEF Phases, Types, Waits
<1> QED
  BY <1>1, <1>2, <1>3, <1>4 DEF Phases

\* Completions, lists of regions and who has the call do not matter to the test.
LEMMA TestSame ==
  ASSUME TestInv,
         UNCHANGED <<pc, call, result, last, use_rndv_protocol, todo, testing, cache, remote,
                     out, inbox, reply, buf, nodes, region>>
  PROVE  TestInv'
<1>1. \A k : Current(k)' = Current(k) /\ PendingSet(k)' = PendingSet(k)
  BY DEF Current, PendingSet
<1>2. \A k, v : Sent(k, v)' = Sent(k, v) /\ InNode(k, v)' = InNode(k, v) /\ InRegion(k, v)' = InRegion(k, v)
  BY DEF Sent, InNode, InRegion
<1>3. Asked("EAGER_GET_REQUEST")' = Asked("EAGER_GET_REQUEST")
  BY DEF Asked
<1>4. Nodes' = Nodes /\ Turns' = Turns
  BY DEF Nodes, Turns
<1>5. EagerTest' = EagerTest
  BY <1>1, <1>2, <1>3 DEF EagerTest
<1>6. RndvTest' = RndvTest
  BY <1>1, <1>2 DEF RndvTest
<1> QED
  BY <1>4, <1>5, <1>6 DEF TestInv

LEMMA TestInit == ASSUME Init, caller = "tests" PROVE TestInv
<1>1. nodes = <<>> /\ cache = [k \in Keys |-> NULL] /\ pc = "idle" /\ testing = NULL /\ out = NULL
      /\ inbox = NULL /\ use_rndv_protocol = FALSE
  BY DEF Init
<1>2. Nodes
  BY <1>1 DEF Nodes
<1>3. Turns
  BY <1>1 DEF Turns, SetCalls, GetCalls
<1>4. EagerTest
  BY <1>1 DEF EagerTest, PendingSet
<1> QED
  BY <1>1, <1>2, <1>3, <1>4 DEF TestInv

LEMMA DeliverTest ==
  ASSUME TInv, caller = "tests", Deliver PROVE TestInv'
<1>1. TestInv /\ IInv /\ Types
  BY DEF TInv, IInv
<1>2. /\ UNCHANGED <<pc, call, result, last, use_rndv_protocol, todo, testing, cache, remote,
                     reply, buf, nodes, region>>
      /\ out # NULL /\ out.type \notin Rdma /\ inbox = NULL /\ inbox' = out /\ out' = NULL
  BY DEF Deliver, clientVars
<1>3. \A k : Current(k)' = Current(k) /\ PendingSet(k)' = PendingSet(k)
  BY <1>2 DEF Current, PendingSet
<1>4. \A k, v : Sent(k, v)' = Sent(k, v) /\ InNode(k, v)' = InNode(k, v) /\ InRegion(k, v)' = InRegion(k, v)
  BY <1>2 DEF Sent, InNode, InRegion
<1>5. Nodes' = Nodes /\ Turns' = Turns
  BY <1>2 DEF Nodes, Turns
<1>6. pc \notin {"idle", "called", "check", "read", "write"}
      /\ (pc \in {"get", "get_again"} => out.type = "EAGER_GET_REQUEST") /\ reply = NULL
  BY <1>1, <1>2, OutPhase DEF Rdma
<1>7. ASSUME EagerTest PROVE EagerTest'
  <2>1. pc \in {"get", "get_again"} => Asked("EAGER_GET_REQUEST")' /\ inbox'.key = call'.key
                                       /\ inbox'.type # "EAGER_SET_REQUEST"
    BY <1>2, <1>6, <1>7 DEF EagerTest, Asked
  <2> QED
    BY <1>2, <1>3, <1>4, <1>6, <1>7, <2>1 DEF EagerTest
<1>8. ASSUME RndvTest PROVE RndvTest'
  BY <1>2, <1>3, <1>4, <1>6, <1>8 DEF RndvTest
<1> QED
  BY <1>1, <1>2, <1>5, <1>7, <1>8 DEF TestInv

LEMMA ResponseArrivesTest ==
  ASSUME TInv, caller = "tests", ResponseArrives PROVE TestInv'
<1>1. TestInv /\ IInv
  BY DEF TInv
<1>2. /\ UNCHANGED <<pc, call, result, last, use_rndv_protocol, todo, testing, cache, remote,
                     out, inbox, nodes, region>>
      /\ reply # NULL /\ buf' = reply /\ reply' = NULL
  BY DEF ResponseArrives, clientVars, serverVars
<1>3. \A k : Current(k)' = Current(k) /\ PendingSet(k)' = PendingSet(k)
  BY <1>2 DEF Current, PendingSet
<1>4. \A k, v : Sent(k, v)' = Sent(k, v) /\ InNode(k, v)' = InNode(k, v) /\ InRegion(k, v)' = InRegion(k, v)
  BY <1>2 DEF Sent, InNode, InRegion
<1>5. Nodes' = Nodes /\ Turns' = Turns
  BY <1>2 DEF Nodes, Turns
<1>6. ASSUME EagerTest PROVE EagerTest'
  <2>1. pc \in {"get", "get_again"} => Answers(buf, last[testing])'
    BY <1>2, <1>6 DEF EagerTest, Answers
  <2> QED
    BY <1>2, <1>3, <1>4, <1>6, <2>1 DEF EagerTest
<1>7. ASSUME RndvTest PROVE RndvTest'
  BY <1>2, <1>3, <1>4, <1>7 DEF RndvTest
<1> QED
  BY <1>1, <1>2, <1>5, <1>6, <1>7 DEF TestInv

\* The value is whole in the region of the key.
LEMMA RdmaWriteTest ==
  ASSUME TInv, caller = "tests", RdmaWrite PROVE TestInv'
<1>1. TestInv /\ IInv /\ Types /\ CallRight /\ Cached
  BY DEF TInv, IInv
<1>2. /\ UNCHANGED <<pc, call, result, last, use_rndv_protocol, todo, testing, cache, remote,
                     reply, buf, nodes, inbox>>
      /\ out # NULL /\ out.type = "WRITE" /\ out' = NULL
      /\ region' = [region EXCEPT ![out.at] =
           IF out.size > ValLen[out.val] THEN Terminated(@, out.val, ValLen[out.val])
                                         ELSE Written(@, out.val, out.size)]
  BY DEF RdmaWrite, clientVars
<1>3. pc = "write"
  BY <1>1, <1>2, OutPhase
<1>4. use_rndv_protocol /\ RndvTest
  BY <1>1, <1>3 DEF TestInv, EagerTest
<1>5. testing = NULL
  BY <1>1, <1>3 DEF TestInv, Turns, SetCalls
<1>6. call.key \in Keys /\ call.value \in Values /\ ValLen[call.value] \in Nat
  BY <1>1, <1>3, TemplateAssumption DEF CallRight, SetCalls
<1>7. InRegion(call.key, call.value)'
  <2>1. cache[call.key] # NULL /\ cache[call.key].len = ValLen[call.value]
        /\ out.at = cache[call.key].at /\ out.val = call.value /\ out.size = ValLen[call.value]
    BY <1>2, <1>3, <1>4 DEF RndvTest
  <2>2. out.at \in DOMAIN region /\ ~(out.size > ValLen[out.val])
    BY <1>1, <1>6, <2>1 DEF Cached
  <2>3. region'[out.at] = Written(region[out.at], call.value, ValLen[call.value])
    BY <1>2, <2>1, <2>2
  <2> QED
    BY <1>2, <2>1, <2>3 DEF InRegion, Written
<1>8. \A k : Current(k)' = Current(k) /\ (PendingSet(k)' => PendingSet(k))
  BY <1>2 DEF Current, PendingSet
<1>9. Nodes' = Nodes /\ Turns' = Turns
  BY <1>2 DEF Nodes, Turns
<1>10. RndvTest'
  BY <1>2, <1>3, <1>4, <1>5, <1>7, <1>8 DEF RndvTest
<1> QED
  BY <1>1, <1>2, <1>4, <1>9, <1>10 DEF TestInv

\* What is read is the value, and the NUL behind it was in remote_buf before.
LEMMA RdmaReadTest ==
  ASSUME TInv, caller = "tests", RdmaRead PROVE TestInv'
<1>1. TestInv /\ IInv
  BY DEF TInv
<1>2. /\ UNCHANGED <<pc, call, result, last, use_rndv_protocol, todo, testing, cache,
                     reply, buf, nodes, inbox, region>>
      /\ out # NULL /\ out.type = "READ" /\ out' = NULL
      /\ remote' = [val |-> region[out.at].val,
                    nul |-> (remote.nul \ (0 .. out.size - 1))
                            \cup (region[out.at].nul \cap (0 .. out.size - 1))]
  BY DEF RdmaRead, serverVars
<1>3. pc = "read"
  BY <1>1, <1>2, OutPhase
<1>4. use_rndv_protocol /\ RndvTest
  BY <1>1, <1>3 DEF TestInv, EagerTest
<1>5. testing # NULL /\ call.key = testing /\ last[testing] \in Values
  BY <1>1, <1>3 DEF TestInv, Turns, GetCalls
<1> DEFINE v == last[testing]  n == ValLen[v]
<1>6. InRegion(testing, v) /\ n \in remote.nul /\ out.at = cache[testing].at /\ out.size = n
  BY <1>2, <1>3, <1>4, <1>5 DEF RndvTest
<1>7. n \in Nat
  BY <1>5, TemplateAssumption
<1>8. /\ remote'.val = v
      /\ remote'.nul = (remote.nul \ (0 .. n - 1)) \cup (region[out.at].nul \cap (0 .. n - 1))
      /\ region[out.at].nul \cap (0 .. n - 1) = {}
  BY <1>2, <1>6 DEF InRegion
<1> HIDE DEF n
<1>9. remote'.nul \cap (0 .. n) = {n}
  <2>1. \A i \in 0 .. n : i \in 0 .. n - 1 \/ i = n
    BY <1>7
  <2>2. n \in 0 .. n /\ n \notin 0 .. n - 1
    BY <1>7
  <2> QED
    BY <1>6, <1>8, <2>1, <2>2
<1>10. \A k : Current(k)' = Current(k) /\ (PendingSet(k)' => PendingSet(k))
  BY <1>2 DEF Current, PendingSet
<1>11. \A k, w : InRegion(k, w)' = InRegion(k, w)
  BY <1>2 DEF InRegion
<1>12. Nodes' = Nodes /\ Turns' = Turns
  BY <1>2 DEF Nodes, Turns
<1>13. RndvTest'
  BY <1>2, <1>3, <1>4, <1>8, <1>9, <1>10, <1>11 DEF RndvTest, n
<1> QED
  BY <1>1, <1>2, <1>4, <1>12, <1>13 DEF TestInv

\* The minimum of one number.
LEMMA MinOne ==
  ASSUME NEW n \in Nat PROVE Min({n}) = n
<1>1. {n} \in SUBSET Nat /\ {n} # {}
  OBVIOUS
<1>2. Min({n}) \in {n}
  BY <1>1, MinInSet
<1> QED
  BY <1>2

\* The answer is the value that was set.
LEMMA EagerGetTest ==
  ASSUME TInv, caller = "tests", ServerHandles, inbox.type = "EAGER_GET_REQUEST" PROVE TestInv'
<1>1. TestInv /\ IInv /\ Types /\ CallRight
  BY DEF TInv, IInv
<1>2. HandleEagerGet(inbox) /\ inbox # NULL /\ inbox' = NULL
      /\ UNCHANGED <<pc, call, result, last, use_rndv_protocol, todo, testing, cache, remote, out, buf>>
  BY DEF ServerHandles, clientVars
<1>3. UNCHANGED <<nodes, region>>
  BY <1>2 DEF HandleEagerGet
<1>4. pc \in {"get", "get_again"} /\ out = NULL /\ reply = NULL
  BY <1>1, <1>2, InboxPhase
<1>5. ~use_rndv_protocol /\ EagerTest /\ Nodes
  BY <1>1, <1>4 DEF TestInv, RndvTest
<1>6. testing # NULL /\ call.key = testing /\ last[testing] \in Values
  BY <1>1, <1>4 DEF TestInv, Turns, GetCalls
<1>7. inbox.key = testing
  BY <1>2, <1>4, <1>5, <1>6 DEF EagerTest
<1>8. InNode(testing, last[testing])
  <2>1. ~Sent(testing, last[testing])
    BY <1>4 DEF Sent
  <2> QED
    BY <1>5, <1>6, <2>1 DEF EagerTest
<1>9. Answers(reply, last[testing])'
  <2>1. PICK i \in DOMAIN nodes : nodes[i].key = testing /\ nodes[i].val = last[testing]
    BY <1>8 DEF InNode
  <2>2. NodeOf(inbox.key) = {i}
    BY <1>5, <1>7, <2>1 DEF NodeOf, Nodes
  <2>3. DOMAIN nodes \subseteq Nat
    BY <1>1 DEF Types
  <2>4. Min({i}) = i
    BY <2>1, <2>3, MinOne
  <2>5. nodes[i].len = ValLen[nodes[i].val] /\ nodes[i].nul = {}
    BY <1>5, <2>1 DEF Nodes
  <2>6. nodes[i].len # NULL
    BY <1>6, <2>1, <2>5, TemplateAssumption
  <2>7. reply' = [type |-> "EAGER_GET_RESPONSE", len |-> nodes[i].len,
                  val |-> nodes[i].val, nul |-> nodes[i].nul]
    BY <1>2, <2>2, <2>4, <2>6 DEF HandleEagerGet
  <2> QED
    BY <1>2, <2>1, <2>5, <2>7 DEF Answers
<1>10. \A k : Current(k)' = Current(k) /\ (PendingSet(k)' => PendingSet(k))
  BY <1>2 DEF Current, PendingSet
<1>11. \A k, v : InNode(k, v)' = InNode(k, v)
  BY <1>3 DEF InNode
<1>12. Nodes' /\ Turns'
  BY <1>1, <1>2, <1>3 DEF Nodes, Turns, TestInv
<1>13. Asked("EAGER_GET_REQUEST")'
  <2> DEFINE v == last[testing]
             r == [type |-> "EAGER_GET_RESPONSE", len |-> ValLen[v], val |-> v, nul |-> {}]
  <2>1. r \in Responses
    BY <1>6, TemplateAssumption DEF Responses
  <2>2. r # NULL
    BY <2>1, TemplateAssumption
  <2>3. reply' = r
    BY <1>2, <1>9 DEF Answers
  <2> HIDE DEF r
  <2> QED
    BY <2>2, <2>3 DEF Asked
<1>14. EagerTest'
  <2>1. ASSUME Asked("EAGER_GET_REQUEST")' PROVE EagerTest'
    BY <1>2, <1>3, <1>4, <1>5, <1>6, <1>8, <1>9, <1>10, <1>11, <2>1 DEF EagerTest
  <2> QED
    BY <1>13, <2>1
<1> QED
  BY <1>2, <1>5, <1>12, <1>14 DEF TestInv

\* A set of a test always makes a new node.
LEMMA EagerSetTest ==
  ASSUME TInv, caller = "tests", ServerHandles, inbox.type = "EAGER_SET_REQUEST" PROVE TestInv'
<1>1. TestInv /\ IInv /\ Types /\ CallRight
  BY DEF TInv, IInv
<1>2. HandleEagerSet(inbox) /\ inbox # NULL /\ inbox' = NULL
      /\ UNCHANGED <<pc, call, result, last, use_rndv_protocol, todo, testing, cache, remote, out, buf>>
  BY DEF ServerHandles, clientVars
<1>3. UNCHANGED <<reply, region>>
  BY <1>2 DEF HandleEagerSet
<1> DEFINE key == inbox.key  value == inbox.value
           node == [key |-> key, val |-> value, len |-> ValLen[value], nul |-> {}]
<1>4. key \in Keys /\ value \in Values /\ ValLen[value] \in Nat
  BY <1>1, <1>2, TemplateAssumption DEF Types, Requests
<1>5. PendingSet(key)
  BY <1>2 DEF PendingSet
<1>6. ~use_rndv_protocol /\ EagerTest /\ Nodes /\ Turns
  BY <1>1, <1>4, <1>5 DEF TestInv, RndvTest
<1>7. Current(key) /\ \A i \in DOMAIN nodes : nodes[i].key # key
  BY <1>4, <1>5, <1>6 DEF EagerTest
<1>8. ~(out # NULL /\ out.type = "EAGER_SET_REQUEST")
  BY <1>2, <1>6 DEF EagerTest
<1>9. nodes' = Append(nodes, node)
  <2>1. NodeOf(key) = {}
    BY <1>7 DEF NodeOf
  <2> QED
    BY <1>2, <2>1 DEF HandleEagerSet, AppendNode
<1> DEFINE N == [key : Keys, val : Values, len : Nat, nul : SUBSET Nat]
<1>10. node \in N /\ nodes \in Seq(N)
  BY <1>4, <1>6 DEF Nodes
<1>n. node.key = key /\ node.val = value /\ node.len = ValLen[value] /\ node.nul = {}
  OBVIOUS
<1> HIDE DEF node, N
<1>11. /\ nodes' \in Seq(N) /\ DOMAIN nodes = 1 .. Len(nodes) /\ Len(nodes) \in Nat
       /\ DOMAIN nodes' = 1 .. Len(nodes) + 1
       /\ \A i \in 1 .. Len(nodes) + 1 : nodes'[i] = IF i = Len(nodes) + 1 THEN node ELSE nodes[i]
  BY <1>9, <1>10
<1> DEFINE l == Len(nodes)
<1> HIDE DEF key, value, l
<1>12. /\ l \in Nat /\ DOMAIN nodes = 1 .. l /\ DOMAIN nodes' = 1 .. l + 1
       /\ \A i \in 1 .. l : i \in 1 .. l + 1 /\ nodes'[i] = nodes[i]
       /\ l + 1 \in 1 .. l + 1 /\ nodes'[l + 1] = node
       /\ \A i \in 1 .. l + 1 : i \in 1 .. l \/ i = l + 1
  <2>1. l \in Nat
    BY <1>11 DEF l
  <2>2. /\ \A i \in 1 .. l : i \in 1 .. l + 1 /\ i # l + 1
        /\ l + 1 \in 1 .. l + 1 /\ \A i \in 1 .. l + 1 : i \in 1 .. l \/ i = l + 1
    BY <2>1
  <2> QED
    BY <1>11, <2>1, <2>2 DEF l
<1>13. Nodes'
  <2>1. \A i \in DOMAIN nodes' : nodes'[i].len = ValLen[nodes'[i].val] /\ nodes'[i].nul = {}
    BY <1>6, <1>12, <1>n DEF Nodes
  <2>2. ASSUME NEW i \in DOMAIN nodes', NEW j \in DOMAIN nodes', nodes'[i].key = nodes'[j].key
        PROVE  i = j
    BY <1>6, <1>7, <1>12, <1>n, <2>2 DEF Nodes
  <2> QED
    BY <1>11, <2>1, <2>2 DEF Nodes, N
<1>14. Turns'
  BY <1>2, <1>6 DEF Turns
<1>15. \A k : Current(k)' = Current(k) /\ ~PendingSet(k)'
  BY <1>2, <1>8 DEF Current, PendingSet
<1>16. \A k, v : Sent(k, v) \/ InNode(k, v) => InNode(k, v)'
  <2> TAKE k, v
  <2>1. ASSUME Sent(k, v) PROVE InNode(k, v)'
    <3>1. k = key /\ v = value
      BY <1>8, <2>1 DEF Sent, key, value
    <3> QED
      BY <1>12, <1>n, <3>1 DEF InNode
  <2>2. ASSUME InNode(k, v) PROVE InNode(k, v)'
    BY <1>12, <2>2 DEF InNode
  <2> QED
    BY <2>1, <2>2
<1>17. \A k \in todo : Current(k) \/ \A i \in DOMAIN nodes' : nodes'[i].key # k
  <2> SUFFICES ASSUME NEW k \in todo, ~Current(k) PROVE \A i \in DOMAIN nodes' : nodes'[i].key # k
    OBVIOUS
  <2>1. k # key
    BY <1>7
  <2>2. \A i \in DOMAIN nodes : nodes[i].key # k
    BY <1>6 DEF EagerTest
  <2> QED
    BY <1>12, <1>n, <2>1, <2>2
<1>18. Asked("EAGER_GET_REQUEST")' <=> Asked("EAGER_GET_REQUEST")
  BY <1>2, <1>3 DEF Asked
<1>19. EagerTest'
  BY <1>2, <1>3, <1>6, <1>15, <1>16, <1>17, <1>18 DEF EagerTest
<1> QED
  BY <1>2, <1>6, <1>13, <1>14, <1>19 DEF TestInv

\* No key of the test is affected when a region is handed out.
LEMMA RndvSetTest ==
  ASSUME TInv, caller = "tests", ServerHandles,
         inbox.type \in {"RENDEZVOUS_SET_REQUEST", "RENDEZVOUS_GET_REQUEST"} PROVE TestInv'
<1>1. TestInv /\ IInv
  BY DEF TInv
<1>p. pool # <<>>
  BY <1>1, PoolNotEmpty, HandlesSame DEF IInv
<1>2. inbox # NULL /\ inbox' = NULL /\ UNCHANGED nodes
      /\ UNCHANGED <<pc, call, result, last, use_rndv_protocol, todo, testing, cache, remote, out, buf>>
  BY <1>p DEF ServerHandles, clientVars, HandleRndvSet, HandleRndvGet
<1>3. pc \in {"rndv_set", "rndv_get"}
  BY <1>1, <1>2, InboxPhase
<1>4. pc = "rndv_set" /\ use_rndv_protocol /\ RndvTest /\ testing = NULL
  BY <1>1, <1>3 DEF TestInv, RndvTest, EagerTest, Turns, SetCalls
<1>5. \A k : Current(k)' = Current(k) /\ (PendingSet(k)' => PendingSet(k))
  BY <1>2 DEF Current, PendingSet
<1>6. Nodes' = Nodes /\ Turns' = Turns
  BY <1>2 DEF Nodes, Turns
<1>7. RndvTest'
  BY <1>2, <1>4, <1>5 DEF RndvTest
<1> QED
  BY <1>1, <1>2, <1>4, <1>6, <1>7 DEF TestInv

LEMMA CloseTest ==
  ASSUME TInv, caller = "tests", ServerHandles, inbox.type = "CLOSE_CONNECTION" PROVE TestInv'
<1>1. TestInv /\ IInv
  BY DEF TInv
<1>2. inbox # NULL /\ inbox' = NULL /\ UNCHANGED <<nodes, region, reply>>
      /\ UNCHANGED <<pc, call, result, last, use_rndv_protocol, todo, testing, cache, remote, out, buf>>
  BY DEF ServerHandles, clientVars
<1>3. pc \in {"close", "closed"}
  BY <1>1, <1>2, InboxPhase
<1>4. \A k : Current(k)' = Current(k) /\ (PendingSet(k)' => PendingSet(k))
  BY <1>2 DEF Current, PendingSet
<1>5. \A k, v : (Sent(k, v) => Sent(k, v)') /\ InNode(k, v)' = InNode(k, v) /\ InRegion(k, v)' = InRegion(k, v)
  BY <1>2 DEF Sent, InNode, InRegion
<1>6. Nodes' = Nodes /\ Turns' = Turns
  BY <1>2 DEF Nodes, Turns
<1>7. EagerTest => EagerTest'
  BY <1>2, <1>3, <1>4, <1>5 DEF EagerTest
<1>8. RndvTest => RndvTest'
  BY <1>2, <1>3, <1>4, <1>5 DEF RndvTest
<1> QED
  BY <1>1, <1>2, <1>6, <1>7, <1>8 DEF TestInv

LEMMA ServerTest ==
  ASSUME TInv, caller = "tests", ServerHandles \/ ServerCloses PROVE TestInv'
<1>1. TestInv /\ IInv
  BY DEF TInv
<1>2. CASE ServerHandles
  <2>1. inbox.type \in {"EAGER_GET_REQUEST", "EAGER_SET_REQUEST", "CLOSE_CONNECTION",
                        "RENDEZVOUS_SET_REQUEST", "RENDEZVOUS_GET_REQUEST"}
    BY <1>1, <1>2, HandlesSame DEF Requests
  <2> QED
    BY <1>2, <2>1, EagerGetTest, EagerSetTest, RndvSetTest, CloseTest
<1>3. CASE ServerCloses
  BY <1>1, <1>3, TestSame DEF ServerCloses, clientVars, netVars
<1> QED
  BY <1>2, <1>3

\* A set starts: nothing is known of its key yet, and no other set is pending.
LEMMA SetStartsTest ==
  ASSUME TInv, caller = "tests", pc = "called", call.name = "set"
  PROVE  /\ testing = NULL /\ call \in [name : {"set"}, key : Keys, value : Values] /\ call.key \in todo
         /\ \A k \in Keys : ~Current(k)
         /\ ~use_rndv_protocol => EagerTest /\ inbox = NULL /\ call.value \notin Big
                                 /\ \A i \in DOMAIN nodes : nodes[i].key # call.key
         /\ use_rndv_protocol => RndvTest /\ cache[call.key] = NULL
<1>1. TestInv /\ Turns /\ IInv /\ Phases /\ Types
  BY DEF TInv, TestInv, IInv
<1>2. testing = NULL /\ call.key \in todo /\ call \in [name : {"set"}, key : Keys, value : Values]
  BY <1>1, CalledQuiet DEF Turns
<1>3. \A k : ~Current(k) \/ k = NULL
  BY <1>2 DEF Current, SetCalls
<1>4. NULL \notin Keys
  BY TemplateAssumption
<1>5. todo \subseteq Keys /\ inbox \in Requests \cup {NULL} /\ Unhandled
  BY <1>1 DEF Types, Phases
<1>6. ~use_rndv_protocol => EagerTest /\ inbox = NULL /\ call.value \notin Big
                            /\ \A i \in DOMAIN nodes : nodes[i].key # call.key
  <2> HAVE ~use_rndv_protocol
  <2>1. EagerTest
    BY <1>1 DEF TestInv
  <2>2. inbox = NULL
    <3> SUFFICES ASSUME inbox # NULL PROVE FALSE
      OBVIOUS
    <3>1. inbox.type = "EAGER_SET_REQUEST" /\ inbox.key \in Keys
      BY <1>5 DEF Unhandled, Requests
    <3>2. PendingSet(inbox.key)
      BY <3>1 DEF PendingSet
    <3> QED
      BY <1>3, <1>4, <2>1, <3>1, <3>2 DEF EagerTest
  <2>3. \A i \in DOMAIN nodes : nodes[i].key # call.key
    BY <1>2, <1>3, <1>4, <1>5, <2>1 DEF EagerTest
  <2> QED
    BY <2>1, <2>2, <2>3 DEF EagerTest
<1>7. use_rndv_protocol => RndvTest /\ cache[call.key] = NULL
  BY <1>1, <1>2, <1>3, <1>4, <1>5 DEF TestInv, RndvTest
<1> QED
  BY <1>2, <1>3, <1>4, <1>5, <1>6, <1>7

\* What a step that leaves the server and its packets alone keeps.
LEMMA TestParts ==
  UNCHANGED <<serverVars, out>> =>
    /\ \A k : PendingSet(k)' = PendingSet(k)
    /\ \A k, v : Sent(k, v)' = Sent(k, v) /\ InNode(k, v)' = InNode(k, v)
    /\ \A k, v : UNCHANGED cache => InRegion(k, v)' = InRegion(k, v)
    /\ Nodes' = Nodes /\ UNCHANGED <<inbox, nodes, region>>
BY DEF serverVars, PendingSet, Sent, InNode, InRegion, Nodes

LEMMA SetEagerTest ==
  ASSUME TInv, caller = "tests", SetEager PROVE TestInv'
<1>1. TestInv /\ Turns /\ Nodes /\ IInv /\ Types
  BY DEF TInv, TestInv, IInv
<1>2. /\ pc = "called" /\ call.name = "set" /\ pc' = "set" /\ ~Rendezvous(call.value)
      /\ out' = [type |-> "EAGER_SET_REQUEST", key |-> call.key, value |-> call.value]
      /\ UNCHANGED <<call, cache, result, remote, reply, buf, inbox, nodes, region>>
      /\ UNCHANGED <<last, use_rndv_protocol, todo, testing>>
  BY DEF SetEager, Calling, Post, serverVars, SameCaller
<1>3. /\ testing = NULL /\ call \in [name : {"set"}, key : Keys, value : Values] /\ call.key \in todo
      /\ \A k \in Keys : ~Current(k)
      /\ ~use_rndv_protocol => EagerTest /\ inbox = NULL /\ call.value \notin Big
                              /\ \A i \in DOMAIN nodes : nodes[i].key # call.key
  BY <1>2, SetStartsTest
<1>4. ~use_rndv_protocol
  BY <1>2 DEF Rendezvous
<1>5. out' # NULL /\ out'.type = "EAGER_SET_REQUEST" /\ out'.key = call.key /\ out'.value = call.value
  <2>1. out' \in Requests
    BY <1>2, <1>3 DEF Requests
  <2> QED
    BY <1>2, <2>1, TemplateAssumption
<1>6. \A k \in Keys : (Current(k)' <=> k = call.key) /\ (PendingSet(k)' => k = call.key)
  <2> TAKE k \in Keys
  <2>1. Current(k)' <=> k = call.key
    BY <1>2, <1>3, TemplateAssumption DEF Current, SetCalls
  <2>2. PendingSet(k)' => k = call.key
    BY <1>2, <1>3, <1>4, <1>5 DEF PendingSet
  <2> QED
    BY <2>1, <2>2
<1>7. Sent(call.key, call.value)'
  BY <1>2, <1>5 DEF Sent
<1>8. Nodes' /\ Turns'
  BY <1>1, <1>2, <1>3 DEF Nodes, Turns, SetCalls, GetCalls
<1>9. todo \subseteq Keys
  BY <1>1 DEF Types
<1>10. EagerTest'
  BY <1>2, <1>3, <1>4, <1>6, <1>7, <1>9 DEF EagerTest
<1> QED
  BY <1>2, <1>4, <1>8, <1>10 DEF TestInv

LEMMA SetAsksTest ==
  ASSUME TInv, caller = "tests", SetAsks \/ SetCached PROVE TestInv'
<1>1. TestInv /\ Turns /\ Nodes /\ IInv /\ Types
  BY DEF TInv, TestInv, IInv
<1>2. /\ pc = "called" /\ call.name = "set" /\ Rendezvous(call.value)
  BY DEF SetAsks, SetCached, Calling
<1>3. /\ testing = NULL /\ call \in [name : {"set"}, key : Keys, value : Values] /\ call.key \in todo
      /\ \A k \in Keys : ~Current(k)
      /\ ~use_rndv_protocol => call.value \notin Big
      /\ use_rndv_protocol => RndvTest /\ cache[call.key] = NULL
  BY <1>2, SetStartsTest
<1>4. use_rndv_protocol /\ SetAsks /\ RndvTest
  BY <1>2, <1>3 DEF Rendezvous, SetCached
<1>5. /\ pc' = "rndv_set" /\ out' = [type |-> "RENDEZVOUS_SET_REQUEST", key |-> call.key]
      /\ UNCHANGED <<call, cache, result, remote, reply, buf, inbox, nodes, region>>
      /\ UNCHANGED <<last, use_rndv_protocol, todo, testing>>
  BY <1>4 DEF SetAsks, Post, serverVars, SameCaller
<1>6. \A k \in Keys : PendingSet(k)' => PendingSet(k)
  BY <1>5 DEF PendingSet
<1>7. todo \subseteq Keys
  BY <1>1 DEF Types
<1>8. Nodes' /\ Turns'
  BY <1>1, <1>3, <1>5 DEF Nodes, Turns, SetCalls, GetCalls
<1>9. \A k \in todo : cache'[k] = NULL
  BY <1>3, <1>4, <1>5, <1>7 DEF RndvTest
<1>10. RndvTest'
  BY <1>3, <1>4, <1>5, <1>6, <1>9 DEF RndvTest
<1> QED
  BY <1>4, <1>5, <1>8, <1>10 DEF TestInv

LEMMA SetWritesTest ==
  ASSUME TInv, caller = "tests", SetWrites PROVE TestInv'
<1>1. TestInv /\ Turns /\ Nodes /\ IInv /\ Types /\ CallRight
  BY DEF TInv, TestInv, IInv
<1>2. /\ pc = "rndv_set" /\ pc' = "write"
      /\ cache' = [cache EXCEPT ![call.key] = [at |-> buf.at, len |-> ValLen[call.value]]]
      /\ remote' = Terminated(remote, call.value, ValLen[call.value])
      /\ out' = [type |-> "WRITE", at |-> buf.at, val |-> call.value, size |-> ValLen[call.value]]
      /\ UNCHANGED <<call, result, reply, buf, inbox, nodes, region>>
      /\ UNCHANGED <<last, use_rndv_protocol, todo, testing>>
  BY DEF SetWrites, Waited, CachedLength, Post, serverVars, SameCaller
<1>3. use_rndv_protocol /\ RndvTest /\ testing = NULL /\ call.key \in todo
  BY <1>1, <1>2 DEF TestInv, EagerTest, Turns, SetCalls
<1>4. call \in [name : {"set"}, key : Keys, value : Values] /\ cache \in [Keys -> Addresses \cup {NULL}]
      /\ todo \subseteq Keys
  BY <1>1, <1>2 DEF CallRight, SetCalls, Types
<1>5. Waited("rndv_set") /\ buf # NULL /\ Granted(buf)
  BY <1>1, WaitedQuiet DEF SetWrites
<1>b. buf.at \in Nat
  BY <1>1, <1>5 DEF Types, Granted, Responses
<1>6. cache'[call.key] # NULL /\ cache'[call.key] = [at |-> buf.at, len |-> ValLen[call.value]]
  <2>1. [at |-> buf.at, len |-> ValLen[call.value]] \in Addresses
    BY <1>4, <1>b, TemplateAssumption DEF Addresses
  <2> QED
    BY <1>2, <1>4, <2>1, TemplateAssumption
<1>7. out' # NULL
  <2>1. out' \in RdmaRequests
    BY <1>2, <1>4, <1>b, TemplateAssumption DEF RdmaRequests
  <2> QED
    BY <2>1, TemplateAssumption
<1>8. \A k : (Current(k)' <=> Current(k)) /\ (PendingSet(k)' => PendingSet(k))
  BY <1>2 DEF Current, PendingSet, SetCalls
<1>9. \A k \in todo : Current(k)' \/ cache'[k] = NULL
  <2> TAKE k \in todo
  <2>1. CASE k = call.key
    BY <1>2, <2>1 DEF Current, SetCalls
  <2>2. CASE k # call.key
    BY <1>2, <1>3, <1>4, <1>8, <2>2 DEF RndvTest
  <2> QED
    BY <2>1, <2>2
<1>10. ValLen[call.value] \in remote'.nul
  BY <1>2 DEF Terminated
<1>11. Nodes' /\ Turns'
  BY <1>1, <1>2, <1>3 DEF Nodes, Turns, SetCalls, GetCalls
<1>12. RndvTest'
  BY <1>2, <1>3, <1>6, <1>7, <1>8, <1>9, <1>10 DEF RndvTest
<1> QED
  BY <1>2, <1>3, <1>11, <1>12 DEF TestInv

LEMMA SetReturnsTest ==
  ASSUME TInv, caller = "tests", SetReturns PROVE TestInv'
<1>1. TestInv /\ Turns /\ Nodes /\ IInv /\ Types /\ CallRight
  BY DEF TInv, TestInv, IInv
<1>2. /\ pc \in {"set", "write"} /\ pc' = "idle" /\ (Waited("set") \/ Waited("write"))
      /\ last' = [last EXCEPT ![call.key] = call.value] /\ testing' = call.key
      /\ UNCHANGED <<result, use_rndv_protocol, todo, cache, remote, out, reply, buf, serverVars>>
  BY DEF SetReturns, Waited, netVars
<1>3. testing = NULL /\ call.key \in todo /\ call \in [name : {"set"}, key : Keys, value : Values]
      /\ todo \subseteq Keys /\ last \in [Keys -> Values \cup {NULL}]
  BY <1>1, <1>2 DEF Turns, CallRight, SetCalls, Types
<1>4. last'[testing'] = call.value /\ testing' \in Keys
  BY <1>2, <1>3
<1>5. out = NULL
  BY <1>1, <1>2, WaitedQuiet DEF Quiet
<1>6. /\ UNCHANGED <<inbox, nodes, region>> /\ Nodes'
      /\ \A k, v : Sent(k, v)' = Sent(k, v) /\ InNode(k, v)' = InNode(k, v)
                  /\ InRegion(k, v)' = InRegion(k, v)
      /\ \A k : PendingSet(k)' = PendingSet(k)
  BY <1>1, <1>2, TestParts
<1>7. \A k \in Keys : Current(k)' <=> Current(k)
  BY <1>2, <1>3, TemplateAssumption DEF Current, SetCalls
<1>8. Turns'
  BY <1>2, <1>3, <1>4 DEF Turns, SetCalls, GetCalls
<1>9. ASSUME EagerTest PROVE EagerTest'
  <2>1. pc = "set"
    BY <1>2, <1>9 DEF EagerTest
  <2>2. Sent(testing', last'[testing']) \/ InNode(testing', last'[testing'])
    BY <1>2, <1>4, <1>9, <2>1 DEF EagerTest
  <2>3. Sent(testing, last[testing])' \/ InNode(testing, last[testing])'
    BY <1>2, <1>6, <2>2 DEF Sent, InNode
  <2> QED
    BY <1>2, <1>3, <1>5, <1>6, <1>7, <1>9, <2>3 DEF EagerTest
<1>10. ASSUME RndvTest PROVE RndvTest'
  <2>1. pc = "write"
    BY <1>2, <1>10 DEF RndvTest
  <2>2. InRegion(testing', last'[testing']) /\ ValLen[last'[testing']] \in remote.nul
    BY <1>2, <1>4, <1>5, <1>10, <2>1 DEF RndvTest
  <2>3. InRegion(testing, last[testing])'
    BY <1>2, <1>6, <2>2 DEF InRegion
  <2> QED
    BY <1>2, <1>3, <1>6, <1>7, <1>10, <2>2, <2>3 DEF RndvTest
<1> QED
  BY <1>1, <1>2, <1>6, <1>8, <1>9, <1>10 DEF TestInv

\* A get of the test is for the key that was set last.
LEMMA GetStartsTest ==
  ASSUME TInv, caller = "tests", pc = "called", call.name = "get"
  PROVE  testing # NULL /\ call.key = testing /\ testing \in Keys /\ last[testing] \in Values
<1>1. call \in [name : {"get"}, key : Keys]
  BY CalledQuiet DEF TInv
<1>2. testing = call.key
  BY DEF TInv, TestInv, Turns
<1>3. testing # NULL /\ testing \in Keys
  BY <1>1, <1>2, TemplateAssumption
<1> QED
  BY <1>2, <1>3 DEF TInv, TestInv, Turns

LEMMA GetCachedTest ==
  ASSUME TInv, caller = "tests", GetCached \/ GetSpins \/ GetAsks PROVE TestInv'
<1>1. TestInv /\ Turns /\ Nodes /\ IInv /\ Types
  BY DEF TInv, TestInv, IInv
<1>2. pc = "called" /\ call.name = "get" /\ use_rndv_protocol /\ RndvTest
  BY <1>1 DEF GetCached, GetSpins, GetAsks, Calling, TestInv
<1>3. testing # NULL /\ call.key = testing /\ testing \in Keys /\ last[testing] \in Values
  BY <1>2, GetStartsTest
<1>4. InRegion(testing, last[testing]) /\ ValLen[last[testing]] \in remote.nul
  BY <1>2, <1>3 DEF RndvTest
<1>5. GetCached
  BY <1>3, <1>4 DEF GetSpins, GetAsks, InRegion
<1>6. /\ pc' = "read"
      /\ out' = [type |-> "READ", at |-> cache[call.key].at, size |-> cache[call.key].len]
      /\ UNCHANGED <<call, cache, result, remote, reply, buf, inbox, nodes, region>>
      /\ UNCHANGED <<last, use_rndv_protocol, todo, testing>>
  BY <1>5 DEF GetCached, Post, serverVars, SameCaller
<1>7. out' # NULL /\ out'.at = cache[testing].at /\ out'.size = ValLen[last[testing]]
  <2>1. cache[testing] \in Addresses
    BY <1>1, <1>3, <1>4 DEF Types, InRegion
  <2>2. out' \in RdmaRequests
    BY <1>3, <1>6, <2>1 DEF RdmaRequests, Addresses
  <2> QED
    BY <1>3, <1>4, <1>6, <2>2, TemplateAssumption DEF InRegion
<1>8. \A k : Current(k)' = Current(k) /\ (PendingSet(k)' => PendingSet(k))
  BY <1>2, <1>6 DEF Current, PendingSet, SetCalls
<1>9. InRegion(testing, last[testing])'
  BY <1>4, <1>6 DEF InRegion
<1>10. Nodes' /\ Turns'
  BY <1>1, <1>2, <1>3, <1>6 DEF Nodes, Turns, SetCalls, GetCalls
<1>11. RndvTest'
  BY <1>2, <1>3, <1>4, <1>6, <1>7, <1>8, <1>9 DEF RndvTest
<1> QED
  BY <1>2, <1>6, <1>10, <1>11 DEF TestInv

LEMMA GetEagerTest ==
  ASSUME TInv, caller = "tests", GetEager PROVE TestInv'
<1>1. TestInv /\ Turns /\ Nodes /\ IInv /\ Types
  BY DEF TInv, TestInv, IInv
<1>2. pc = "called" /\ call.name = "get" /\ ~use_rndv_protocol /\ EagerTest
  BY <1>1 DEF GetEager, Calling, TestInv
<1>3. testing # NULL /\ call.key = testing /\ testing \in Keys /\ last[testing] \in Values
  BY <1>2, GetStartsTest
<1>4. /\ pc' = "get" /\ out' = [type |-> "EAGER_GET_REQUEST", key |-> call.key]
      /\ UNCHANGED <<call, cache, result, remote, reply, buf, inbox, nodes, region>>
      /\ UNCHANGED <<last, use_rndv_protocol, todo, testing>>
  BY DEF GetEager, Post, serverVars, SameCaller
<1>5. out' # NULL /\ out'.key = call.key /\ out'.type = "EAGER_GET_REQUEST"
  <2>1. out' \in Requests
    BY <1>3, <1>4 DEF Requests
  <2> QED
    BY <1>4, <2>1, TemplateAssumption
<1>6. out = NULL /\ reply = NULL /\ Unhandled
  BY <1>1, <1>2, CalledQuiet DEF Quiet
<1>7. \A k : Current(k)' = Current(k) /\ (PendingSet(k)' => PendingSet(k))
  BY <1>2, <1>4 DEF Current, PendingSet, SetCalls
<1>8. \A k, v : (Sent(k, v) => Sent(k, v)') /\ InNode(k, v)' = InNode(k, v)
  BY <1>4, <1>6 DEF Sent, InNode
<1>9. Nodes' /\ Turns'
  BY <1>1, <1>2, <1>3, <1>4 DEF Nodes, Turns, SetCalls, GetCalls
<1>10. Asked("EAGER_GET_REQUEST")'
  BY <1>5 DEF Asked
<1>11. EagerTest'
  BY <1>2, <1>3, <1>4, <1>5, <1>6, <1>7, <1>8, <1>10 DEF EagerTest, Unhandled
<1> QED
  BY <1>2, <1>4, <1>9, <1>11 DEF TestInv

\* Of what was copied out of remote_buf the string ends where the value does.
LEMMA GetReadTest ==
  ASSUME TInv, caller = "tests", GetRead PROVE TestInv'
<1>1. TestInv /\ Turns /\ Nodes /\ IInv /\ Types
  BY DEF TInv, TestInv, IInv
<1>2. /\ pc = "read" /\ Waited("read") /\ pc' = "check"
      /\ result' = StringAt(remote, cache[call.key].len)
      /\ UNCHANGED <<call, cache, remote, out, reply, buf, serverVars>>
      /\ UNCHANGED <<last, use_rndv_protocol, todo, testing>>
  BY DEF GetRead, Waited, netVars, SameCaller
<1>3. out = NULL
  BY <1>1, <1>2, WaitedQuiet DEF Quiet
<1>4. use_rndv_protocol /\ RndvTest
  BY <1>1, <1>2 DEF TestInv, EagerTest
<1>5. testing # NULL /\ call.key = testing /\ last[testing] \in Values
  BY <1>1, <1>2 DEF Turns, GetCalls
<1> DEFINE v == last[testing]  n == ValLen[v]
<1>6. /\ remote.val = v /\ remote.nul \cap (0 .. n) = {n} /\ cache[testing].len = n
  BY <1>2, <1>3, <1>4, <1>5 DEF RndvTest, InRegion
<1>7. n \in Nat /\ v # NULL
  BY <1>5, TemplateAssumption
<1>8. result' = v
  <2>1. Min({n}) = n
    BY <1>7, MinOne
  <2> QED
    BY <1>2, <1>5, <1>6, <1>7, <2>1 DEF StringAt
<1>9. /\ UNCHANGED <<inbox, nodes, region>> /\ Nodes'
      /\ \A k, w : InRegion(k, w)' = InRegion(k, w)
      /\ \A k : PendingSet(k)' = PendingSet(k)
  BY <1>1, <1>2, TestParts
<1>10. \A k : Current(k)' = Current(k)
  BY <1>2 DEF Current, SetCalls
<1>11. Turns'
  BY <1>1, <1>2, <1>5, <1>8 DEF Turns, SetCalls, GetCalls
<1>12. RndvTest'
  BY <1>2, <1>3, <1>4, <1>5, <1>6, <1>9, <1>10 DEF RndvTest
<1> QED
  BY <1>2, <1>4, <1>9, <1>11, <1>12 DEF TestInv

\* The answer of the second wait is the one the server gave.
LEMMA GetCopiesTest ==
  ASSUME TInv, caller = "tests", GetWaitsAgain \/ GetCopies PROVE TestInv'
<1>1. TestInv /\ Turns /\ Nodes /\ IInv /\ Types
  BY DEF TInv, TestInv, IInv
<1>2. /\ pc \in {"get", "get_again"}
      /\ UNCHANGED <<call, cache, remote, out, reply, buf, serverVars>>
      /\ UNCHANGED <<last, use_rndv_protocol, todo, testing>>
  BY DEF GetWaitsAgain, GetCopies, Waited, netVars, SameCaller
<1>3. ~use_rndv_protocol /\ EagerTest
  BY <1>1, <1>2 DEF TestInv, RndvTest
<1>4. testing # NULL /\ call.key = testing /\ last[testing] \in Values
  BY <1>1, <1>2 DEF Turns, GetCalls
<1>5. /\ UNCHANGED <<inbox, nodes, region>> /\ Nodes'
      /\ \A k, v : Sent(k, v)' = Sent(k, v) /\ InNode(k, v)' = InNode(k, v)
      /\ \A k : PendingSet(k)' = PendingSet(k)
  BY <1>1, <1>2, TestParts
<1>6. CASE GetWaitsAgain
  <2>1. pc' = "get_again" /\ result' = result
    BY <1>6 DEF GetWaitsAgain
  <2>2. \A k : Current(k)' = Current(k)
    BY <1>2, <2>1 DEF Current, SetCalls
  <2>3. Turns'
    BY <1>1, <1>2, <1>4, <2>1 DEF Turns, SetCalls, GetCalls
  <2>4. Asked("EAGER_GET_REQUEST")' = Asked("EAGER_GET_REQUEST")
    BY <1>2, <1>5 DEF Asked
  <2>5. EagerTest'
    BY <1>2, <1>3, <1>5, <2>1, <2>2, <2>4 DEF EagerTest
  <2> QED
    BY <1>2, <1>3, <1>5, <2>3, <2>5 DEF TestInv
<1>7. CASE GetCopies
  <2>1. Waited("get_again") /\ pc = "get_again"
    BY <1>7 DEF GetCopies, Waited
  <2>2. Quiet /\ Unhandled
    BY <1>1, <2>1, WaitedQuiet
  <2>3. out = NULL /\ ~Asked("EAGER_GET_REQUEST")
    BY <2>2 DEF Quiet, Unhandled, Asked
  <2> DEFINE v == last[testing]  n == ValLen[v]
  <2>4. buf = [type |-> "EAGER_GET_RESPONSE", len |-> n, val |-> v, nul |-> {}]
    BY <1>2, <1>3, <2>3 DEF EagerTest, Answers
  <2>5. n \in Nat /\ v # NULL
    BY <1>4, TemplateAssumption
  <2> DEFINE b == [buf EXCEPT !.nul = (@ \cap 0 .. buf.len - 1) \cup {buf.len}]
  <2>6. pc' = "check" /\ result' = StringAt(b, n)
    BY <1>7, <2>4 DEF GetCopies
  <2>7. b.val = v /\ b.nul = {n}
    BY <2>4
  <2> HIDE DEF b, n
  <2>8. b.nul \cap (0 .. n) = {n} /\ Min({n}) = n
    BY <2>5, <2>7, MinOne
  <2>9. result' = v
    BY <2>5, <2>6, <2>7, <2>8 DEF StringAt, n
  <2>10. \A k : Current(k)' = Current(k)
    BY <1>2, <2>6 DEF Current, SetCalls
  <2>11. Turns'
    BY <1>1, <1>2, <1>4, <2>6, <2>9 DEF Turns, SetCalls, GetCalls
  <2>12. EagerTest'
    BY <1>2, <1>3, <1>5, <2>3, <2>6, <2>10 DEF EagerTest
  <2> QED
    BY <1>2, <1>3, <1>5, <2>11, <2>12 DEF TestInv
<1> QED
  BY <1>6, <1>7

LEMMA CloseCallTest ==
  ASSUME TInv, caller = "tests", Close \/ Closed PROVE TestInv'
<1>1. TestInv /\ Turns /\ Nodes /\ IInv /\ Types
  BY DEF TInv, TestInv, IInv
<1>2. /\ \/ pc = "called" /\ call.name = "close" /\ pc' = "close"
         \/ pc = "close" /\ pc' = "closed" /\ out' = out /\ Waited("close")
      /\ UNCHANGED <<call, cache, result, remote, reply, buf, inbox, nodes, region>>
      /\ UNCHANGED <<last, use_rndv_protocol, todo, testing>>
  <2>1. CASE Close
    BY <2>1 DEF Close, Calling, Post, serverVars, SameCaller
  <2>2. CASE Closed
    BY <2>2 DEF Closed, Waited, netVars, serverVars, SameCaller
  <2> QED
    BY <2>1, <2>2
<1>3. testing = NULL
  BY <1>1, <1>2 DEF Turns, GetCalls
<1>4. (pc' = "close" => out' = [type |-> "CLOSE_CONNECTION"])
  BY <1>2 DEF Close, Closed, Post
<1>5. \A k : PendingSet(k)' => PendingSet(k)
  BY <1>2, <1>4 DEF PendingSet
<1>6. \A k : Current(k)' = Current(k)
  BY <1>2 DEF Current, SetCalls
<1>7. pc' = "closed" => out = NULL
  BY <1>1, <1>2, WaitedQuiet DEF Quiet
<1>8. Nodes' /\ Turns'
  BY <1>1, <1>2, <1>3 DEF Nodes, Turns, SetCalls, GetCalls
<1>9. EagerTest => EagerTest'
  BY <1>2, <1>3, <1>4, <1>5, <1>6, <1>7 DEF EagerTest
<1>10. RndvTest => RndvTest'
  BY <1>2, <1>3, <1>5, <1>6 DEF RndvTest
<1> QED
  BY <1>1, <1>2, <1>8, <1>9, <1>10 DEF TestInv

LEMMA BeginTest ==
  ASSUME TInv, caller = "tests", NEW c \in Calls, Begin(c) PROVE TestInv'
<1>1. TestInv /\ Turns /\ Nodes /\ IInv /\ Types
  BY DEF TInv, TestInv, IInv
<1>2. /\ pc = "idle" /\ pc' = "called" /\ call' = c /\ TestsMayCall(c)
      /\ UNCHANGED <<cache, result, remote, out, reply, buf, serverVars>>
      /\ UNCHANGED <<last, use_rndv_protocol, todo, testing>>
  BY DEF Begin, netVars, SameCaller
<1>3. /\ UNCHANGED <<inbox, nodes, region>> /\ Nodes'
      /\ \A k, v : Sent(k, v)' = Sent(k, v) /\ InNode(k, v)' = InNode(k, v)
                  /\ InRegion(k, v)' = InRegion(k, v)
      /\ \A k : PendingSet(k)' = PendingSet(k)
  BY <1>1, <1>2, TestParts
<1>4. \A k : Current(k)' = Current(k)
  BY <1>2 DEF Current, SetCalls
<1>5. Turns'
  BY <1>1, <1>2 DEF Turns, TestsMayCall, Calls, SetCalls, GetCalls
<1>6. EagerTest /\ ~use_rndv_protocol => EagerTest'
  BY <1>2, <1>3, <1>4 DEF EagerTest, TestsMayCall
<1>7. RndvTest => RndvTest'
  BY <1>2, <1>3, <1>4 DEF RndvTest
<1> QED
  BY <1>1, <1>2, <1>3, <1>5, <1>6, <1>7 DEF TestInv

\* The assertion holds, and the key is done.
LEMMA CheckTest ==
  ASSUME TInv, caller = "tests", Check PROVE TestInv'
<1>1. TestInv /\ Turns /\ Nodes /\ IInv /\ Types /\ Phases
  BY DEF TInv, TestInv, IInv
<1>2. /\ pc = "check" /\ todo' = todo \ {call.key} /\ testing' = NULL
      /\ pc' = IF last[call.key] \in {result, NULL} THEN "idle" ELSE "aborted"
      /\ UNCHANGED <<cache, remote, out, reply, buf, serverVars, last, use_rndv_protocol>>
  BY DEF Check, netVars
<1>3. testing # NULL /\ call.key = testing /\ result = last[testing]
  BY <1>1, <1>2 DEF Turns, GetCalls
<1>4. pc' = "idle"
  BY <1>2, <1>3
<1>5. /\ UNCHANGED <<inbox, nodes, region>> /\ Nodes'
      /\ \A k : PendingSet(k)' = PendingSet(k)
  BY <1>1, <1>2, TestParts
<1>6. \A k \in Keys : Current(k) => k = call.key
  BY <1>2, <1>3 DEF Current, SetCalls
<1>7. Turns'
  BY <1>2, <1>4 DEF Turns, SetCalls, GetCalls
<1>8. out = NULL
  BY <1>1, <1>2 DEF Phases, Quiet
<1>9. todo \subseteq Keys
  BY <1>1 DEF Types
<1>10. ASSUME EagerTest PROVE EagerTest'
  <2>1. \A k \in Keys : ~PendingSet(k)
    BY <1>2, <1>8, <1>10 DEF EagerTest, PendingSet
  <2>2. \A k \in todo' : \A i \in DOMAIN nodes : nodes[i].key # k
    BY <1>2, <1>6, <1>9, <1>10 DEF EagerTest
  <2> QED
    BY <1>2, <1>4, <1>5, <1>8, <1>10, <2>1, <2>2 DEF EagerTest
<1>11. ASSUME RndvTest PROVE RndvTest'
  <2>1. \A k \in todo' : cache[k] = NULL
    BY <1>2, <1>6, <1>9, <1>11 DEF RndvTest
  <2> QED
    BY <1>2, <1>4, <1>5, <1>11, <2>1 DEF RndvTest
<1> QED
  BY <1>1, <1>2, <1>5, <1>7, <1>10, <1>11 DEF TestInv

\* Between the phases nothing is pending and no address is known.
LEMMA NextPhaseTest ==
  ASSUME TInv, caller = "tests", NextPhase PROVE TestInv'
<1>1. TestInv /\ Turns /\ Nodes /\ IInv /\ Types
  BY DEF TInv, TestInv, IInv
<1>2. /\ pc = "idle" /\ ~use_rndv_protocol /\ testing = NULL /\ use_rndv_protocol' = TRUE /\ todo' = Keys
      /\ UNCHANGED <<pc, call, result, last, testing, cache, remote, out, reply, buf, serverVars>>
  BY DEF NextPhase, netVars
<1>3. EagerTest
  BY <1>1, <1>2 DEF TestInv
<1>4. /\ UNCHANGED <<inbox, nodes, region>> /\ Nodes'
      /\ \A k : PendingSet(k)' = PendingSet(k)
  BY <1>1, <1>2, TestParts
<1>5. \A k \in Keys : ~PendingSet(k)
  BY <1>2, <1>3, TemplateAssumption DEF EagerTest, Current, SetCalls
<1>6. \A k \in Keys : cache[k] = NULL
  BY <1>3 DEF EagerTest
<1>7. Turns'
  BY <1>1, <1>2 DEF Turns, SetCalls, GetCalls
<1>8. RndvTest'
  BY <1>2, <1>4, <1>5, <1>6 DEF RndvTest
<1> QED
  BY <1>2, <1>4, <1>7, <1>8 DEF TestInv

\* What the tests find is what they set (run_throuput_tests).
THEOREM TemplateTestInvariant == Spec => []TInv
<1>1. Init => TInv
  BY InitInv, TestInit DEF TInv
<1>2. TInv /\ IInv' /\ [Next]_vars => TInv'
  <2> SUFFICES ASSUME TInv, [Next]_vars, caller' = "tests" PROVE TestInv'
    BY DEF TInv
  <2>1. caller = "tests"
    BY DEF Next, vars, clientVars, netVars, serverVars, ClientStep, NetStep, Poll, SetEager, SetCached,
           SetAsks, SetWrites, SetReturns, GetCached, GetRead, GetEager, GetWaitsAgain, GetCopies, GetSpins,
           GetAsks, Close, Closed, Check, Deliver, Acknowledge, ResponseArrives, RdmaWrite, RdmaRead,
           ServerHandles, ServerCrashes, ServerCloses, NextPhase, Begin, SameCaller
  <2>2. TestInv
    BY <2>1 DEF TInv
  <2>3. CASE UNCHANGED vars
    BY <2>2, <2>3, TestSame DEF vars, clientVars, netVars, serverVars
  <2>4. CASE Poll
    BY <2>2, <2>4, TestSame DEF Poll, SameCaller, serverVars
  <2>5. CASE Acknowledge
    BY <2>2, <2>5, TestSame DEF Acknowledge, clientVars, serverVars
  <2>6. CASE SetEager \/ SetCached \/ SetAsks \/ SetWrites \/ SetReturns
    BY <2>1, <2>6, SetEagerTest, SetAsksTest, SetWritesTest, SetReturnsTest
  <2>7. CASE GetCached \/ GetRead \/ GetEager \/ GetWaitsAgain \/ GetCopies \/ GetSpins \/ GetAsks
    BY <2>1, <2>7, GetCachedTest, GetReadTest, GetEagerTest, GetCopiesTest
  <2>8. CASE Close \/ Closed \/ Check \/ NextPhase
    BY <2>1, <2>8, CloseCallTest, CheckTest, NextPhaseTest
  <2>9. CASE \E c \in Calls : Begin(c)
    BY <2>1, <2>9, BeginTest
  <2>10. CASE Deliver \/ ResponseArrives \/ RdmaWrite \/ RdmaRead
    BY <2>1, <2>10, DeliverTest, ResponseArrivesTest, RdmaWriteTest, RdmaReadTest
  <2>11. CASE ServerHandles \/ ServerCloses
    BY <2>1, <2>11, ServerTest
  <2>12. CASE ServerCrashes
    BY <2>2, <2>12, TestSame DEF ServerCrashes, clientVars, netVars
  <2> QED
    BY <2>3, <2>4, <2>5, <2>6, <2>7, <2>8, <2>9, <2>10, <2>11, <2>12 DEF Next, ClientStep, NetStep
<1>3. QED
  BY <1>1, <1>2, TemplateInvariant, PTL DEF Spec

\* run_throuput_tests never fails its assertion: with both protocols, and with
\* the keys of the first phase used again in the second, a get returns what was
\* set.
THEOREM TemplateAssertHolds == Spec => []AssertHolds
<1>1. TInv => AssertHolds
  BY DEF TInv, TestInv, Turns, AssertHolds
<1> QED
  BY <1>1, TemplateTestInvariant, PTL

(***************************************************************************)
(* The types                                                                *)
(***************************************************************************)

\* What TypeOK says and IInv does not; an RDMA request is for a region there is.
Bounded ==
  /\ got <= 2 /\ call \in Calls \cup {NULL} /\ result \in Values \cup {Mangled, NULL}
  /\ remote \in Buffers /\ \A r \in DOMAIN region : region[r] \in Buffers
  /\ out # NULL /\ out.type \in Rdma => out.at \in DOMAIN region
  /\ pc \in {"get", "get_again"} /\ ~Asked("EAGER_GET_REQUEST") => buf # NULL

\* Writing a value into a buffer.
LEMMA BufferWritten ==
  ASSUME NEW b \in Buffers, NEW v \in Values, NEW n \in Nat
  PROVE  Terminated(b, v, ValLen[v]) \in Buffers /\ Written(b, v, n) \in Buffers
<1>1. ValLen[v] \in Positions
  BY TemplateAssumption DEF Positions
<1> QED
  BY <1>1 DEF Buffers, Terminated, Written

LEMMA InitBounded == ASSUME Init PROVE Bounded
<1>1. /\ got = 0 /\ call = NULL /\ result = NULL /\ remote = [val |-> NULL, nul |-> {}] /\ out = NULL
      /\ pc = "idle" /\ region = [i \in 1 .. MIN_POOL_NODES |-> Cleared]
  BY DEF Init
<1> QED
  BY <1>1 DEF Bounded, Buffers, Cleared

LEMMA ServerBounded ==
  ASSUME IInv, Bounded, ServerHandles \/ ServerCrashes \/ ServerCloses PROVE Bounded'
<1>1. CASE ServerCrashes \/ ServerCloses
  BY <1>1 DEF ServerCrashes, ServerCloses, clientVars, netVars, Bounded, Asked
<1>2. CASE ServerHandles
  <2>1. /\ pc' = pc /\ got' = got /\ call' = call /\ result' = result /\ remote' = remote /\ out' = out
        /\ buf' = buf /\ inbox # NULL /\ inbox' = NULL
    BY <1>2 DEF ServerHandles, clientVars
  <2>p. pool # <<>>
    BY <1>2, PoolNotEmpty, HandlesSame DEF IInv
  <2>2. DOMAIN region \subseteq DOMAIN region' /\ \A r \in DOMAIN region' : region'[r] \in Buffers
    <3>1. CASE region' = region
      BY <3>1 DEF Bounded
    <3>2. CASE RegionTaken /\ PoolRefilled /\ srv' = srv
      <4> DEFINE fresh == Cardinality(DOMAIN region) + 1
             Keyed(r) == [region[r] EXCEPT !.nul = @ \ (0 .. KEY_LEN - 1)]
             Filled(r) == CASE r = fresh -> Cleared
                            [] r = Head(pool) /\ inbox.type = "RENDEZVOUS_SET_REQUEST" -> Keyed(r)
                            [] OTHER -> region[r]
      <4>1. Cleared \in Buffers
        BY DEF Cleared, Buffers
      <4>2. \A r \in DOMAIN region : region[r] \in Buffers /\ Keyed(r) \in Buffers
        BY DEF Bounded, Buffers
      <4>5. region' = [r \in DOMAIN region \cup {fresh} |-> Filled(r)]
        BY <3>2 DEF PoolRefilled
      <4>7. Head(pool) # fresh
        <5>1. Pools /\ srv = "running" /\ srv' = srv
          BY <1>2, <3>2, HandlesSame DEF IInv
        <5>3. Head(pool) \in Free
          BY <3>2, <5>1, RegionMoves
        <5>2. Head(pool) \in 1 .. Cardinality(DOMAIN region) /\ Cardinality(DOMAIN region) \in Nat
          BY <5>1, <5>3 DEF Pools, Serving
        <5> QED
          BY <5>2
      <4> HIDE DEF fresh, Keyed
      <4>6. Filled(fresh) = Cleared /\ \A r : r # fresh => Filled(r) \in {region[r], Keyed(r)}
        <5>1. Filled(fresh) = Cleared
          BY <4>7
        <5>2. ASSUME NEW r, r # fresh PROVE Filled(r) \in {region[r], Keyed(r)}
          <6>1. CASE r = Head(pool) /\ inbox.type = "RENDEZVOUS_SET_REQUEST"
            BY <5>2, <6>1
          <6>2. CASE ~(r = Head(pool) /\ inbox.type = "RENDEZVOUS_SET_REQUEST")
            BY <5>2, <6>2
          <6> QED
            BY <6>1, <6>2
        <5> QED
          BY <5>1, <5>2
      <4> HIDE DEF Filled
      <4>3. /\ DOMAIN region' = DOMAIN region \cup {fresh} /\ region'[fresh] = Cleared
            /\ \A r \in DOMAIN region \ {fresh} : region'[r] \in {region[r], Keyed(r)}
        BY <4>5, <4>6
      <4>4. \A r \in DOMAIN region' : region'[r] \in Buffers
        BY <4>1, <4>2, <4>3, Zenon
      <4> QED
        BY <4>3, <4>4
    <3> QED
      BY <1>2, <2>p, <3>1, <3>2
         DEF ServerHandles, HandleEagerGet, HandleEagerSet, HandleRndvSet, HandleRndvGet
  <2>3. pc \in {"get", "get_again"} /\ ~Asked("EAGER_GET_REQUEST")' => buf # NULL
    <3>1. ASSUME Asked("EAGER_GET_REQUEST"), ~Asked("EAGER_GET_REQUEST")'
          PROVE  pc \notin {"get", "get_again"}
      <4>1. out = NULL /\ reply' = NULL
        BY <2>1, <3>1 DEF Asked
      <4>2. CASE reply # NULL
        <5>1. reply' # reply
          BY <4>1, <4>2
        <5>2. inbox.type \in {"EAGER_GET_REQUEST", "RENDEZVOUS_SET_REQUEST"}
          BY <1>2, <2>p, <5>1 DEF ServerHandles, HandleEagerSet, HandleRndvGet
        <5>3. \A t : ~(TwoWay(t))
          BY <2>1, <4>2, <5>2 DEF TwoWay, Unhandled
        <5> QED
          BY <5>3 DEF IInv, Phases
      <4>3. CASE reply = NULL
        <5>1. inbox.type = "EAGER_GET_REQUEST"
          BY <3>1, <4>1, <4>3 DEF Asked
        <5>2. IInv'
          BY <1>2, ServerHandlesKeeps
        <5>3. HandleEagerGet(inbox)
          BY <1>2, <5>1 DEF ServerHandles
        <5>4. reply' # NULL
          BY <2>1, <5>1, <5>3, EagerGetAnswers DEF IInv
        <5> QED
          BY <4>1, <5>4
      <4> QED
        BY <4>2, <4>3
    <3> QED
      BY <3>1 DEF Bounded
  <2> QED
    BY <2>1, <2>2, <2>3 DEF Bounded
<1> QED
  BY <1>1, <1>2

LEMMA NetBounded ==
  ASSUME IInv, Bounded, NetStep PROVE Bounded'
<1>1. Types /\ Cached
  BY DEF IInv
<1>2. CASE Deliver
  <2>1. /\ UNCHANGED <<pc, got, call, result, remote, region, buf>> /\ out # NULL /\ out' = NULL /\ inbox' = out
    BY <1>2 DEF Deliver, clientVars
  <2>2. pc \in {"get", "get_again"} => Asked("EAGER_GET_REQUEST")'
    BY <2>1, OutPhase DEF Asked
  <2> QED
    BY <2>1, <2>2 DEF Bounded
<1>3. CASE Acknowledge
  BY <1>3 DEF Acknowledge, clientVars, serverVars, Bounded, Asked
<1>4. CASE ResponseArrives
  BY <1>4 DEF ResponseArrives, clientVars, serverVars, Bounded
<1>5. CASE RdmaWrite
  <2>1. /\ UNCHANGED <<pc, got, call, result, remote, buf>> /\ out # NULL /\ out.type = "WRITE" /\ out' = NULL
        /\ region' = [region EXCEPT ![out.at] =
             IF out.size > ValLen[out.val] THEN Terminated(@, out.val, ValLen[out.val])
                                           ELSE Written(@, out.val, out.size)]
    BY <1>5 DEF RdmaWrite, clientVars
  <2>2. out.val \in Values /\ out.size \in Nat /\ out.at \in DOMAIN region
    BY <1>1, <2>1 DEF Types, Requests, RdmaRequests, Bounded, Rdma
  <2>3. \A r \in DOMAIN region : region[r] \in Buffers
    BY DEF Bounded
  <2>4. \A r \in DOMAIN region' : region'[r] \in Buffers
    BY <2>1, <2>2, <2>3, BufferWritten
  <2>5. pc \notin {"get", "get_again"}
    BY <2>1, OutPhase
  <2> QED
    BY <2>1, <2>4, <2>5 DEF Bounded
<1>6. CASE RdmaRead
  <2>1. /\ UNCHANGED <<pc, got, call, result, region, buf>> /\ out # NULL /\ out.type = "READ" /\ out' = NULL
        /\ remote' = [val |-> region[out.at].val,
                      nul |-> (remote.nul \ (0 .. out.size - 1))
                              \cup (region[out.at].nul \cap (0 .. out.size - 1))]
    BY <1>6 DEF RdmaRead, serverVars
  <2>2. region[out.at] \in Buffers /\ remote \in Buffers
    BY <2>1 DEF Bounded, Rdma
  <2>3. remote' \in Buffers
    BY <2>1, <2>2 DEF Buffers
  <2>5. pc \notin {"get", "get_again"}
    BY <2>1, OutPhase
  <2> QED
    BY <2>1, <2>3, <2>5 DEF Bounded
<1> QED
  BY <1>2, <1>3, <1>4, <1>5, <1>6 DEF NetStep

\* The completions that a call has counted and those in the queue are two at most.
LEMMA TwoCompletions == ASSUME IInv, Busy PROVE got + Len(cq) <= 2
<1> DEFINE n == Len(cq)
<1>1. Types /\ Phases /\ got \in Nat /\ n \in Nat
  BY DEF IInv, Types
<1>2. Sending \in {0, 1} /\ \A t : Awaited(t) \in {0, 1}
  BY DEF Sending, Awaited
<1>3. pc \in {"set", "write", "read", "close"} => got + n + Sending = 1
  BY <1>1 DEF Phases, OneWay
<1>4. pc = "get" => got + n + Sending + Awaited("EAGER_GET_REQUEST") = 2
  BY <1>1 DEF Phases
<1>5. pc = "get_again" => got + n + Sending + Awaited("EAGER_GET_REQUEST") <= 1
  BY <1>1 DEF Phases
<1>6. pc = "rndv_set" => got + n + Sending + Awaited("RENDEZVOUS_SET_REQUEST") = 2
  BY <1>1 DEF Phases
<1>7. pc = "rndv_get" => got + n + Sending <= 1
  BY <1>1 DEF Phases
<1>8. pc \in {"set", "write", "read", "close", "get", "get_again", "rndv_set", "rndv_get"}
  BY DEF Busy, Waits
<1> HIDE DEF n
<1>9. got + n <= 2
  BY <1>1, <1>2, <1>3, <1>4, <1>5, <1>6, <1>7, <1>8
<1> QED
  BY <1>9 DEF n

\* A string is one of the values.
LEMMA StringIsValue ==
  ASSUME NEW b, NEW n, b.val \in Values \cup {NULL} PROVE StringAt(b, n) \in Values \cup {Mangled}
BY DEF StringAt

LEMMA ClientBounded ==
  ASSUME IInv, Bounded, ClientStep PROVE Bounded'
<1>1. Types /\ CallRight /\ Cached /\ IInv'
  BY PollKeeps, CallPostsKeeps, SetWritesKeeps, WaitEndsKeeps, CallerKeeps DEF IInv, ClientStep
<1>2. CASE Poll
  <2>1. UNCHANGED <<pc, call, result, remote, region, out, buf, inbox, reply>>
    BY <1>2 DEF Poll, SameCaller, serverVars
  <2>2. got' + Len(cq') = got + Len(cq) /\ got' \in Nat /\ Len(cq') \in Nat
    BY <1>1, <1>2, PollCounts
  <2>3. got + Len(cq) <= 2
    BY <1>2, TwoCompletions DEF Poll
  <2> DEFINE n == Len(cq)  m == Len(cq')
  <2>4. n \in Nat /\ m \in Nat /\ got \in Nat /\ got' + m = got + n /\ got + n <= 2 /\ got' \in Nat
    BY <1>1, <2>2, <2>3 DEF Types
  <2> HIDE DEF n, m
  <2>5. \A a, b, c, d \in Nat : a + b = c + d /\ c + d <= 2 => a <= 2
    OBVIOUS
  <2>6. got' <= 2
    BY <2>4, <2>5, Zenon
  <2> QED
    BY <2>1, <2>6 DEF Bounded, Asked
<1>3. CASE SetCached
  <2>1. /\ pc = "called" /\ call.name = "set" /\ pc' = "write" /\ got' = 0 /\ cache[call.key] # NULL
        /\ UNCHANGED <<call, result, region>> /\ out'.at = cache[call.key].at
        /\ remote' = Terminated(remote, call.value, ValLen[call.value])
    BY <1>3 DEF SetCached, Calling, Post, serverVars
  <2>2. call.key \in Keys /\ call.value \in Values
    BY <2>1, CalledQuiet
  <2>3. remote' \in Buffers
    BY <2>1, <2>2, BufferWritten DEF Bounded
  <2>4. out'.at \in DOMAIN region'
    BY <1>1, <2>1, <2>2 DEF Cached
  <2> QED
    BY <2>1, <2>3, <2>4 DEF Bounded
<1>4. CASE SetWrites
  <2>1. /\ pc = "rndv_set" /\ Waited("rndv_set") /\ pc' = "write" /\ got' = 0
        /\ UNCHANGED <<call, result, region>> /\ out'.at = buf.at
        /\ remote' = Terminated(remote, call.value, ValLen[call.value])
    BY <1>4 DEF SetWrites, Waited, Post, serverVars
  <2>2. call.value \in Values
    BY <1>1, <2>1 DEF CallRight, SetCalls
  <2>3. remote' \in Buffers
    BY <2>1, <2>2, BufferWritten DEF Bounded
  <2>4. out'.at \in DOMAIN region'
    BY <2>1, WaitedQuiet DEF Granted, New
  <2> QED
    BY <2>1, <2>3, <2>4 DEF Bounded
<1>5. CASE GetCached
  <2>1. /\ pc = "called" /\ call.name = "get" /\ pc' = "read" /\ got' = 0 /\ cache[call.key] # NULL
        /\ UNCHANGED <<call, result, region, remote>> /\ out'.at = cache[call.key].at
    BY <1>5 DEF GetCached, Calling, Post, serverVars
  <2>2. call.key \in Keys
    BY <2>1, CalledQuiet
  <2>3. out'.at \in DOMAIN region'
    BY <1>1, <2>1, <2>2 DEF Cached
  <2> QED
    BY <2>1, <2>3 DEF Bounded
<1>6. CASE SetEager \/ SetAsks \/ GetEager \/ GetAsks \/ Close
  <2>1. /\ UNCHANGED <<call, result, region, remote>> /\ got' = 0
        /\ out'.type \in {"EAGER_SET_REQUEST", "RENDEZVOUS_SET_REQUEST", "EAGER_GET_REQUEST",
                          "RENDEZVOUS_GET_REQUEST", "CLOSE_CONNECTION"}
        /\ pc' \in {"get", "get_again"} => GetEager
    BY <1>6 DEF SetEager, SetAsks, GetEager, GetAsks, Close, Post, serverVars
  <2>2. ASSUME GetEager PROVE out' # NULL
    <3>1. pc = "called" /\ call.name = "get" /\ out' = [type |-> "EAGER_GET_REQUEST", key |-> call.key]
      BY <2>2 DEF GetEager, Calling, Post
    <3>2. call.key \in Keys
      BY <3>1, CalledQuiet
    <3>3. out' \in Requests
      BY <3>1, <3>2 DEF Requests
    <3> QED
      BY <3>3, TemplateAssumption
  <2> QED
    BY <2>1, <2>2 DEF Bounded, Rdma, Asked
<1>7. CASE SetReturns \/ Closed \/ Check
  <2>1. /\ UNCHANGED <<got, remote, region, out>> /\ call' \in {call, NULL} /\ result' \in {result, NULL}
        /\ pc' \in {"idle", "closed", "aborted"}
    BY <1>7 DEF SetReturns, Closed, Check, netVars, serverVars
  <2> QED
    BY <2>1 DEF Bounded
<1>8. CASE GetRead
  <2>1. /\ UNCHANGED <<got, call, remote, region, out>> /\ pc' = "check"
        /\ result' = StringAt(remote, cache[call.key].len)
    BY <1>8 DEF GetRead, netVars, serverVars
  <2>2. remote.val \in Values \cup {NULL}
    BY DEF Bounded, Buffers
  <2> QED
    BY <2>1, <2>2, StringIsValue DEF Bounded
<1>9. CASE GetWaitsAgain
  <2>1. /\ UNCHANGED <<call, result, remote, region, out, buf, inbox, reply>> /\ got' = 0 /\ pc = "get"
    BY <1>9 DEF GetWaitsAgain, Waited, netVars, serverVars
  <2> QED
    BY <2>1 DEF Bounded, Asked
<1>10. CASE GetCopies
  <2>1. /\ UNCHANGED <<got, call, remote, region, out>> /\ pc' \in {"check", "crashed"}
        /\ Waited("get_again") /\ pc = "get_again"
    BY <1>10 DEF GetCopies, Waited, netVars, serverVars
  <2>2. Quiet /\ Unhandled
    BY <2>1, WaitedQuiet
  <2>3. buf # NULL
    BY <2>1, <2>2 DEF Quiet, Unhandled, Asked, Bounded
  <2>4. result' \in Values \cup {Mangled}
    <3>1. CASE buf.type = "EAGER_GET_RESPONSE"
      <4> DEFINE b == [buf EXCEPT !.nul = (@ \cap 0 .. buf.len - 1) \cup {buf.len}]
      <4>1. buf \in Responses
        BY <1>1, <2>3 DEF Types
      <4>2. b.val \in Values
        BY <3>1, <4>1 DEF Responses
      <4>3. result' = StringAt(b, buf.len)
        BY <1>10, <3>1 DEF GetCopies
      <4> HIDE DEF b
      <4> QED
        BY <4>2, <4>3, StringIsValue
    <3>2. CASE buf.type # "EAGER_GET_RESPONSE"
      BY <1>10, <3>2 DEF GetCopies
    <3> QED
      BY <3>1, <3>2
  <2> QED
    BY <2>1, <2>4 DEF Bounded
<1>11. CASE GetSpins
  <2>1. pc' = "spinning" /\ UNCHANGED <<got, call, result, remote, region, out>>
    BY <1>11 DEF GetSpins, netVars, serverVars
  <2> QED
    BY <2>1 DEF Bounded
<1> QED
  BY <1>2, <1>3, <1>4, <1>5, <1>6, <1>7, <1>8, <1>9, <1>10, <1>11 DEF ClientStep

\* The variables keep their types, and no RDMA request is for a region that the
\* server does not have.
THEOREM TemplateBounded == Spec => []Bounded
<1>1. Init => Bounded
  BY InitBounded
<1>2. IInv /\ Bounded /\ [Next]_vars => Bounded'
  <2> SUFFICES ASSUME IInv, Bounded, [Next]_vars PROVE Bounded'
    OBVIOUS
  <2>1. CASE UNCHANGED vars
    BY <2>1 DEF vars, clientVars, netVars, serverVars, Bounded, Asked
  <2>2. CASE NextPhase \/ \E c \in Calls : Begin(c)
    <3>1. /\ UNCHANGED <<got, result, remote, region, out, buf, inbox, reply>>
          /\ call' \in Calls \cup {call} /\ pc' \in {"idle", "called"}
      BY <2>2 DEF NextPhase, Begin, netVars, serverVars
    <3> QED
      BY <3>1 DEF Bounded
  <2> QED
    BY <2>1, <2>2, ServerBounded, NetBounded, ClientBounded DEF Next
<1> QED
  BY <1>1, <1>2, TemplateInvariant, PTL DEF Spec

THEOREM TemplateTypeOK == Spec => []TypeOK
<1>1. IInv /\ Bounded /\ Len(cq) <= 2 => TypeOK
  <2> SUFFICES ASSUME IInv, Bounded, Len(cq) <= 2 PROVE TypeOK
    OBVIOUS
  <2>1. Types /\ Cached /\ Pools
    BY DEF IInv
  <2>2. \A i \in DOMAIN nodes : nodes[i].key \in Keys /\ nodes[i].val \in Values
    <3> DEFINE N == [key : Keys, val : Values, len : Nat \cup {NULL}, nul : SUBSET Nat]
    <3>1. nodes \in Seq(N)
      BY <2>1 DEF Types
    <3> HIDE DEF N
    <3>2. \A i \in DOMAIN nodes : nodes[i] \in N
      BY <3>1, EntryIn
    <3> QED
      BY <3>2 DEF N
  <2>3. \A k \in Keys : cache[k] # NULL => cache[k].at \in DOMAIN region
    BY <2>1 DEF Cached
  <2>4. got \in 0 .. 2
    BY <2>1 DEF Types, Bounded
  <2> QED
    BY <2>1, <2>2, <2>3, <2>4 DEF Types, Pools, Bounded, TypeOK
<1> QED
  BY <1>1, TemplateInvariant, TemplateBounded, TemplateOnePoll, PTL

=============================================================================
