-------------------------- MODULE DkvClusterProofs --------------------------
(***************************************************************************)
(* For any number of servers, keys, values and blocks, whoever dies: a key *)
(* is stored on no server but its home (KeyAtHome), and the one address    *)
(* cache the client has for all servers never names a wrong server or a    *)
(* block of another key (CacheAtHome).  And the cluster is one store: it   *)
(* implements KvStore, with what a get would find now as the contents.     *)
(*                                                                         *)
(* A location is asked for anew in every call and used in that call only,  *)
(* so what is under way is always about the key of the call: the invariant *)
(* says so of every packet.                                                *)
(***************************************************************************)
EXTENDS DkvCluster, TLAPS, WellFoundedInduction

Finds == [type : {"FIND"}, key : Keys, num_of_servers : {num_servers}]
Closing == [type : {"CLOSE_CONNECTION"}]
SmallSets == [type : {"EAGER_SET_REQUEST"}, key : Keys, value : Values]
Questions == [type : {"RENDEZVOUS_SET_REQUEST", "EAGER_GET_REQUEST"}, key : Keys]
AddressReplies ==
  [type : {"RENDEZVOUS_SET_RESPONSE", "RENDEZVOUS_GET_RESPONSE"}, block : Blocks]
SmallReplies == [type : {"EAGER_GET_RESPONSE"}, value : Values \cup {NULL}]

\* A call is known from its beginning to its return.
CallKnown ==
  /\ pc \in {"find", "locate", "located", "rndv_set", "write", "get", "read", "return"} =>
       call \in Calls
  /\ pc \in {"rndv_set", "write"} => call.name = "set"
  /\ pc \in {"get", "read"} => call.name = "get"

\* The server that was looked up is the one for this call's key.
SelectedHome ==
  pc \in {"located", "rndv_set", "write", "get", "read"} => selected = Home(call.key)

\* Every peer has a buffer, and an answer or none on the wire.
Mailboxes ==
  inbox = [p \in Peers |-> inbox[p]] /\ reply = [p \in Peers |-> reply[p]]

\* The indexer has one question at a time, that of the call.
IndexerMail ==
  /\ inbox[Indexer] # NULL =>
       \/ inbox[Indexer] \in Closing
       \/ /\ inbox[Indexer] \in Finds
          /\ pc = "locate" /\ inbox[Indexer].key = call.key /\ reply[Indexer] = NULL
  /\ reply[Indexer] # NULL =>
       pc = "locate" /\ reply[Indexer].selected_server = Home(call.key)

\* A server is asked about keys that are at home there.  Only an eager set
\* may still be in its buffer when the call has returned.
Request(s, packet) ==
  \/ packet \in Closing
  \/ packet \in SmallSets /\ Home(packet.key) = s
  \/ /\ packet \in Questions /\ packet.key = call.key
     /\ s = selected
     /\ pc = IF packet.type = "EAGER_GET_REQUEST" THEN "get" ELSE "rndv_set"

ServerMail ==
  \A s \in Servers :
    /\ inbox[s] # NULL => Request(s, inbox[s])
    /\ reply[s] # NULL =>
         /\ pc \in {"rndv_set", "get"} /\ s = selected /\ inbox[s] = NULL
         /\ reply[s] \in AddressReplies \cup SmallReplies
         /\ pc = "rndv_set" => reply[s] \in AddressReplies
         /\ reply[s] \in AddressReplies => entries[s][call.key] = reply[s].block

IInv ==
  /\ TypeOK /\ CallKnown /\ SelectedHome /\ Mailboxes
  /\ IndexerMail /\ ServerMail /\ KeyAtHome /\ CacheAtHome

\* An update at one point leaves a function a function.
LEMMA UpdateKeeps ==
  ASSUME NEW S, NEW T, NEW f \in [S -> T], NEW x, NEW y \in T
  PROVE  [f EXCEPT ![x] = y] \in [S -> T]
OBVIOUS

LEMMA UpdateOnDomain ==
  ASSUME NEW S, NEW f, f = [p \in S |-> f[p]], NEW g, NEW x, NEW y,
         g = [f EXCEPT ![x] = y]
  PROVE  g = [p \in S |-> g[p]]
OBVIOUS

(***************************************************************************)
(* The hash: djb2 computes a number for every key.  By induction over the  *)
(* characters, in the form of a least counterexample.                      *)
(***************************************************************************)

\* A set of numbers has a least one.
LEMMA Least ==
  ASSUME NEW T \in SUBSET Nat, T # {}
  PROVE  \E n \in T : \A m \in T : n <= m
<1>1. PICK n \in T : \A m \in T : ~ (<<m, n>> \in OpToRel(<, Nat))
  BY WFMin, NatLessThanWellFounded, Zenon
<1>2. \A m \in T : ~ (m < n)
  BY <1>1, Zenon DEF OpToRel
<1> QED
  BY <1>2

\* g holds the hash of the first i characters of str, for i up to n.
Hashes(g, str, n) ==
  g = [i \in 0 .. n |-> IF i = 0 THEN 5381 ELSE (g[i - 1] * 33 + str[i]) % LONG]

\* A character is a number.
LEMMA CharIsNumber ==
  ASSUME NEW str \in Seq(1 .. 255), NEW i \in 1 .. Len(str) PROVE str[i] \in Nat
<1> DEFINE Chars == 1 .. 255
<1>1. str \in Seq(Chars) /\ Chars \subseteq Nat
  OBVIOUS
<1> HIDE DEF Chars
<1>2. str[i] \in Chars
  BY <1>1
<1> QED
  BY <1>1, <1>2

\* The loop of hash_key over the characters defines such a function.
LEMMA HashesExist ==
  ASSUME NEW str \in Seq(1 .. 255)
  PROVE  \E g \in [0 .. Len(str) -> Nat] : Hashes(g, str, Len(str))
<1> DEFINE Missing == {n \in 0 .. Len(str) : ~ \E g \in [0 .. n -> Nat] : Hashes(g, str, n)}
<1>1. SUFFICES ASSUME Missing # {} PROVE FALSE
  OBVIOUS
<1>2. PICK n \in Missing : \A m \in Missing : n <= m
  <2>1. Missing \in SUBSET Nat
    OBVIOUS
  <2> HIDE DEF Missing
  <2> QED
    BY <1>1, <2>1, Least
<1>3. n # 0
  <2> DEFINE g == [i \in 0 .. 0 |-> 5381]
  <2>1. Hashes(g, str, 0)
    BY DEF Hashes
  <2>2. g \in [0 .. 0 -> Nat]
    OBVIOUS
  <2>3. 0 \notin Missing
    BY <2>1, <2>2
  <2> QED
    BY <1>2, <2>3
<1>4. PICK g \in [0 .. n - 1 -> Nat] : Hashes(g, str, n - 1)
  <2>1. n \in 1 .. Len(str)
    BY <1>2, <1>3
  <2>2. n - 1 \in 0 .. Len(str) /\ n - 1 \notin Missing
    <3> HIDE DEF Missing
    <3> QED
      BY <1>2, <2>1
  <2> QED
    BY <2>2
<1> DEFINE h == [i \in 0 .. n |-> IF i < n THEN g[i] ELSE (g[n - 1] * 33 + str[n]) % LONG]
<1>5. h \in [0 .. n -> Nat]
  <2>1. n \in 1 .. Len(str)
    BY <1>2, <1>3
  <2>2. g[n - 1] \in Nat /\ str[n] \in Nat
    BY <2>1, CharIsNumber
  <2>3. (g[n - 1] * 33 + str[n]) % LONG \in Nat
    BY <2>2, ClusterAssumption
  <2> QED
    BY <2>3
<1>6. Hashes(h, str, n)
  <2>1. ASSUME NEW i \in 0 .. n PROVE h[i] = IF i = 0 THEN 5381 ELSE (h[i - 1] * 33 + str[i]) % LONG
    <3>1. CASE i = n
      BY <1>2, <1>3, <3>1
    <3>2. CASE i < n
      <4>1. h[i] = g[i] /\ (i # 0 => h[i - 1] = g[i - 1])
        BY <1>2, <3>2
      <4>2. g[i] = IF i = 0 THEN 5381 ELSE (g[i - 1] * 33 + str[i]) % LONG
        BY <1>2, <1>4, <3>2 DEF Hashes
      <4> QED
        BY <4>1, <4>2
    <3> QED
      BY <1>2, <3>1, <3>2
  <2> QED
    BY <2>1, <1>5 DEF Hashes
<1> QED
  BY <1>2, <1>5, <1>6

\* So the hash of a key is a number.
LEMMA HashIsNumber == \A k \in Keys : HashKey(KeyBytes[k]) \in Nat
<1> SUFFICES ASSUME NEW str \in Seq(1 .. 255) PROVE HashKey(str) \in Nat
  BY ClusterAssumption
<1> DEFINE n == Len(str)
           hash == CHOOSE g : Hashes(g, str, n)
<1>1. HashKey(str) = hash[n]
  BY DEF HashKey, Hashes
<1>2. Hashes(hash, str, n)
  BY HashesExist
<1> HIDE DEF hash
<1> DEFINE Bad == {i \in 0 .. n : hash[i] \notin Nat}
<1>3. Bad = {}
  <2>1. SUFFICES ASSUME Bad # {} PROVE FALSE
    OBVIOUS
  <2>2. PICK i \in Bad : \A j \in Bad : i <= j
    <3>1. Bad \in SUBSET Nat
      OBVIOUS
    <3> HIDE DEF Bad
    <3> QED
      BY <2>1, <3>1, Least
  <2>3. i \in 0 .. n /\ hash[i] \notin Nat
    BY <2>2
  <2>4. hash[i] = IF i = 0 THEN 5381 ELSE (hash[i - 1] * 33 + str[i]) % LONG
    BY <1>2, <2>3 DEF Hashes
  <2>5. i # 0
    BY <2>3, <2>4
  <2>6. hash[i - 1] \in Nat
    <3>1. i - 1 \in 0 .. n /\ i - 1 \notin Bad
      BY <2>2, <2>3, <2>5
    <3> QED
      BY <3>1
  <2>7. str[i] \in Nat
    BY <2>3, <2>5, CharIsNumber
  <2>8. hash[i - 1] * 33 + str[i] \in Nat
    BY <2>6, <2>7
  <2> QED
    BY <2>3, <2>4, <2>5, <2>8, ClusterAssumption
<1>4. hash[n] \in Nat
  <2>1. n \in 0 .. n
    OBVIOUS
  <2> QED
    BY <1>3, <2>1
<1> QED
  BY <1>1, <1>4 DEF hash

USE ClusterAssumption DEF Peers, Servers

\* The indexer names one of the servers.
LEMMA HomeIsServer == ASSUME NEW k \in Keys PROVE Home(k) \in Servers
<1> DEFINE h == HashKey(KeyBytes[k])
<1>1. h \in Nat
  BY HashIsNumber
<1> HIDE DEF h
<1>2. h % INT \in Nat /\ num_servers \in Nat \ {0}
  BY <1>1
<1>3. (h % INT) % num_servers \in 0 .. num_servers - 1
  BY <1>2
<1> QED
  BY <1>3 DEF h, Home, SelectedServer

\* The initial state satisfies the invariant.
LEMMA InitInv == Init => IInv
<1> SUFFICES ASSUME Init PROVE IInv
  OBVIOUS
<1>1. TypeOK
  BY DEF Init, TypeOK, Addresses, Calls, NoCache
<1> QED
  BY <1>1 DEF Init, IInv, CallKnown, SelectedHome, Mailboxes, IndexerMail,
       ServerMail, KeyAtHome, CacheAtHome, NoCache

(***************************************************************************)
(* Steps of the client alone                                               *)
(***************************************************************************)

\* Between requests the mail says nothing of the call.
LEMMA QuietStep ==
  ASSUME IInv, pc \notin {"locate", "rndv_set", "get"},
         UNCHANGED <<inbox, reply, entries>>, cache' \in {cache, NoCache}
  PROVE  Mailboxes' /\ IndexerMail' /\ ServerMail' /\ KeyAtHome' /\ CacheAtHome'
<1>1. IndexerMail' /\ Mailboxes'
  BY DEF IInv, IndexerMail, Mailboxes
<1>2. ServerMail'
  BY DEF IInv, ServerMail, Request
<1>3. KeyAtHome'
  BY DEF IInv, KeyAtHome, Home
<1>4. CacheAtHome'
  BY DEF IInv, CacheAtHome, SetPending, Home, NoCache
<1> QED
  BY <1>1, <1>2, <1>3, <1>4

\* A call has a key, and a set a value.
LEMMA CallFields ==
  ASSUME call \in Calls
  PROVE  /\ call.key \in Keys /\ call.name \in {"set", "get"}
         /\ call.name = "set" => call.value \in Values
BY DEF Calls

LEMMA OpenCloseInv ==
  ASSUME IInv, OpenPeer \/ OpenFails \/ CloseBegins \/ FindFails \/ Return
               \/ SetCached \/ GetCached
  PROVE  IInv'
<1>1. Mailboxes' /\ IndexerMail' /\ ServerMail' /\ KeyAtHome' /\ CacheAtHome'
  BY QuietStep DEF OpenPeer, OpenFails, CloseBegins, FindFails, Return,
       SetCached, GetCached, Calling, peerVars, storeVars
<1>2. TypeOK'
  <2>1. CASE OpenPeer
    <3>1. Target \in Peers
      BY DEF Target, IInv, TypeOK
    <3>2. count # num_servers => count + 1 \in 0 .. num_servers
      BY DEF IInv, TypeOK
    <3> QED
      BY <2>1, <3>1, <3>2 DEF IInv, TypeOK, OpenPeer, storeVars
  <2>2. CASE Return
    BY <2>2 DEF IInv, TypeOK, Return, peerVars, storeVars
  <2>3. CASE OpenFails \/ CloseBegins \/ FindFails \/ SetCached \/ GetCached
    <3>1. /\ pc' \in {"aborted", "close", "write", "read"}
          /\ UNCHANGED <<count, call, answer, conns, selected, cache, peer, entries, memory, drifted>>
      BY <2>3 DEF OpenFails, CloseBegins, FindFails, SetCached, GetCached,
         peerVars, storeVars
    <3> QED
      BY <3>1 DEF IInv, TypeOK
  <2> QED
    BY <2>1, <2>2, <2>3
<1>3. CallKnown' /\ SelectedHome'
  BY DEF IInv, CallKnown, SelectedHome, OpenPeer, OpenFails, CloseBegins,
     FindFails, Return,
       SetCached, GetCached, Calling, Home, TypeOK
<1> QED
  BY <1>1, <1>2, <1>3 DEF IInv

LEMMA BeginInv == ASSUME IInv, NEW c \in Calls, Begin(c) PROVE IInv'
<1> USE DEF IInv, Begin
<1>1. Mailboxes' /\ IndexerMail' /\ ServerMail' /\ KeyAtHome' /\ CacheAtHome'
  BY QuietStep DEF peerVars, storeVars
<1>2. TypeOK'
  BY DEF TypeOK, peerVars, storeVars
<1>3. CallKnown' /\ SelectedHome'
  BY DEF CallKnown, SelectedHome
<1> QED
  BY <1>1, <1>2, <1>3

LEMMA WriteInv == ASSUME IInv, Write PROVE IInv'
<1> USE DEF IInv, Write
<1>1. Mailboxes' /\ IndexerMail' /\ ServerMail' /\ KeyAtHome' /\ CacheAtHome'
  BY QuietStep DEF peerVars
<1>2. call \in Calls /\ call.name = "set"
  BY DEF CallKnown
<1>3. call.value \in Values
  BY <1>2, CallFields
<1>4. memory' \in [Servers -> [Blocks -> Values \cup {Zero}]]
  <2>1. memory \in [Servers -> [Blocks -> Values \cup {Zero}]]
    BY DEF TypeOK
  <2>2. memory' = [memory EXCEPT ![selected][cache.block] = call.value]
    OBVIOUS
  <2> HIDE DEF IInv, Write
  <2> QED
    BY <1>3, <2>1, <2>2
<1>5. TypeOK'
  BY <1>4 DEF TypeOK, peerVars
<1>6. CallKnown' /\ SelectedHome'
  BY DEF CallKnown, SelectedHome
<1> QED
  BY <1>1, <1>5, <1>6

LEMMA ReadInv == ASSUME IInv, Read PROVE IInv'
<1> USE DEF IInv, Read
<1>1. Mailboxes' /\ IndexerMail' /\ ServerMail' /\ KeyAtHome' /\ CacheAtHome'
  BY QuietStep DEF peerVars, storeVars
<1>2. selected \in Servers /\ cache.server = selected
  <2>1. call.key \in Keys
    BY CallFields DEF CallKnown
  <2> QED
    BY <2>1, HomeIsServer DEF SelectedHome, RightServer
<1>3. cache.block \in Blocks
  <2>1. cache \in [key : Keys, server : Servers, block : Blocks] \cup {NoCache}
    BY DEF TypeOK, Addresses
  <2>2. cache # NoCache
    BY <1>2 DEF NoCache
  <2> QED
    BY <2>1, <2>2
<1>4. memory[selected][cache.block] \in Values \cup {Zero}
  BY <1>2, <1>3 DEF TypeOK
<1>5. TypeOK'
  BY <1>4 DEF TypeOK, peerVars, storeVars
<1>6. CallKnown' /\ SelectedHome'
  BY DEF CallKnown, SelectedHome
<1> QED
  BY <1>1, <1>5, <1>6

LEMMA ServerCallFailsInv == ASSUME IInv, ServerCallFails PROVE IInv'
<1>1. /\ pc \in {"located", "write", "read"} /\ pc' \in {"aborted", "return"}
      /\ answer' \in {Zero, answer} /\ conns' \subseteq conns
      /\ cache' \in {cache, NoCache}
      /\ UNCHANGED <<count, call, selected, peerVars, storeVars>>
  BY DEF ServerCallFails, Forgotten
<1>2. Mailboxes' /\ IndexerMail' /\ ServerMail' /\ KeyAtHome' /\ CacheAtHome'
  BY <1>1, QuietStep DEF peerVars, storeVars
<1>3. TypeOK'
  BY <1>1 DEF IInv, TypeOK, Addresses, peerVars, storeVars
<1>4. CallKnown' /\ SelectedHome'
  BY <1>1 DEF IInv, CallKnown, SelectedHome
<1> QED
  BY <1>2, <1>3, <1>4 DEF IInv

(***************************************************************************)
(* Requests                                                                *)
(***************************************************************************)

\* A request fills one empty buffer.
LEMMA SendFills ==
  ASSUME IInv, NEW p \in Peers, NEW packet, Send(p, packet)
  PROVE  /\ inbox[p] = NULL /\ inbox'[p] = packet /\ UNCHANGED <<peer, reply>>
         /\ \A q \in Peers \ {p} : inbox'[q] = inbox[q]
         /\ Mailboxes'
<1>1. inbox = [q \in Peers |-> inbox[q]] /\ reply = [q \in Peers |-> reply[q]]
  BY DEF IInv, Mailboxes
<1>2. inbox[p] = NULL /\ inbox' = [inbox EXCEPT ![p] = packet] /\ UNCHANGED <<peer, reply>>
  BY DEF Send
<1>3. inbox'[p] = packet /\ \A q \in Peers \ {p} : inbox'[q] = inbox[q]
  BY <1>1, <1>2
<1>4. inbox' = [q \in Peers |-> inbox'[q]]
  BY <1>1, <1>2
<1>5. reply' = [q \in Peers |-> reply'[q]]
  BY <1>1, <1>2
<1> QED
  BY <1>2, <1>3, <1>4, <1>5, Zenon DEF Mailboxes

\* A call in progress knows a server, which is the key's home.
LEMMA CallAtHome ==
  ASSUME IInv, pc \in {"located", "rndv_set", "write", "get", "read"}
  PROVE  /\ call \in Calls /\ call.key \in Keys
         /\ selected = Home(call.key) /\ selected \in Servers
<1>1. call \in Calls /\ selected = Home(call.key)
  BY DEF IInv, CallKnown, SelectedHome
<1> QED
  BY <1>1, CallFields, HomeIsServer

\* The cache is good as long as no small set is sent for its key.
LEMMA CacheKept ==
  ASSUME IInv, UNCHANGED <<entries, cache>>,
         \A s \in Servers : \/ inbox'[s] = inbox[s] \/ inbox'[s] = NULL
                            \/ inbox'[s].type # "EAGER_SET_REQUEST"
                            \/ inbox'[s].key # cache.key
  PROVE  KeyAtHome' /\ CacheAtHome'
<1>1. KeyAtHome'
  BY DEF IInv, KeyAtHome, Home
<1>2. CacheAtHome'
  <2> SUFFICES ASSUME cache.key # NULL
               PROVE  /\ cache.server = Home(cache.key)
                      /\ entries[cache.server][cache.key] = cache.block
                      /\ ~SetPending(cache.key)'
    BY DEF CacheAtHome, Home
  <2>1. cache.key \in Keys
    BY DEF IInv, TypeOK, Addresses, NoCache
  <2>2. Home(cache.key) \in Servers
    BY <2>1, HomeIsServer
  <2> DEFINE h == Home(cache.key)
  <2>3. SetPending(cache.key)' <=> inbox'[h] # NULL /\ inbox'[h].type = "EAGER_SET_REQUEST"
                                   /\ inbox'[h].key = cache.key
    BY DEF SetPending, Home
  <2>4. SetPending(cache.key) <=> inbox[h] # NULL /\ inbox[h].type = "EAGER_SET_REQUEST"
                                  /\ inbox[h].key = cache.key
    BY DEF SetPending
  <2> QED
    BY <2>2, <2>3, <2>4 DEF IInv, CacheAtHome
<1> QED
  BY <1>1, <1>2

\* The indexer is asked about the key of the call.
LEMMA FindSentInv == ASSUME IInv, FindSent PROVE IInv'
<1> DEFINE packet == FindPacket(call)
<1>1. /\ pc = "find" /\ pc' = "locate" /\ Send(Indexer, packet)
      /\ UNCHANGED <<count, call, answer, conns, selected, cache, storeVars>>
  BY DEF FindSent
<1>2. call \in Calls /\ call.key \in Keys
  BY <1>1, CallFields DEF IInv, CallKnown
<1>3. packet \in Finds /\ packet.key = call.key
  BY <1>2 DEF FindPacket, Finds
<1>4. /\ inbox[Indexer] = NULL /\ inbox'[Indexer] = packet /\ UNCHANGED <<peer, reply>>
      /\ \A s \in Servers : inbox'[s] = inbox[s]
      /\ Mailboxes'
  <2>1. Indexer \in Peers /\ \A s \in Servers : s \in Peers \ {Indexer}
    OBVIOUS
  <2> QED
    BY <1>1, <2>1, SendFills
<1> HIDE DEF packet
<1> USE DEF IInv, storeVars
<1>5. TypeOK'
  BY <1>1, <1>4 DEF TypeOK
<1>6. CallKnown' /\ SelectedHome'
  BY <1>1, <1>2 DEF CallKnown, SelectedHome
<1>7. IndexerMail'
  BY <1>1, <1>3, <1>4 DEF IndexerMail
<1>8. ServerMail'
  BY <1>1, <1>4 DEF ServerMail, Request
<1>9. KeyAtHome' /\ CacheAtHome'
  BY <1>1, <1>4, CacheKept
<1> QED
  BY <1>4, <1>5, <1>6, <1>7, <1>8, <1>9

\* What is true of a request that goes to the key's home.
LEMMA ServerSendInv ==
  ASSUME IInv, NEW packet, Send(selected, packet), pc = "located",
         \/ packet \in SmallSets /\ packet.key = call.key /\ pc' = "return"
         \/ /\ packet \in Questions /\ packet.key = call.key
            /\ pc' = IF packet.type = "EAGER_GET_REQUEST" THEN "get" ELSE "rndv_set"
            /\ pc' = "get" => call.name = "get"
            /\ pc' = "rndv_set" => call.name = "set",
         UNCHANGED <<count, call, answer, conns, selected, storeVars>>
  PROVE  /\ CallKnown' /\ SelectedHome' /\ Mailboxes' /\ IndexerMail' /\ ServerMail'
         /\ inbox'[selected] = packet /\ UNCHANGED peer
         /\ \A s \in Servers \ {selected} : inbox'[s] = inbox[s]
<1>1. call \in Calls /\ call.key \in Keys /\ selected = Home(call.key) /\ selected \in Servers
  BY CallAtHome
<1>2. /\ inbox[selected] = NULL /\ inbox'[selected] = packet /\ UNCHANGED <<peer, reply>>
      /\ \A q \in Peers \ {selected} : inbox'[q] = inbox[q]
      /\ Mailboxes'
  BY <1>1, SendFills
<1>3. inbox'[Indexer] = inbox[Indexer] /\ \A s \in Servers \ {selected} : inbox'[s] = inbox[s]
  BY <1>1, <1>2
<1> USE DEF IInv
<1>4. CallKnown' /\ SelectedHome'
  BY <1>1 DEF CallKnown, SelectedHome, Questions, SmallSets, Home
<1>5. IndexerMail'
  BY <1>2, <1>3 DEF IndexerMail
<1>6. ServerMail'
  <2>1. reply[selected] = NULL /\ \A s \in Servers : reply[s] = NULL
    BY <1>1 DEF ServerMail
  <2>2. Request(selected, packet)'
    BY <1>1 DEF Request, Home
  <2>3. \A s \in Servers : inbox[s] # NULL =>
          inbox[s] \in Closing \/ (inbox[s] \in SmallSets /\ Home(inbox[s].key) = s)
    BY DEF ServerMail, Request
  <2>4. ASSUME NEW s \in Servers, inbox'[s] # NULL PROVE Request(s, inbox[s])'
    <3>1. CASE s = selected
      BY <1>2, <2>2, <3>1
    <3>2. CASE s # selected
      BY <1>3, <2>3, <2>4, <3>2 DEF Request, Home
    <3> QED
      BY <3>1, <3>2
  <2> QED
    BY <1>2, <2>1, <2>4 DEF ServerMail
<1> QED
  BY <1>2, <1>3, <1>4, <1>5, <1>6

\* A small set for another key than the cached one.
LEMMA SetEagerInv == ASSUME IInv, SetEager PROVE IInv'
<1> DEFINE packet == [type |-> "EAGER_SET_REQUEST", key |-> call.key, value |-> call.value]
<1>1. /\ pc = "located" /\ pc' = "return" /\ call.name = "set" /\ Send(selected, packet)
      /\ cache' = Forgotten(call.key)
      /\ UNCHANGED <<count, call, answer, conns, selected, storeVars>>
  BY DEF SetEager, Calling
<1>2. /\ call \in Calls /\ call.key \in Keys /\ selected = Home(call.key)
      /\ selected \in Servers /\ call.value \in Values
  BY <1>1, CallAtHome, CallFields
<1>3. packet \in SmallSets /\ packet.key = call.key
  BY <1>2 DEF SmallSets
<1> HIDE DEF packet
<1>4. /\ CallKnown' /\ SelectedHome' /\ Mailboxes' /\ IndexerMail' /\ ServerMail'
      /\ inbox'[selected] = packet /\ UNCHANGED peer
      /\ \A s \in Servers \ {selected} : inbox'[s] = inbox[s]
  BY <1>1, <1>3, ServerSendInv
<1> USE DEF IInv, storeVars
<1>5. cache' \in {cache, NoCache} /\ (cache'.key = NULL \/ (cache' = cache /\ cache.key # call.key))
  BY <1>1 DEF Forgotten, NoCache
<1>6. TypeOK'
  BY <1>1, <1>4, <1>5 DEF TypeOK, Addresses
<1>7. CASE cache' = cache /\ cache.key # call.key
  BY <1>1, <1>3, <1>4, <1>6, <1>7, CacheKept
<1>8. CASE cache'.key = NULL
  <2>1. KeyAtHome' /\ CacheAtHome'
    BY <1>1, <1>8 DEF KeyAtHome, CacheAtHome, Home
  <2> QED
    BY <1>4, <1>6, <2>1
<1> QED
  BY <1>5, <1>7, <1>8

\* A question about a key.
LEMMA QuestionInv ==
  ASSUME IInv, SetRendezvous \/ GetRequest PROVE IInv'
<1> DEFINE rndv == [type |-> "RENDEZVOUS_SET_REQUEST", key |-> call.key]
           get == [type |-> "EAGER_GET_REQUEST", key |-> call.key]
<1>1. /\ pc = "located" /\ UNCHANGED <<count, call, answer, conns, selected, cache, storeVars>>
      /\ \/ pc' = "rndv_set" /\ call.name = "set" /\ Send(selected, rndv)
         \/ pc' = "get" /\ call.name = "get" /\ Send(selected, get)
  BY DEF SetRendezvous, GetRequest, Calling
<1>2. call \in Calls /\ call.key \in Keys
  BY <1>1, CallAtHome
<1>3. PICK packet \in Questions :
        /\ packet.key = call.key /\ Send(selected, packet)
        /\ pc' = IF packet.type = "EAGER_GET_REQUEST" THEN "get" ELSE "rndv_set"
        /\ pc' = "get" => call.name = "get"
        /\ pc' = "rndv_set" => call.name = "set"
  <2>1. rndv \in Questions /\ get \in Questions
    BY <1>2 DEF Questions
  <2> QED
    BY <1>1, <2>1
<1> HIDE DEF rndv, get
<1>4. /\ CallKnown' /\ SelectedHome' /\ Mailboxes' /\ IndexerMail' /\ ServerMail'
      /\ inbox'[selected] = packet /\ UNCHANGED peer
      /\ \A s \in Servers \ {selected} : inbox'[s] = inbox[s]
  BY <1>1, <1>3, ServerSendInv
<1> USE DEF IInv, storeVars
<1>5. TypeOK'
  BY <1>1, <1>3, <1>4 DEF TypeOK
<1>6. packet.type # "EAGER_SET_REQUEST"
  BY <1>3 DEF Questions
<1> QED
  BY <1>1, <1>4, <1>5, <1>6, CacheKept

\* The last requests, at mkv_close.
LEMMA ClosePeerInv == ASSUME IInv, ClosePeer PROVE IInv'
<1> DEFINE packet == [type |-> "CLOSE_CONNECTION"]
<1>1. /\ pc = "close" /\ pc' \in {"close", "closed"}
      /\ UNCHANGED <<call, answer, selected, cache, peer, reply, storeVars>>
      /\ conns' \subseteq conns
      /\ inbox' = inbox \/ inbox' = [inbox EXCEPT ![Target] = packet]
      /\ count' = 0 \/ (count # num_servers /\ count' = count + 1)
  BY DEF ClosePeer, LastClosed
<1>2. packet \in Closing /\ packet.type # "EAGER_SET_REQUEST" /\ packet.type = "CLOSE_CONNECTION"
  BY DEF Closing
<1> HIDE DEF packet
<1> USE DEF IInv, storeVars
<1>3. count' \in 0 .. num_servers
  BY <1>1 DEF TypeOK
<1>4. TypeOK'
  BY <1>1, <1>3 DEF TypeOK
<1>5. \A p \in Peers : inbox'[p] \in {inbox[p], packet}
  BY <1>1 DEF Mailboxes
<1>6. Mailboxes' /\ CallKnown' /\ SelectedHome'
  BY <1>1 DEF Mailboxes, CallKnown, SelectedHome
<1>7. IndexerMail'
  <2>1. IndexerMail
    OBVIOUS
  <2>2. inbox'[Indexer] \in {inbox[Indexer], packet} /\ reply' = reply
    BY <1>1, <1>5 DEF Peers
  <2> HIDE DEF IInv
  <2> QED
    BY <1>1, <1>2, <2>1, <2>2 DEF IndexerMail
<1>8. ServerMail'
  <2>1. \A s \in Servers : reply[s] = NULL
    BY <1>1 DEF ServerMail
  <2>2. \A s \in Servers : inbox[s] # NULL =>
          inbox[s] \in Closing \/ (inbox[s] \in SmallSets /\ Home(inbox[s].key) = s)
    BY <1>1 DEF ServerMail, Request
  <2> QED
    BY <1>1, <1>2, <1>5, <2>1, <2>2 DEF ServerMail, Request, Home
<1>9. KeyAtHome' /\ CacheAtHome'
  BY <1>1, <1>2, <1>5, CacheKept
<1> QED
  BY <1>4, <1>6, <1>7, <1>8, <1>9

(***************************************************************************)
(* Answers                                                                 *)
(***************************************************************************)

\* The client reads the number of the key's home.
LEMMA LocationReceivedInv == ASSUME IInv, LocationReceived PROVE IInv'
<1>1. /\ pc = "locate" /\ pc' = "located" /\ reply[Indexer] # NULL
      /\ selected' = reply[Indexer].selected_server
      /\ reply' = [reply EXCEPT ![Indexer] = NULL]
      /\ UNCHANGED <<count, call, answer, conns, cache, storeVars, peer, inbox>>
  BY DEF LocationReceived, Take
<1>2. call \in Calls /\ call.key \in Keys /\ selected' = Home(call.key)
  BY <1>1, CallFields DEF IInv, CallKnown, IndexerMail
<1>3. selected' \in Servers
  BY <1>2, HomeIsServer
<1> USE DEF IInv, storeVars
<1>4. TypeOK'
  BY <1>1, <1>3 DEF TypeOK
<1>5. CallKnown' /\ SelectedHome'
  BY <1>1, <1>2 DEF CallKnown, SelectedHome, Home
<1>6. Mailboxes' /\ reply'[Indexer] = NULL /\ \A s \in Servers : reply'[s] = reply[s]
  BY <1>1 DEF Mailboxes
<1>7. IndexerMail'
  <2>1. inbox[Indexer] # NULL => inbox[Indexer] \in Closing
    BY <1>1 DEF IndexerMail
  <2> QED
    BY <1>1, <1>6, <2>1 DEF IndexerMail
<1>8. ServerMail'
  BY <1>1, <1>6 DEF ServerMail, Request, Home
<1>9. KeyAtHome' /\ CacheAtHome'
  BY <1>1, CacheKept
<1> QED
  BY <1>4, <1>5, <1>6, <1>7, <1>8, <1>9

\* The server's answer has been taken: its buffer is empty and none is on the
\* wire.
LEMMA AnswerTaken ==
  ASSUME IInv, pc \in {"rndv_set", "get"}, reply[selected] # NULL,
         Take(selected), pc' \in {"write", "read", "return"},
         pc' = "write" => pc = "rndv_set", pc' = "read" => pc = "get",
         UNCHANGED <<count, call, conns, selected, storeVars>>
  PROVE  /\ selected = Home(call.key) /\ selected \in Servers /\ call.key \in Keys
         /\ inbox[selected] = NULL /\ UNCHANGED <<peer, inbox>>
         /\ CallKnown' /\ SelectedHome' /\ Mailboxes' /\ IndexerMail' /\ ServerMail'
<1>1. call \in Calls /\ call.key \in Keys /\ selected = Home(call.key) /\ selected \in Servers
  BY CallAtHome
<1>2. reply' = [reply EXCEPT ![selected] = NULL] /\ UNCHANGED <<peer, inbox>>
  BY DEF Take
<1> USE DEF IInv, storeVars
<1>3. inbox[selected] = NULL
  BY <1>1 DEF ServerMail
<1>4. Mailboxes' /\ reply'[Indexer] = reply[Indexer]
  BY <1>1, <1>2 DEF Mailboxes
<1>5. \A s \in Servers : reply'[s] = NULL
  BY <1>1, <1>2 DEF Mailboxes, ServerMail
<1>6. CallKnown' /\ SelectedHome'
  BY <1>1 DEF CallKnown, SelectedHome, Home
<1>7. IndexerMail'
  BY <1>2, <1>4 DEF IndexerMail
<1>8. ServerMail'
  BY <1>2, <1>3, <1>5 DEF ServerMail, Request, Home
<1> QED
  BY <1>1, <1>2, <1>3, <1>4, <1>6, <1>7, <1>8

\* The address of a block goes into the cache.
LEMMA RememberInv ==
  ASSUME IInv, SetGotAddress \/ GetLarge PROVE IInv'
<1> DEFINE b == reply[selected].block
<1>1. /\ pc \in {"rndv_set", "get"} /\ reply[selected] # NULL
      /\ Take(selected) /\ cache' = [key |-> call.key, server |-> selected, block |-> b]
      /\ pc' \in {"write", "read"} /\ (pc' = "write" => pc = "rndv_set")
      /\ (pc' = "read" => pc = "get")
      /\ pc = "get" => reply[selected].type = "RENDEZVOUS_GET_RESPONSE"
      /\ UNCHANGED <<count, call, answer, conns, selected, storeVars>>
  BY DEF SetGotAddress, GetLarge, Remember
<1>2. /\ selected = Home(call.key) /\ selected \in Servers /\ call.key \in Keys
      /\ inbox[selected] = NULL /\ UNCHANGED <<peer, inbox>>
      /\ CallKnown' /\ SelectedHome' /\ Mailboxes' /\ IndexerMail' /\ ServerMail'
  BY <1>1, AnswerTaken
<1> USE DEF IInv
<1>3. reply[selected] \in AddressReplies
  BY <1>1, <1>2 DEF ServerMail, SmallReplies
<1>4. b \in Blocks /\ entries[selected][call.key] = b
  BY <1>1, <1>2, <1>3 DEF ServerMail, AddressReplies
<1> HIDE DEF b
<1>5. cache'.key = call.key /\ cache'.server = selected /\ cache'.block = b
      /\ cache' \in Addresses
  BY <1>1, <1>2, <1>4 DEF Addresses
<1>6. TypeOK'
  BY <1>1, <1>2, <1>5 DEF TypeOK, storeVars
<1>7. KeyAtHome'
  BY <1>1 DEF KeyAtHome, Home, storeVars
<1>8. CacheAtHome'
  BY <1>1, <1>2, <1>4, <1>5 DEF CacheAtHome, SetPending, Home, storeVars
<1> QED
  BY <1>2, <1>6, <1>7, <1>8

\* A small value is the answer.
LEMMA GetSmallInv == ASSUME IInv, GetSmall PROVE IInv'
<1>1. /\ pc = "get" /\ pc' = "return" /\ reply[selected] # NULL
      /\ reply[selected].type = "EAGER_GET_RESPONSE" /\ Take(selected)
      /\ answer' \in {Zero, Garbage, reply[selected].value}
      /\ reply[selected].value = NULL => answer' \in {Zero, Garbage}
      /\ UNCHANGED <<count, call, conns, selected, cache, storeVars>>
  BY DEF GetSmall
<1>2. /\ selected \in Servers /\ UNCHANGED <<peer, inbox>>
      /\ CallKnown' /\ SelectedHome' /\ Mailboxes' /\ IndexerMail' /\ ServerMail'
  BY <1>1, AnswerTaken
<1> USE DEF IInv, storeVars
<1>3. reply[selected] \in SmallReplies
  BY <1>1, <1>2 DEF ServerMail, AddressReplies
<1>4. reply[selected].value \in Values \cup {NULL}
  BY <1>3 DEF SmallReplies
<1>5. TypeOK'
  BY <1>1, <1>2, <1>4 DEF TypeOK
<1>6. KeyAtHome' /\ CacheAtHome'
  BY <1>1, <1>2, CacheKept
<1> QED
  BY <1>2, <1>5, <1>6

(***************************************************************************)
(* The peers                                                               *)
(***************************************************************************)

\* LOCATION is about the key of the call in progress.
LEMMA IndexerHandlesInv == ASSUME IInv, IndexerHandles PROVE IInv'
<1> DEFINE packet == inbox[Indexer]
           location == [type |-> "LOCATION",
                        selected_server |-> SelectedServer(packet.key, packet.num_of_servers)]
<1>1. /\ packet # NULL /\ inbox' = [inbox EXCEPT ![Indexer] = NULL]
      /\ \/ packet.type = "FIND" /\ reply' = [reply EXCEPT ![Indexer] = location] /\ peer' = peer
         \/ /\ packet.type = "CLOSE_CONNECTION" /\ reply' = reply
            /\ peer' = [peer EXCEPT ![Indexer] = "ended"]
      /\ UNCHANGED <<clientVars, storeVars>>
  BY DEF IndexerHandles
<1>2. packet.type = "FIND" => pc = "locate" /\ location.selected_server = Home(call.key)
  <2>1. packet.type = "FIND" => packet \in Finds /\ pc = "locate" /\ packet.key = call.key
    BY <1>1 DEF IInv, IndexerMail, Closing
  <2>2. packet \in Finds => packet.num_of_servers = num_servers
    BY DEF Finds
  <2> QED
    BY <2>1, <2>2 DEF Home
<1> HIDE DEF location
<1> USE DEF IInv, storeVars, clientVars
<1>3. TypeOK'
  BY <1>1 DEF TypeOK
<1>4. CallKnown' /\ SelectedHome'
  BY <1>1 DEF CallKnown, SelectedHome, Home
<1>5. /\ inbox'[Indexer] = NULL /\ reply'[Indexer] \in {reply[Indexer], location}
      /\ \A s \in Servers : inbox'[s] = inbox[s] /\ reply'[s] = reply[s]
      /\ Mailboxes'
  <2>1. inbox'[Indexer] = NULL /\ \A s \in Servers : inbox'[s] = inbox[s]
    BY <1>1 DEF Mailboxes
  <2>2. /\ reply'[Indexer] \in {reply[Indexer], location}
        /\ \A s \in Servers : reply'[s] = reply[s]
    BY <1>1 DEF Mailboxes
  <2>3. inbox' = [p \in Peers |-> inbox'[p]]
    BY <1>1, UpdateOnDomain, Zenon DEF Mailboxes
  <2>4. reply' = reply \/ reply' = [reply EXCEPT ![Indexer] = location]
    BY <1>1
  <2>5. reply' = [p \in Peers |-> reply'[p]]
    BY <2>4, UpdateOnDomain, Zenon DEF Mailboxes
  <2> QED
    BY <2>1, <2>2, <2>3, <2>5 DEF Mailboxes
<1>6. IndexerMail'
  <2>1. CASE packet.type = "FIND"
    BY <1>1, <1>2, <1>5, <2>1 DEF IndexerMail, Mailboxes, Home
  <2>2. CASE reply' = reply
    BY <1>1, <1>5, <2>2 DEF IndexerMail, Home
  <2> QED
    BY <1>1, <2>1, <2>2
<1>7. ServerMail'
  BY <1>1, <1>5 DEF ServerMail, Request, Home
<1>8. KeyAtHome' /\ CacheAtHome'
  BY <1>1, <1>5, CacheKept
<1> QED
  BY <1>3, <1>4, <1>5, <1>6, <1>7, <1>8

\* What a server's handler leaves alone.
LEMMA HandlerKeeps ==
  ASSUME IInv, NEW s \in Servers, inbox[s] # NULL, inbox' = [inbox EXCEPT ![s] = NULL],
         reply' = reply \/ (\E r : reply' = [reply EXCEPT ![s] = r]),
         UNCHANGED clientVars
  PROVE  /\ CallKnown' /\ SelectedHome' /\ Mailboxes' /\ IndexerMail'
         /\ inbox'[s] = NULL /\ Request(s, inbox[s])
         /\ \A t \in Servers \ {s} : inbox'[t] = inbox[t] /\ reply'[t] = reply[t]
<1> USE DEF IInv, clientVars
<1>1. CallKnown' /\ SelectedHome'
  BY DEF CallKnown, SelectedHome, Home
<1>2. /\ Mailboxes' /\ inbox'[Indexer] = inbox[Indexer] /\ reply'[Indexer] = reply[Indexer]
      /\ inbox'[s] = NULL
      /\ \A t \in Servers \ {s} : inbox'[t] = inbox[t] /\ reply'[t] = reply[t]
  <2>1. /\ inbox'[s] = NULL /\ \A t \in Peers \ {s} : inbox'[t] = inbox[t]
        /\ inbox' = [p \in Peers |-> inbox'[p]]
    BY DEF Mailboxes
  <2>2. /\ \A t \in Peers \ {s} : reply'[t] = reply[t]
        /\ reply' = [p \in Peers |-> reply'[p]]
    <3>1. CASE reply' = reply
      BY <3>1 DEF Mailboxes
    <3>2. CASE \E r : reply' = [reply EXCEPT ![s] = r]
      BY <3>2 DEF Mailboxes
    <3> QED
      BY <3>1, <3>2
  <2>3. Indexer \in Peers \ {s}
    OBVIOUS
  <2> QED
    BY <2>1, <2>2, <2>3 DEF Mailboxes
<1>3. IndexerMail'
  BY <1>2 DEF IndexerMail, Home
<1>4. Request(s, inbox[s])
  BY DEF ServerMail
<1> QED
  BY <1>1, <1>2, <1>3, <1>4

LEMMA EagerSetInv ==
  ASSUME IInv, NEW s \in Servers, ServerHandles(s),
         inbox[s].type = "EAGER_SET_REQUEST", HandleEagerSet(s, inbox[s].key, inbox[s].value)
  PROVE  IInv'
<1> DEFINE key == inbox[s].key
           value == inbox[s].value
<1>1. /\ inbox[s] # NULL /\ inbox' = [inbox EXCEPT ![s] = NULL]
      /\ UNCHANGED <<clientVars, reply>>
      /\ entries' = [entries EXCEPT ![s][key] = value]
      /\ memory' = IF IsBlock(entries[s][key])
                   THEN [memory EXCEPT ![s][entries[s][key]] = Zero] ELSE memory
      /\ drifted' \subseteq drifted \cup {s}
      /\ peer' = peer \/ peer' = [peer EXCEPT ![s] = "looping"]
  BY DEF ServerHandles, HandleEagerSet, Reclaim
<1>2. /\ CallKnown' /\ SelectedHome' /\ Mailboxes' /\ IndexerMail'
      /\ inbox'[s] = NULL /\ Request(s, inbox[s])
      /\ \A t \in Servers \ {s} : inbox'[t] = inbox[t] /\ reply'[t] = reply[t]
  BY <1>1, HandlerKeeps
<1>3. key \in Keys /\ value \in Values /\ Home(key) = s
  BY <1>2 DEF Request, Closing, SmallSets, Questions
<1>4. SetPending(key)
  BY <1>1, <1>3 DEF SetPending
<1> HIDE DEF key, value
<1> USE DEF IInv, clientVars
<1>5. \A t \in Servers : \A k \in Keys :
        entries'[t][k] = IF t = s /\ k = key THEN value ELSE entries[t][k]
  BY <1>1, <1>3 DEF TypeOK
<1>6. TypeOK'
  <2>1. entries' \in [Servers -> [Keys -> Values \cup Blocks \cup {NULL}]]
    BY <1>1, <1>3 DEF TypeOK
  <2>2. memory' \in [Servers -> [Blocks -> Values \cup {Zero}]]
    BY <1>1, <1>3 DEF TypeOK, IsBlock
  <2>3. peer' \in [Peers -> {"waiting", "serving", "looping", "ended", "dead"}]
    <3>1. peer \in [Peers -> {"waiting", "serving", "looping", "ended", "dead"}]
      BY DEF TypeOK
    <3>2. peer' = peer \/ peer' = [peer EXCEPT ![s] = "looping"]
      BY <1>1
    <3>3. [peer EXCEPT ![s] = "looping"]
            \in [Peers -> {"waiting", "serving", "looping", "ended", "dead"}]
      BY <3>1, UpdateKeeps, Zenon
    <3> QED
      BY <3>1, <3>2, <3>3, Zenon
  <2>4. drifted' \subseteq Servers
    BY <1>1 DEF TypeOK
  <2> QED
    BY <1>1, <2>1, <2>2, <2>3, <2>4 DEF TypeOK
<1>7. ServerMail'
  <2>1. \A t \in Servers : reply[t] # NULL => t # s /\ call.key \in Keys
    BY <1>1, CallAtHome DEF ServerMail
  <2> QED
    BY <1>1, <1>2, <1>5, <2>1 DEF ServerMail, Request, Home
<1>8. KeyAtHome'
  BY <1>3, <1>5 DEF KeyAtHome, Home
<1>9. CacheAtHome'
  <2> SUFFICES ASSUME cache.key # NULL
               PROVE  /\ cache.server = Home(cache.key)
                      /\ entries'[cache.server][cache.key] = cache.block
                      /\ ~SetPending(cache.key)'
    BY <1>1 DEF CacheAtHome, Home
  <2>1. cache.key \in Keys /\ cache.key # key
    BY <1>4 DEF TypeOK, Addresses, NoCache, CacheAtHome
  <2>2. Home(cache.key) \in Servers
    BY <2>1, HomeIsServer
  <2>3. ~SetPending(cache.key)'
    BY <1>1, <1>2, <2>2 DEF SetPending, CacheAtHome, Home
  <2> QED
    BY <1>5, <2>1, <2>2, <2>3 DEF CacheAtHome
<1> QED
  BY <1>2, <1>6, <1>7, <1>8, <1>9

\* A block that is offered is one that no key of the server has.
LEMMA OfferedFree ==
  ASSUME NEW s \in Servers
  PROVE  Offered[FreeBlocks(s)] \subseteq FreeBlocks(s)
<1>1. FreeBlocks(s) \in SUBSET Blocks
  BY DEF FreeBlocks
<1> QED
  BY <1>1, ClusterAssumption

LEMMA RndvSetInv ==
  ASSUME IInv, NEW s \in Servers, ServerHandles(s),
         inbox[s].type = "RENDEZVOUS_SET_REQUEST", HandleRndvSet(s, inbox[s].key)
  PROVE  IInv'
<1> DEFINE key == inbox[s].key
<1>1. PICK b : /\ b \in IF IsBlock(entries[s][key]) THEN {entries[s][key]} ELSE FreeBlocks(s)
               /\ entries' = [entries EXCEPT ![s][key] = b]
               /\ reply' = [reply EXCEPT ![s] = [type |-> "RENDEZVOUS_SET_RESPONSE", block |-> b]]
               /\ UNCHANGED <<peer, memory, drifted>>
  BY OfferedFree DEF HandleRndvSet
<1>2. inbox[s] # NULL /\ inbox' = [inbox EXCEPT ![s] = NULL] /\ UNCHANGED clientVars
  BY DEF ServerHandles
<1>3. /\ CallKnown' /\ SelectedHome' /\ Mailboxes' /\ IndexerMail'
      /\ inbox'[s] = NULL /\ Request(s, inbox[s])
      /\ \A t \in Servers \ {s} : inbox'[t] = inbox[t] /\ reply'[t] = reply[t]
  <2>1. \E r : reply' = [reply EXCEPT ![s] = r]
    BY <1>1
  <2> QED
    BY <1>2, <2>1, HandlerKeeps
<1>4. key = call.key /\ s = selected /\ pc = "rndv_set"
  BY <1>3 DEF Request, Closing, SmallSets
<1>5. key \in Keys /\ Home(key) = s
  BY <1>4, CallAtHome
<1> HIDE DEF key
<1> USE DEF IInv, clientVars
<1>6. b \in Blocks
  BY <1>1 DEF IsBlock, FreeBlocks
<1>7. \A t \in Servers : \A k \in Keys :
        entries'[t][k] = IF t = s /\ k = key THEN b ELSE entries[t][k]
  <2>1. entries \in [Servers -> [Keys -> Values \cup Blocks \cup {NULL}]]
    BY DEF TypeOK
  <2> HIDE DEF IInv
  <2> QED
    BY <1>1, <1>5, <2>1
<1>8. TypeOK'
  <2>1. entries' \in [Servers -> [Keys -> Values \cup Blocks \cup {NULL}]]
    BY <1>1, <1>5, <1>6 DEF TypeOK
  <2> QED
    BY <1>1, <1>2, <2>1 DEF TypeOK
<1>9. reply'[s] = [type |-> "RENDEZVOUS_SET_RESPONSE", block |-> b]
  BY <1>1 DEF Mailboxes
<1>10. ServerMail'
  <2>1. reply'[s] \in AddressReplies /\ reply'[s].block = b
    BY <1>6, <1>9 DEF AddressReplies
  <2>2. entries'[s][call.key] = b
    BY <1>4, <1>5, <1>7
  <2>3. \A t \in Servers \ {s} : reply[t] = NULL
    BY <1>4 DEF ServerMail
  <2> QED
    BY <1>2, <1>3, <1>4, <2>1, <2>2, <2>3 DEF ServerMail, Request, Home
<1>11. KeyAtHome'
  BY <1>5, <1>7 DEF KeyAtHome, Home
<1>12. CacheAtHome'
  <2> SUFFICES ASSUME cache.key # NULL
               PROVE  /\ cache.server = Home(cache.key)
                      /\ entries'[cache.server][cache.key] = cache.block
                      /\ ~SetPending(cache.key)'
    BY <1>2 DEF CacheAtHome, Home
  <2>1. cache.key \in Keys /\ cache.block \in Blocks
    BY DEF TypeOK, Addresses, NoCache
  <2>2. Home(cache.key) \in Servers
    BY <2>1, HomeIsServer
  <2>3. ~SetPending(cache.key)'
    BY <1>2, <1>3, <2>2 DEF SetPending, CacheAtHome, Home
  <2>4. cache.key = key => b = cache.block
    BY <1>1, <1>5, <2>1 DEF CacheAtHome, IsBlock
  <2> QED
    BY <1>7, <2>1, <2>2, <2>3, <2>4 DEF CacheAtHome
<1> QED
  BY <1>3, <1>8, <1>10, <1>11, <1>12

\* A get, or the end in whatever way, changes nothing that is stored.
LEMMA GetCloseInv ==
  ASSUME IInv, NEW s \in Servers, ServerHandles(s), UNCHANGED storeVars,
         \/ inbox[s].type = "EAGER_GET_REQUEST" /\ HandleGet(s, inbox[s].key)
         \/ UNCHANGED reply /\ \E st \in {"ended", "dead"} : peer' = [peer EXCEPT ![s] = st]
  PROVE  IInv'
<1>1. /\ inbox[s] # NULL /\ inbox' = [inbox EXCEPT ![s] = NULL] /\ UNCHANGED clientVars
      /\ \E r : reply' = reply \/ reply' = [reply EXCEPT ![s] = r]
  BY DEF ServerHandles, HandleGet
<1>2. /\ CallKnown' /\ SelectedHome' /\ Mailboxes' /\ IndexerMail'
      /\ inbox'[s] = NULL /\ Request(s, inbox[s])
      /\ \A t \in Servers \ {s} : inbox'[t] = inbox[t] /\ reply'[t] = reply[t]
  BY <1>1, HandlerKeeps
<1> USE DEF IInv, clientVars, storeVars
<1>3. KeyAtHome' /\ CacheAtHome'
  BY <1>1, <1>2, CacheKept
<1>4. CASE reply' = reply /\ \E st \in {"ended", "dead"} : peer' = [peer EXCEPT ![s] = st]
  <2>1. TypeOK'
    BY <1>1, <1>4 DEF TypeOK
  <2>2. ServerMail'
    BY <1>1, <1>2, <1>4 DEF ServerMail, Request, Home
  <2> QED
    BY <1>2, <1>3, <2>1, <2>2
<1>5. CASE inbox[s].type = "EAGER_GET_REQUEST" /\ HandleGet(s, inbox[s].key)
  <2> DEFINE e == entries[s][inbox[s].key]
  <2>1. inbox[s].key = call.key /\ s = selected /\ pc = "get"
    BY <1>2, <1>5 DEF Request, Closing, SmallSets
  <2>2. call.key \in Keys
    BY <2>1, CallAtHome
  <2>3. peer' = peer /\ reply'[s] = IF IsBlock(e)
                                    THEN [type |-> "RENDEZVOUS_GET_RESPONSE", block |-> e]
                                    ELSE [type |-> "EAGER_GET_RESPONSE", value |-> e]
    BY <1>5 DEF HandleGet, Mailboxes
  <2>4. e \in Values \cup Blocks \cup {NULL} /\ e = entries[s][call.key]
    BY <2>1, <2>2 DEF TypeOK
  <2> HIDE DEF e
  <2>5. /\ reply'[s] \in AddressReplies \cup SmallReplies
        /\ reply'[s] \in AddressReplies => reply'[s].block = e
    BY <2>3, <2>4 DEF AddressReplies, SmallReplies, IsBlock
  <2>6. \A t \in Servers \ {s} : reply[t] = NULL
    BY <2>1 DEF ServerMail
  <2>7. ServerMail'
    BY <1>1, <1>2, <2>1, <2>4, <2>5, <2>6 DEF ServerMail, Request, Home
  <2>8. TypeOK'
    BY <1>1, <2>3 DEF TypeOK
  <2> QED
    BY <1>2, <1>3, <2>7, <2>8
<1> QED
  BY <1>4, <1>5

LEMMA PeerDiesInv == ASSUME IInv, NEW p \in Peers, PeerDies(p) PROVE IInv'
<1>1. /\ peer' = [peer EXCEPT ![p] = "dead"] /\ p \in Peers
      /\ UNCHANGED <<clientVars, inbox, reply, storeVars>>
  BY DEF PeerDies
<1> USE DEF IInv, clientVars, storeVars
<1>2. TypeOK'
  BY <1>1 DEF TypeOK
<1>3. CallKnown' /\ SelectedHome' /\ Mailboxes' /\ IndexerMail'
  BY <1>1 DEF CallKnown, SelectedHome, Mailboxes, IndexerMail, Home
<1>4. ServerMail'
  BY <1>1 DEF ServerMail, Request, Home
<1>5. KeyAtHome' /\ CacheAtHome'
  BY <1>1, CacheKept
<1> QED
  BY <1>2, <1>3, <1>4, <1>5

\* Every step keeps the invariant.
LEMMA StepInv == ASSUME IInv, [Next]_vars PROVE IInv'
<1>1. CASE ClientStep
  BY <1>1, OpenCloseInv, ClosePeerInv, FindSentInv, LocationReceivedInv,
     SetEagerInv,
     QuestionInv, RememberInv, WriteInv, GetSmallInv, ReadInv, ServerCallFailsInv
  DEF ClientStep
<1>2. ASSUME NEW s \in Servers, ServerHandles(s) PROVE IInv'
  <2>1. CASE inbox[s].type = "EAGER_SET_REQUEST" /\ HandleEagerSet(s, inbox[s].key, inbox[s].value)
    BY <1>2, <2>1, EagerSetInv
  <2>2. CASE inbox[s].type = "RENDEZVOUS_SET_REQUEST" /\ HandleRndvSet(s, inbox[s].key)
    BY <1>2, <2>2, RndvSetInv
  <2>3. CASE RndvSetCrashes(s, inbox[s].key)
    BY <1>2, <2>3, GetCloseInv DEF RndvSetCrashes
  <2>4. CASE inbox[s].type = "EAGER_GET_REQUEST" /\ HandleGet(s, inbox[s].key)
    BY <1>2, <2>4, GetCloseInv DEF HandleGet
  <2>5. CASE peer' = [peer EXCEPT ![s] = "ended"] /\ UNCHANGED <<reply, storeVars>>
    BY <1>2, <2>5, GetCloseInv
  <2> QED
    BY <1>2, <2>1, <2>2, <2>3, <2>4, <2>5 DEF ServerHandles
<1>3. ASSUME NEW p \in Peers, PeerStep(p) \/ PeerDies(p) PROVE IInv'
  BY <1>2, <1>3, IndexerHandlesInv, PeerDiesInv DEF PeerStep
<1>4. CASE UNCHANGED vars
  <2> USE <1>4 DEF vars, clientVars, peerVars, storeVars, IInv
  <2>1. TypeOK' /\ CallKnown' /\ SelectedHome' /\ Mailboxes' /\ IndexerMail'
    BY DEF TypeOK, CallKnown, SelectedHome, Mailboxes, IndexerMail, Home
  <2>2. ServerMail'
    BY DEF ServerMail, Request, Home
  <2>3. KeyAtHome' /\ CacheAtHome'
    BY CacheKept
  <2> QED
    BY <2>1, <2>2, <2>3
<1> QED
  BY <1>1, <1>3, <1>4, BeginInv, OpenCloseInv DEF Next

\* IInv is an invariant of the cluster.
THEOREM ClusterInvariant == Spec => []IInv
<1>1. IInv /\ [Next]_vars => IInv'
  BY StepInv
<1> QED
  BY <1>1, InitInv, PTL DEF Spec

\* The variables keep their types: every LOCATION the indexer answers names a
\* server there is, and a get returns a stored value, "" or an absent key's.
THEOREM ClusterTypeOK == Spec => []TypeOK
<1>1. IInv => TypeOK
  BY DEF IInv
<1> QED
  BY <1>1, ClusterInvariant, PTL

\* A key is stored on the server the indexer computes for it and on no other.
THEOREM ClusterKeyAtHome == Spec => []KeyAtHome
<1>1. IInv => KeyAtHome
  BY DEF IInv
<1> QED
  BY <1>1, ClusterInvariant, PTL

\* The client's one address cache names the home of its key and the block the
\* key has there, whichever servers it has talked to since.
THEOREM ClusterCacheAtHome == Spec => []CacheAtHome
<1>1. IInv => CacheAtHome
  BY DEF IInv
<1> QED
  BY <1>1, ClusterInvariant, PTL

(***************************************************************************)
(* The cluster implements one store                                        *)
(***************************************************************************)

\* No call is under way before the first and between two.
Resting == pc \in {"open", "idle"} => call = NULL

\* What is written or read by RDMA is the block of the call's key.
Addressed == pc \in {"write", "read"} => cache.key = call.key

\* No block of a server belongs to two keys.
OwnBlocks ==
  \A s \in Servers : \A k, j \in Keys :
    entries[s][k] \in Blocks /\ entries[s][k] = entries[s][j] => k = j

\* The small value in an answer is still the one of the key.
SmallAnswers ==
  \A s \in Servers : reply[s] # NULL /\ reply[s].type = "EAGER_GET_RESPONSE" =>
    reply[s].value = entries[s][call.key] /\ reply[s].value \notin Blocks

\* The request of a large set waits in the server's buffer, and nothing else.
Asking ==
  pc = "rndv_set" /\ inbox[selected] # NULL =>
    inbox[selected].type = "RENDEZVOUS_SET_REQUEST"

MInv == Resting /\ Addressed /\ OwnBlocks /\ SmallAnswers /\ Asking

\* What a client's step, or the indexer's, keeps.
LEMMA MailKeeps ==
  ASSUME IInv, MInv, UNCHANGED entries,
         \A s \in Servers : reply'[s] \in {reply[s], NULL},
         call' = call \/ pc \notin {"rndv_set", "get"},
         pc' \in {"open", "idle"} => call' = NULL,
         pc' \in {"write", "read"} => cache'.key = call'.key,
         pc' = "rndv_set" /\ inbox'[selected'] # NULL =>
           inbox'[selected'].type = "RENDEZVOUS_SET_REQUEST"
  PROVE  MInv'
<1>1. SmallAnswers'
  BY DEF MInv, SmallAnswers, IInv, ServerMail
<1>2. OwnBlocks'
  BY DEF MInv, OwnBlocks
<1> QED
  BY <1>1, <1>2 DEF MInv, Resting, Addressed, Asking

\* The client's steps keep what the cluster's mapping rests on.
LEMMA ClientStepRight == ASSUME IInv, MInv, ClientStep PROVE MInv'
<1> USE DEF MInv
<1>1. CASE OpenPeer \/ OpenFails \/ ClosePeer \/ FindFails \/ ServerCallFails \/ Return
  <2>1. UNCHANGED <<entries, reply>> /\ pc' \notin {"write", "read", "rndv_set"}
    BY <1>1 DEF OpenPeer, OpenFails, ClosePeer, FindFails, ServerCallFails, Return,
       peerVars, storeVars
  <2>2. pc \notin {"rndv_set", "get"}
    BY <1>1 DEF OpenPeer, OpenFails, ClosePeer, FindFails, ServerCallFails, Return
  <2>3. pc' \in {"open", "idle"} => call' = NULL
    BY <1>1 DEF OpenPeer, OpenFails, ClosePeer, FindFails, ServerCallFails,
       Return, Resting
  <2> QED
    BY <2>1, <2>2, <2>3, MailKeeps
<1>2. CASE FindSent \/ SetEager \/ GetRequest
  <2>1. UNCHANGED <<entries, reply, call>> /\ pc' \in {"locate", "return", "get"}
    BY <1>2 DEF FindSent, SetEager, GetRequest, Send, storeVars
  <2> QED
    BY <2>1, MailKeeps
<1>3. CASE SetRendezvous
  <2>1. /\ pc = "located" /\ pc' = "rndv_set" /\ UNCHANGED <<entries, reply, call, selected>>
        /\ inbox' = [inbox EXCEPT ![selected] =
                       [type |-> "RENDEZVOUS_SET_REQUEST", key |-> call.key]]
    BY <1>3 DEF SetRendezvous, Calling, Send, storeVars
  <2>2. selected \in Peers
    BY <2>1, CallAtHome
  <2>3. inbox'[selected] = [type |-> "RENDEZVOUS_SET_REQUEST", key |-> call.key]
    BY <2>1, <2>2 DEF IInv, Mailboxes
  <2> QED
    BY <2>1, <2>3, MailKeeps
<1>4. CASE SetCached \/ GetCached
  <2>1. /\ UNCHANGED <<entries, reply, call, cache>> /\ pc' \in {"write", "read"}
        /\ cache.key = call.key
    BY <1>4 DEF SetCached, GetCached, peerVars, storeVars
  <2> QED
    BY <2>1, MailKeeps
<1>5. CASE Write \/ Read
  <2>1. UNCHANGED <<entries, reply, call>> /\ pc' = "return"
    BY <1>5 DEF Write, Read, peerVars, storeVars
  <2> QED
    BY <2>1, MailKeeps
<1>6. CASE LocationReceived
  <2>1. /\ reply' = [reply EXCEPT ![Indexer] = NULL]
        /\ UNCHANGED <<entries, call>> /\ pc' = "located"
    BY <1>6 DEF LocationReceived, Take, storeVars
  <2>2. \A s \in Servers : reply'[s] = reply[s]
    BY <2>1 DEF IInv, Mailboxes
  <2> QED
    BY <2>1, <2>2, MailKeeps
<1>7. CASE SetGotAddress \/ GetLarge \/ GetSmall
  <2>1. /\ reply' = [reply EXCEPT ![selected] = NULL] /\ UNCHANGED <<entries, call>>
        /\ \/ pc' \in {"write", "read"} /\ cache'.key = call.key
           \/ pc' = "return"
    BY <1>7 DEF SetGotAddress, GetLarge, GetSmall, Take, Remember, storeVars
  <2>2. \A s \in Servers : reply'[s] \in {reply[s], NULL}
    BY <2>1 DEF IInv, Mailboxes
  <2> QED
    BY <2>1, <2>2, MailKeeps
<1> QED
  BY <1>1, <1>2, <1>3, <1>4, <1>5, <1>6, <1>7 DEF ClientStep

\* So do the beginning and the end, the indexer, and the death of a peer.
LEMMA OtherStepRight ==
  ASSUME IInv, MInv,
         \/ \E c \in Calls : Begin(c)
         \/ CloseBegins \/ IndexerHandles \/ (\E p \in Peers : PeerDies(p)) \/ UNCHANGED vars
  PROVE  MInv'
<1> USE DEF MInv
<1>1. CASE CloseBegins \/ \E c \in Calls : Begin(c)
  <2>1. UNCHANGED <<entries, reply>> /\ pc = "idle" /\ pc' \in {"find", "close"}
    BY <1>1 DEF CloseBegins, Begin, peerVars, storeVars
  <2> QED
    BY <2>1, MailKeeps
<1>2. CASE IndexerHandles
  <2>1. /\ \E r : reply' = reply \/ reply' = [reply EXCEPT ![Indexer] = r]
        /\ inbox' = [inbox EXCEPT ![Indexer] = NULL]
        /\ UNCHANGED <<entries, pc, call, cache, selected>>
    BY <1>2 DEF IndexerHandles, clientVars, storeVars
  <2>2. \A s \in Servers : reply'[s] = reply[s] /\ inbox'[s] = inbox[s]
    BY <2>1 DEF IInv, Mailboxes
  <2>3. pc = "rndv_set" => selected \in Servers
    BY CallAtHome
  <2> QED
    BY <2>1, <2>2, <2>3, MailKeeps DEF Resting, Addressed, Asking
<1>3. CASE UNCHANGED vars \/ \E p \in Peers : PeerDies(p)
  <2>1. UNCHANGED <<entries, reply, inbox, pc, call, cache, selected>>
    BY <1>3 DEF PeerDies, vars, clientVars, peerVars, storeVars
  <2> QED
    BY <2>1, MailKeeps DEF Resting, Addressed, Asking
<1> QED
  BY <1>1, <1>2, <1>3

\* What a handler finds in its buffer is for a key of its own; nobody else has
\* an answer on the wire from it.
LEMMA HandlerFinds ==
  ASSUME IInv, NEW s \in Servers, ServerHandles(s)
  PROVE  /\ inbox[s] # NULL /\ reply[s] = NULL /\ inbox'[s] = NULL
         /\ \A t \in Servers \ {s} : inbox'[t] = inbox[t] /\ reply'[t] = reply[t]
         /\ UNCHANGED clientVars
         /\ inbox[s].type = "EAGER_SET_REQUEST" =>
              inbox[s].key \in Keys /\ inbox[s].value \in Values /\ Home(inbox[s].key) = s
         /\ inbox[s].type \in {"RENDEZVOUS_SET_REQUEST", "EAGER_GET_REQUEST"} =>
              /\ inbox[s].key = call.key /\ s = selected /\ call.key \in Keys
              /\ Home(call.key) = s
              /\ pc = IF inbox[s].type = "EAGER_GET_REQUEST" THEN "get" ELSE "rndv_set"
<1>1. inbox[s] # NULL /\ inbox' = [inbox EXCEPT ![s] = NULL] /\ UNCHANGED clientVars
  BY DEF ServerHandles
<1>2. reply' = reply \/ \E r : reply' = [reply EXCEPT ![s] = r]
  BY DEF ServerHandles, HandleEagerSet, HandleRndvSet, HandleGet, RndvSetCrashes
<1>3. /\ inbox'[s] = NULL /\ Request(s, inbox[s])
      /\ \A t \in Servers \ {s} : inbox'[t] = inbox[t] /\ reply'[t] = reply[t]
  BY <1>1, <1>2, HandlerKeeps
<1>4. reply[s] = NULL
  BY <1>1 DEF IInv, ServerMail
<1>5. inbox[s].type = "EAGER_SET_REQUEST" => inbox[s] \in SmallSets /\ Home(inbox[s].key) = s
  BY <1>3 DEF Request, Closing, Questions
<1>6. inbox[s].type \in {"RENDEZVOUS_SET_REQUEST", "EAGER_GET_REQUEST"} =>
        /\ inbox[s].key = call.key /\ s = selected
        /\ pc = IF inbox[s].type = "EAGER_GET_REQUEST" THEN "get" ELSE "rndv_set"
  BY <1>3 DEF Request, Closing, SmallSets
<1>7. inbox[s] \in SmallSets => inbox[s].key \in Keys /\ inbox[s].value \in Values
  BY DEF SmallSets
<1> QED
  BY <1>1, <1>3, <1>4, <1>5, <1>6, <1>7, CallAtHome

\* A small value takes the entry.
LEMMA EagerSetStores ==
  ASSUME IInv, NEW s \in Servers, ServerHandles(s),
         HandleEagerSet(s, inbox[s].key, inbox[s].value), inbox[s].type = "EAGER_SET_REQUEST"
  PROVE  /\ \A t \in Servers : \A k \in Keys :
              entries'[t][k] = IF t = s /\ k = inbox[s].key THEN inbox[s].value
                               ELSE entries[t][k]
         /\ \A t \in Servers : \A b \in Blocks :
              memory'[t][b] = memory[t][b] \/ (t = s /\ b = entries[s][inbox[s].key])
         /\ UNCHANGED reply
<1> DEFINE key == inbox[s].key
           val == inbox[s].value
<1>1. key \in Keys
  BY HandlerFinds
<1>2. entries' = [entries EXCEPT ![s][key] = val] /\ UNCHANGED reply
  BY DEF HandleEagerSet
<1>3. memory' = IF IsBlock(entries[s][key])
                THEN [memory EXCEPT ![s][entries[s][key]] = Zero] ELSE memory
  BY DEF HandleEagerSet, Reclaim
<1> HIDE DEF key, val
<1>4. \A t \in Servers : \A k \in Keys :
        entries'[t][k] = IF t = s /\ k = key THEN val ELSE entries[t][k]
  BY <1>1, <1>2 DEF IInv, TypeOK
<1>5. \A t \in Servers : \A b \in Blocks :
        memory'[t][b] = memory[t][b] \/ (t = s /\ b = entries[s][key])
  BY <1>3 DEF IInv, TypeOK, IsBlock
<1> QED
  BY <1>2, <1>4, <1>5 DEF key, val

\* A large one is given a block that is its own.
LEMMA RndvSetStores ==
  ASSUME IInv, MInv, NEW s \in Servers, ServerHandles(s),
         HandleRndvSet(s, inbox[s].key), inbox[s].type = "RENDEZVOUS_SET_REQUEST"
  PROVE  \E b \in Blocks :
           /\ \A t \in Servers : \A k \in Keys :
                entries'[t][k] = IF t = s /\ k = call.key THEN b ELSE entries[t][k]
           /\ \A k \in Keys : entries[s][k] = b => k = call.key
           /\ reply'[s] = [type |-> "RENDEZVOUS_SET_RESPONSE", block |-> b]
           /\ UNCHANGED <<peer, memory>>
<1>1. inbox[s].key = call.key /\ call.key \in Keys
  BY HandlerFinds
<1>2. PICK b : /\ b \in IF IsBlock(entries[s][call.key]) THEN {entries[s][call.key]}
                        ELSE FreeBlocks(s)
               /\ entries' = [entries EXCEPT ![s][call.key] = b]
               /\ reply' = [reply EXCEPT ![s] = [type |-> "RENDEZVOUS_SET_RESPONSE", block |-> b]]
               /\ UNCHANGED <<peer, memory>>
  BY <1>1, OfferedFree DEF HandleRndvSet
<1>3. b \in Blocks
  BY <1>2 DEF IsBlock, FreeBlocks
<1>4. \A t \in Servers : \A k \in Keys :
        entries'[t][k] = IF t = s /\ k = call.key THEN b ELSE entries[t][k]
  BY <1>1, <1>2 DEF IInv, TypeOK
<1>5. \A k \in Keys : entries[s][k] = b => k = call.key
  BY <1>1, <1>2, <1>3 DEF IsBlock, FreeBlocks, MInv, OwnBlocks
<1>6. reply'[s] = [type |-> "RENDEZVOUS_SET_RESPONSE", block |-> b]
  BY <1>2 DEF IInv, Mailboxes
<1> QED
  BY <1>2, <1>3, <1>4, <1>5, <1>6

\* The handlers keep what the mapping rests on.
LEMMA ServerStepRight ==
  ASSUME IInv, MInv, NEW s \in Servers, ServerHandles(s) PROVE MInv'
<1>1. /\ inbox[s] # NULL /\ reply[s] = NULL /\ inbox'[s] = NULL
      /\ \A t \in Servers \ {s} : inbox'[t] = inbox[t] /\ reply'[t] = reply[t]
      /\ UNCHANGED <<pc, call, cache, selected>>
  BY HandlerFinds DEF clientVars
<1>2. Resting' /\ Addressed'
  BY <1>1 DEF MInv, Resting, Addressed
<1>3. Asking'
  <2>1. pc = "rndv_set" => selected \in Servers
    BY CallAtHome
  <2> QED
    BY <1>1, <2>1 DEF MInv, Asking
<1>4. CASE inbox[s].type = "EAGER_SET_REQUEST" /\ HandleEagerSet(s, inbox[s].key, inbox[s].value)
  <2>1. /\ \A t \in Servers : \A k \in Keys :
              entries'[t][k] = IF t = s /\ k = inbox[s].key THEN inbox[s].value
                               ELSE entries[t][k]
        /\ UNCHANGED reply /\ inbox[s].value \notin Blocks
    BY <1>4, EagerSetStores, HandlerFinds
  <2>2. OwnBlocks'
    BY <2>1 DEF MInv, OwnBlocks
  <2>3. \A t \in Servers : reply[t] # NULL => call.key \in Keys
    BY CallAtHome DEF IInv, ServerMail
  <2>4. SmallAnswers'
    BY <1>1, <2>1, <2>3 DEF MInv, SmallAnswers
  <2> QED
    BY <1>2, <1>3, <2>2, <2>4 DEF MInv
<1>5. CASE inbox[s].type = "RENDEZVOUS_SET_REQUEST" /\ HandleRndvSet(s, inbox[s].key)
  <2>1. PICK b \in Blocks :
           /\ \A t \in Servers : \A k \in Keys :
                entries'[t][k] = IF t = s /\ k = call.key THEN b ELSE entries[t][k]
           /\ \A k \in Keys : entries[s][k] = b => k = call.key
           /\ reply'[s] = [type |-> "RENDEZVOUS_SET_RESPONSE", block |-> b]
    BY <1>5, RndvSetStores
  <2>2. OwnBlocks'
    BY <2>1 DEF MInv, OwnBlocks
  <2>3. \A t \in Servers : reply[t] # NULL => call.key \in Keys
    BY CallAtHome DEF IInv, ServerMail
  <2>4. SmallAnswers'
    <3> SUFFICES ASSUME NEW t \in Servers, reply'[t] # NULL,
                        reply'[t].type = "EAGER_GET_RESPONSE"
                 PROVE  reply'[t].value = entries'[t][call.key] /\ reply'[t].value \notin Blocks
      BY <1>1 DEF SmallAnswers
    <3>1. t # s
      BY <2>1
    <3>2. reply'[t] = reply[t] /\ call.key \in Keys
      BY <1>1, <2>3, <3>1
    <3>3. entries'[t][call.key] = entries[t][call.key]
      BY <2>1, <3>1, <3>2
    <3> QED
      BY <3>2, <3>3 DEF MInv, SmallAnswers
  <2> QED
    BY <1>2, <1>3, <2>2, <2>4 DEF MInv
<1>6. CASE inbox[s].type = "EAGER_GET_REQUEST" /\ HandleGet(s, inbox[s].key)
  <2>1. /\ UNCHANGED entries /\ inbox[s].key = call.key
        /\ reply'[s] = IF IsBlock(entries[s][call.key])
                       THEN [type |-> "RENDEZVOUS_GET_RESPONSE", block |-> entries[s][call.key]]
                       ELSE [type |-> "EAGER_GET_RESPONSE", value |-> entries[s][call.key]]
    BY <1>6, HandlerFinds DEF HandleGet, storeVars, IInv, Mailboxes
  <2>2. OwnBlocks'
    BY <2>1 DEF MInv, OwnBlocks
  <2>3. SmallAnswers'
    BY <1>1, <2>1 DEF MInv, SmallAnswers, IsBlock
  <2> QED
    BY <1>2, <1>3, <2>2, <2>3 DEF MInv
<1>7. CASE UNCHANGED <<reply, storeVars>>
  <2>1. OwnBlocks' /\ SmallAnswers'
    BY <1>1, <1>7 DEF MInv, OwnBlocks, SmallAnswers, storeVars
  <2> QED
    BY <1>2, <1>3, <2>1 DEF MInv
<1> QED
  BY <1>4, <1>5, <1>6, <1>7 DEF ServerHandles, RndvSetCrashes

\* Every step keeps what the mapping rests on.
LEMMA MappingKept == ASSUME IInv, MInv, [Next]_vars PROVE MInv'
<1>1. ASSUME NEW p \in Peers, PeerStep(p) PROVE MInv'
  BY <1>1, OtherStepRight, ServerStepRight DEF PeerStep
<1> QED
  BY <1>1, ClientStepRight, OtherStepRight DEF Next

\* The first state is right.
LEMMA InitRight == Init => MInv
<1> SUFFICES ASSUME Init PROVE MInv
  OBVIOUS
<1> QED
  BY DEF Init, MInv, Resting, Addressed, OwnBlocks, SmallAnswers, Asking

\* Once a connection is lost, it stays lost.
LEMMA StaysLost == ASSUME IInv, ~Connected, [Next]_vars PROVE ~Connected'
<1>1. CASE pc \in {"close", "closed", "aborted"}
  <2>1. pc' \in {"close", "closed", "aborted"}
    BY <1>1 DEF Next, ClientStep, PeerStep, OpenPeer, OpenFails, ClosePeer,
       FindSent,
       FindFails, LocationReceived, SetEager, SetRendezvous, SetGotAddress, SetCached,
       Write, GetRequest, GetSmall, GetLarge, GetCached, Read, ServerCallFails, Return,
       Calling, CloseBegins, Begin, IndexerHandles, ServerHandles, PeerDies, clientVars, vars
  <2> QED
    BY <2>1 DEF Connected
<1>2. CASE \E p \in Peers : peer[p] = "dead"
  <2>1. PICK p \in Peers : peer[p] = "dead"
    BY <1>2
  <2>2. peer'[p] = "dead"
    <3>1. \/ UNCHANGED peer
          \/ \E q \in Peers : \E st : peer[q] # "dead" /\ peer' = [peer EXCEPT ![q] = st]
      <4>1. CASE ClientStep
        <5>1. Target \in Peers
          BY DEF Target, IInv, TypeOK
        <5> QED
          BY <4>1, <5>1 DEF ClientStep, OpenPeer, OpenFails, ClosePeer, FindSent,
             FindFails, LocationReceived, SetEager, SetRendezvous, SetGotAddress, SetCached,
             Write, GetRequest, GetSmall, GetLarge, GetCached, Read, ServerCallFails, Return,
             Send, Take, peerVars
      <4>2. CASE \E q \in Peers : PeerStep(q)
        <5>1. PICK q \in Peers : PeerStep(q)
          BY <4>2
        <5>2. peer[q] = "serving"
          BY <5>1 DEF PeerStep, IndexerHandles, ServerHandles
        <5>3. UNCHANGED peer \/ \E st : peer' = [peer EXCEPT ![q] = st]
          BY <5>1 DEF PeerStep, IndexerHandles, ServerHandles, HandleEagerSet,
             HandleRndvSet, HandleGet, Reclaim, RndvSetCrashes
        <5> QED
          BY <5>2, <5>3
      <4>3. CASE \E q \in Peers : PeerDies(q)
        BY <4>3 DEF PeerDies
      <4>4. CASE CloseBegins \/ (\E c \in Calls : Begin(c)) \/ UNCHANGED vars
        BY <4>4 DEF CloseBegins, Begin, peerVars, vars
      <4> QED
        BY <4>1, <4>2, <4>3, <4>4 DEF Next
    <3> QED
      BY <2>1, <3>1 DEF IInv, TypeOK
  <2> QED
    BY <2>2 DEF Connected
<1>3. CASE pc # "open" /\ \E p \in Peers : p \notin conns
  <2>1. pc' # "open" /\ conns' \subseteq conns
    BY <1>3 DEF Next, ClientStep, PeerStep, OpenPeer, OpenFails, ClosePeer,
       FindSent,
       FindFails, LocationReceived, SetEager, SetRendezvous, SetGotAddress, SetCached,
       Write, GetRequest, GetSmall, GetLarge, GetCached, Read, ServerCallFails, Return,
       Calling, CloseBegins, Begin, IndexerHandles, ServerHandles, PeerDies, clientVars, vars
  <2> QED
    BY <1>3, <2>1 DEF Connected
<1> QED
  BY <1>1, <1>2, <1>3 DEF Connected

\* A key looks the same if its entry, its block, what waits for it and the
\* call, when that is about to write it, are the same.
LEMMA ViewSame ==
  ASSUME NEW k \in Keys,
         entries'[Home(k)][k] = entries[Home(k)][k],
         entries[Home(k)][k] \in Blocks =>
           memory'[Home(k)][entries[Home(k)][k]] = memory[Home(k)][entries[Home(k)][k]],
         SetPending(k)' = SetPending(k),
         SetPending(k) => inbox'[Home(k)].value = inbox[Home(k)].value,
         (SetApplied /\ call.key = k)' = (SetApplied /\ call.key = k),
         SetApplied => call' = call
  PROVE  View(k)' = View(k)
<1>1. (Home(k))' = Home(k)
  BY DEF Home
<1> QED
  BY <1>1 DEF View, IsBlock

\* What a step that does not show is like.
LEMMA NotSeen ==
  ASSUME Connected, Connected', \A k \in Keys : View(k)' = View(k),
         UNCHANGED <<call, answer>>,
         call # NULL => (pc = "return" \/ SetApplied)' = (pc = "return" \/ SetApplied)
  PROVE  UNCHANGED Store!storeVars
<1>1. StoredNow' = StoredNow
  BY DEF StoredNow
<1>2. CallNow' = CallNow /\ AnswerNow' = AnswerNow
  BY DEF CallNow, AnswerNow
<1>3. PhaseNow' = PhaseNow
  BY DEF PhaseNow
<1>4. Connected' = Connected
  BY DEF Connected
<1> QED
  BY <1>1, <1>2, <1>3, <1>4 DEF Store!storeVars

\* A step that does not touch the stores, the servers' buffers or the call.
LEMMA QuietView ==
  ASSUME UNCHANGED <<entries, memory, call>>,
         \A s \in Servers : inbox'[s] = inbox[s],
         SetApplied' = SetApplied
  PROVE  \A k \in Keys : View(k)' = View(k)
<1> SUFFICES ASSUME NEW k \in Keys PROVE View(k)' = View(k)
  OBVIOUS
<1>1. Home(k) \in Servers
  BY HomeIsServer
<1>2. SetPending(k)' = SetPending(k) /\ inbox'[Home(k)].value = inbox[Home(k)].value
  BY <1>1 DEF SetPending, Home
<1> QED
  BY <1>1, <1>2, ViewSame

\* The steps of the client between a call's beginning and its effect, and those
\* behind it, do not show.
LEMMA ClientUnseen ==
  ASSUME IInv, MInv, Connected, Connected',
         OpenPeer \/ FindSent \/ LocationReceived \/ SetGotAddress \/ GetLarge \/ GetCached
  PROVE  UNCHANGED Store!storeVars
<1>1. /\ UNCHANGED <<entries, memory, call, answer>>
      /\ pc # "return" /\ pc' # "return"
  BY DEF OpenPeer, FindSent, LocationReceived, SetGotAddress, GetLarge, GetCached,
     Calling, storeVars
<1>2. \A s \in Servers : inbox'[s] = inbox[s]
  <2>1. CASE FindSent
    <3>1. inbox = [p \in Peers |-> inbox[p]] /\ Indexer \notin Servers /\ Servers \subseteq Peers
      BY ClusterAssumption DEF IInv, Mailboxes, Peers
    <3>2. inbox' = [inbox EXCEPT ![Indexer] = FindPacket(call)]
      BY <2>1 DEF FindSent, Send
    <3> QED
      BY <3>1, <3>2
  <2>2. CASE OpenPeer \/ LocationReceived \/ SetGotAddress \/ GetLarge \/ GetCached
    BY <2>2 DEF OpenPeer, LocationReceived, SetGotAddress, GetLarge, GetCached, Take,
       peerVars
  <2> QED
    BY <2>1, <2>2
<1>3. SetApplied' = SetApplied
  <2>1. CASE SetGotAddress
    <3>1. pc = "rndv_set" /\ pc' = "write" /\ reply[selected] # NULL
      BY <2>1 DEF SetGotAddress
    <3>2. selected \in Servers
      BY <3>1, CallAtHome
    <3>3. inbox[selected] = NULL
      BY <3>1, <3>2 DEF IInv, ServerMail
    <3> QED
      BY <3>1, <3>3 DEF SetApplied
  <2>2. CASE ~SetGotAddress
    BY <2>2 DEF OpenPeer, FindSent, LocationReceived, GetLarge, GetCached,
       Calling, SetApplied
  <2> QED
    BY <2>1, <2>2
<1>4. \A k \in Keys : View(k)' = View(k)
  BY <1>1, <1>2, <1>3, QuietView
<1> QED
  BY <1>1, <1>3, <1>4, NotSeen

\* Nor does a request that asks a server for an address or a value.
LEMMA QuestionUnseen ==
  ASSUME IInv, Connected, Connected', SetRendezvous \/ GetRequest
  PROVE  UNCHANGED Store!storeVars
<1>1. /\ UNCHANGED <<entries, memory, call, answer, selected>>
      /\ pc = "located" /\ pc' \in {"get", "rndv_set"}
      /\ inbox[selected] = NULL
  BY DEF SetRendezvous, GetRequest, Calling, Send, storeVars
<1>2. call.key \in Keys /\ selected \in Servers
  BY <1>1, CallAtHome
<1>3. PICK type \in {"RENDEZVOUS_SET_REQUEST", "EAGER_GET_REQUEST"} :
        /\ inbox' = [inbox EXCEPT ![selected] = [type |-> type, key |-> call.key]]
        /\ pc' = IF type = "EAGER_GET_REQUEST" THEN "get" ELSE "rndv_set"
  BY DEF SetRendezvous, GetRequest, Send
<1>4. /\ inbox'[selected] = [type |-> type, key |-> call.key]
      /\ \A s \in Servers \ {selected} : inbox'[s] = inbox[s]
  BY <1>2, <1>3 DEF IInv, Mailboxes
<1>5. ~SetApplied /\ ~SetApplied'
  <2>1. type = "RENDEZVOUS_SET_REQUEST" => inbox'[selected] # NULL
    BY <1>2, <1>4 DEF SetRequests
  <2> QED
    BY <1>1, <1>3, <2>1 DEF SetApplied
<1>6. ASSUME NEW k \in Keys PROVE View(k)' = View(k)
  <2>1. Home(k) \in Servers /\ Home(k)' = Home(k)
    BY HomeIsServer DEF Home
  <2>2. SetPending(k)' = SetPending(k)
        /\ (SetPending(k) => inbox'[Home(k)].value = inbox[Home(k)].value)
    BY <1>1, <1>4, <2>1 DEF SetPending
  <2> QED
    BY <1>1, <1>5, <2>2, ViewSame
<1> QED
  BY <1>1, <1>5, <1>6, NotSeen

\* Nor does a get that is answered, or the end of a connection.
LEMMA AnswerUnseen ==
  ASSUME IInv, MInv, Connected, Connected', NEW s \in Servers, ServerHandles(s),
         inbox[s].type \in {"EAGER_GET_REQUEST", "CLOSE_CONNECTION"},
         UNCHANGED storeVars
  PROVE  UNCHANGED Store!storeVars
<1>1. /\ UNCHANGED <<entries, memory, pc, call, answer, selected>>
      /\ inbox[s] # NULL /\ inbox'[s] = NULL
      /\ \A t \in Servers \ {s} : inbox'[t] = inbox[t]
  BY HandlerFinds DEF storeVars, clientVars
<1>2. SetApplied' = SetApplied
  <2>1. pc = "rndv_set" => selected \in Servers
    BY CallAtHome
  <2>2. pc = "rndv_set" => selected # s
    BY <1>1 DEF MInv, Asking
  <2> QED
    BY <1>1, <2>1, <2>2 DEF SetApplied
<1>3. ASSUME NEW k \in Keys PROVE View(k)' = View(k)
  <2>1. Home(k) \in Servers /\ Home(k)' = Home(k)
    BY HomeIsServer DEF Home
  <2>2. SetPending(k)' = SetPending(k)
        /\ (SetPending(k) => inbox'[Home(k)].value = inbox[Home(k)].value)
    BY <1>1, <2>1 DEF SetPending
  <2> QED
    BY <1>1, <1>2, <2>2, ViewSame
<1> QED
  BY <1>1, <1>2, <1>3, NotSeen

\* Nor does a small value that moves from the server's buffer into its map.
LEMMA EagerUnseen ==
  ASSUME IInv, MInv, Connected, Connected', NEW s \in Servers, ServerHandles(s),
         inbox[s].type = "EAGER_SET_REQUEST",
         HandleEagerSet(s, inbox[s].key, inbox[s].value)
  PROVE  UNCHANGED Store!storeVars
<1> DEFINE key == inbox[s].key
           val == inbox[s].value
<1>1. /\ UNCHANGED <<pc, call, answer, selected, cache>>
      /\ inbox[s] # NULL /\ inbox'[s] = NULL
      /\ \A t \in Servers \ {s} : inbox'[t] = inbox[t]
      /\ key \in Keys /\ val \in Values /\ Home(key) = s
  BY HandlerFinds DEF clientVars
<1>2. /\ \A t \in Servers : \A k \in Keys :
           entries'[t][k] = IF t = s /\ k = key THEN val ELSE entries[t][k]
      /\ \A t \in Servers : \A b \in Blocks :
           memory'[t][b] = memory[t][b] \/ (t = s /\ b = entries[s][key])
  BY EagerSetStores
<1>3. SetPending(key)
  BY <1>1 DEF SetPending
<1> HIDE DEF key, val
<1>4. pc = "rndv_set" => selected \in Servers \ {s}
  BY <1>1, CallAtHome DEF MInv, Asking
<1>5. SetApplied' = SetApplied
  BY <1>1, <1>4 DEF SetApplied
<1>6. ~(SetApplied /\ call.key = key)
  <2>1. CASE pc = "write"
    <3>1. cache.key = call.key /\ call.key \in Keys
      BY <2>1, CallAtHome DEF MInv, Addressed
    <3> QED
      BY <1>3, <3>1 DEF IInv, CacheAtHome
  <2>2. CASE pc = "rndv_set"
    BY <1>1, <1>4, <2>2, CallAtHome
  <2> QED
    BY <2>1, <2>2 DEF SetApplied
<1>7. ASSUME NEW k \in Keys PROVE View(k)' = View(k)
  <2>1. Home(k) \in Servers /\ Home(k)' = Home(k)
    BY HomeIsServer DEF Home
  <2>2. CASE k = key
    <3>1. View(k) = val
      BY <1>3, <1>1, <1>6, <2>2 DEF View, val
    <3>2. ~SetPending(k)' /\ entries'[Home(k)][k] = val
      BY <1>1, <1>2, <2>1, <2>2 DEF SetPending
    <3>3. ~(SetApplied /\ call.key = k)' /\ val \notin Blocks
      BY <1>1, <1>5, <1>6, <2>2
    <3>4. View(k)' = val
      BY <2>1, <3>2, <3>3 DEF View, IsBlock
    <3> QED
      BY <3>1, <3>4
  <2>3. CASE k # key
    <3>1. SetPending(k)' = SetPending(k)
          /\ (SetPending(k) => inbox'[Home(k)].value = inbox[Home(k)].value)
      BY <1>1, <2>1, <2>3 DEF SetPending, key
    <3>2. entries'[Home(k)][k] = entries[Home(k)][k]
      BY <1>2, <2>1, <2>3
    <3>3. entries[Home(k)][k] \in Blocks =>
            memory'[Home(k)][entries[Home(k)][k]] = memory[Home(k)][entries[Home(k)][k]]
      BY <1>1, <1>2, <2>1, <2>3 DEF MInv, OwnBlocks
    <3> QED
      BY <1>1, <1>5, <3>1, <3>2, <3>3, ViewSame
  <2> QED
    BY <2>2, <2>3
<1> QED
  BY <1>1, <1>5, <1>7, NotSeen

\* An RDMA write stores what the set already counts for.
LEMMA WriteUnseen ==
  ASSUME IInv, MInv, Connected, Connected', Write
  PROVE  UNCHANGED Store!storeVars
<1>1. /\ pc = "write" /\ pc' = "return"
      /\ UNCHANGED <<call, answer, selected, cache, inbox, entries>>
      /\ memory' = [memory EXCEPT ![selected][cache.block] = call.value]
  BY DEF Write, peerVars
<1>2. /\ call.key \in Keys /\ selected = Home(call.key) /\ selected \in Servers
      /\ cache.key = call.key
  BY <1>1, CallAtHome DEF MInv, Addressed
<1>3. /\ entries[selected][call.key] = cache.block /\ ~SetPending(call.key)
      /\ cache.block \in Blocks
  <2>1. cache # NoCache
    BY <1>2 DEF NoCache
  <2> QED
    BY <1>2, <2>1 DEF IInv, CacheAtHome, TypeOK, Addresses
<1>4. \A t \in Servers : \A b \in Blocks :
        memory'[t][b] = IF t = selected /\ b = cache.block THEN call.value ELSE memory[t][b]
  BY <1>1, <1>2, <1>3 DEF IInv, TypeOK
<1>5. SetApplied /\ ~SetApplied'
  BY <1>1 DEF SetApplied
<1>6. ASSUME NEW k \in Keys PROVE View(k)' = View(k)
  <2>1. Home(k) \in Servers /\ Home(k)' = Home(k)
    BY HomeIsServer DEF Home
  <2>2. SetPending(k)' = SetPending(k)
    BY <1>1, <2>1 DEF SetPending
  <2>3. CASE k = call.key
    <3>1. View(k) = call.value
      BY <1>5, <2>3 DEF View
    <3>2. View(k)' = memory'[selected][cache.block]
      BY <1>1, <1>2, <1>3, <1>5, <2>1, <2>2, <2>3 DEF View, IsBlock
    <3> QED
      BY <1>2, <1>3, <1>4, <3>1, <3>2
  <2>4. CASE k # call.key
    <3>1. entries[Home(k)][k] \in Blocks =>
            memory'[Home(k)][entries[Home(k)][k]] = memory[Home(k)][entries[Home(k)][k]]
      BY <1>2, <1>3, <1>4, <2>1, <2>4 DEF MInv, OwnBlocks
    <3> QED
      BY <1>1, <2>2, <2>4, <3>1, ViewSame
  <2> QED
    BY <2>3, <2>4
<1> QED
  BY <1>1, <1>5, <1>6, NotSeen

\* A set takes effect: the key of the call shows the value of the call.
LEMMA SetShows ==
  ASSUME IInv, Connected, Connected', UNCHANGED <<call, answer>>,
         pc \in {"located", "rndv_set"}, call.name = "set",
         ~SetApplied, pc' = "return" \/ SetApplied',
         \A k \in Keys : View(k)' = IF k = call.key THEN call.value ELSE View(k)
  PROVE  Store!ApplySet
<1>1. call \in Calls /\ call.key \in Keys /\ call # NULL
  BY CallAtHome
<1>2. StoredNow' = [StoredNow EXCEPT ![call.key] = call.value]
  BY <1>1 DEF StoredNow
<1>3. CallNow = call /\ CallNow' = call /\ AnswerNow' = AnswerNow
  BY DEF CallNow, AnswerNow
<1>4. PhaseNow = "called" /\ PhaseNow' = "done"
  BY <1>1 DEF PhaseNow
<1>5. Connected' = Connected
  BY DEF Connected
<1> QED
  BY <1>2, <1>3, <1>4, <1>5 DEF Store!ApplySet

\* A small value counts from the moment it is sent.
LEMMA SetEagerMaps ==
  ASSUME IInv, Connected, Connected', SetEager
  PROVE  Store!ApplySet
<1> DEFINE packet == [type |-> "EAGER_SET_REQUEST", key |-> call.key, value |-> call.value]
<1>1. /\ pc = "located" /\ pc' = "return" /\ call.name = "set"
      /\ UNCHANGED <<entries, memory, call, answer, selected>>
      /\ inbox[selected] = NULL /\ inbox' = [inbox EXCEPT ![selected] = packet]
  BY DEF SetEager, Calling, Send, storeVars
<1>2. /\ call.key \in Keys /\ selected = Home(call.key) /\ selected \in Servers
      /\ call.value \in Values
  BY <1>1, CallAtHome, CallFields
<1>3. /\ inbox'[selected] = packet /\ packet # NULL
      /\ \A s \in Servers \ {selected} : inbox'[s] = inbox[s]
  BY <1>1, <1>2 DEF IInv, Mailboxes, SetRequests
<1>4. ~SetApplied /\ ~SetApplied'
  BY <1>1 DEF SetApplied
<1>5. ASSUME NEW k \in Keys
      PROVE  View(k)' = IF k = call.key THEN call.value ELSE View(k)
  <2>1. Home(k) \in Servers /\ Home(k)' = Home(k)
    BY HomeIsServer DEF Home
  <2>2. CASE k = call.key
    <3>1. SetPending(k)' /\ inbox'[Home(k)].value = call.value
      BY <1>2, <1>3, <2>1, <2>2 DEF SetPending
    <3> QED
      BY <1>4, <2>1, <2>2, <3>1 DEF View
  <2>3. CASE k # call.key
    <3>1. SetPending(k)' = SetPending(k)
          /\ (SetPending(k) => inbox'[Home(k)].value = inbox[Home(k)].value)
      BY <1>1, <1>3, <2>1, <2>3 DEF SetPending
    <3> QED
      BY <1>1, <1>4, <2>3, <3>1, ViewSame
  <2> QED
    BY <2>2, <2>3
<1> QED
  BY <1>1, <1>4, <1>5, SetShows

\* A large one whose block is known already counts at once.
LEMMA SetCachedMaps ==
  ASSUME IInv, Connected, Connected', SetCached
  PROVE  Store!ApplySet
<1>1. /\ pc = "located" /\ pc' = "write" /\ call.name = "set"
      /\ UNCHANGED <<entries, memory, call, answer, inbox>>
  BY DEF SetCached, Calling, peerVars, storeVars
<1>2. ~SetApplied /\ SetApplied'
  BY <1>1 DEF SetApplied
<1>3. ASSUME NEW k \in Keys
      PROVE  View(k)' = IF k = call.key THEN call.value ELSE View(k)
  <2>1. SetPending(k)' = SetPending(k)
    BY <1>1 DEF SetPending, Home
  <2>2. CASE k = call.key
    BY <1>1, <1>2, <2>2 DEF View
  <2>3. CASE k # call.key
    BY <1>1, <1>2, <2>1, <2>3, ViewSame
  <2> QED
    BY <2>2, <2>3
<1> QED
  BY <1>1, <1>2, <1>3, SetShows

\* Another counts when the server has given it a block.
LEMMA RndvSetMaps ==
  ASSUME IInv, MInv, Connected, Connected', NEW s \in Servers, ServerHandles(s),
         inbox[s].type = "RENDEZVOUS_SET_REQUEST", HandleRndvSet(s, inbox[s].key)
  PROVE  Store!ApplySet
<1>1. /\ UNCHANGED <<pc, call, answer, selected>>
      /\ inbox[s] # NULL /\ inbox'[s] = NULL
      /\ \A t \in Servers \ {s} : inbox'[t] = inbox[t]
      /\ pc = "rndv_set" /\ s = selected /\ Home(call.key) = s
  BY HandlerFinds DEF clientVars
<1>2. /\ \A t \in Servers : \A k \in Keys :
           ~(t = s /\ k = call.key) => entries'[t][k] = entries[t][k]
      /\ UNCHANGED memory
  <2>1. PICK b \in Blocks :
          /\ \A t \in Servers : \A k \in Keys :
               entries'[t][k] = IF t = s /\ k = call.key THEN b ELSE entries[t][k]
          /\ \A k \in Keys : entries[s][k] = b => k = call.key
          /\ reply'[s] = [type |-> "RENDEZVOUS_SET_RESPONSE", block |-> b]
          /\ UNCHANGED <<peer, memory>>
    BY RndvSetStores
  <2> QED
    BY <2>1
<1>3. ~SetApplied /\ SetApplied'
  BY <1>1 DEF SetApplied
<1>4. ASSUME NEW k \in Keys
      PROVE  View(k)' = IF k = call.key THEN call.value ELSE View(k)
  <2>1. Home(k) \in Servers /\ Home(k)' = Home(k)
    BY HomeIsServer DEF Home
  <2>2. CASE k = call.key
    BY <1>1, <1>3, <2>2 DEF View
  <2>3. CASE k # call.key
    <3>1. SetPending(k)' = SetPending(k)
          /\ (SetPending(k) => inbox'[Home(k)].value = inbox[Home(k)].value)
      BY <1>1, <2>1 DEF SetPending
    <3> QED
      BY <1>1, <1>2, <1>3, <2>1, <2>3, <3>1, ViewSame
  <2> QED
    BY <2>2, <2>3
<1>5. call.name = "set"
  BY <1>1 DEF IInv, CallKnown
<1> QED
  BY <1>1, <1>3, <1>4, <1>5, SetShows

\* A get answers with what the key shows: the small value in the reply, or the
\* block that it reads.
LEMMA GetMaps ==
  ASSUME IInv, MInv, Connected, Connected', GetSmall \/ Read
  PROVE  Store!ApplyGet
<1>1. /\ pc \in {"get", "read"} /\ pc' = "return"
      /\ UNCHANGED <<entries, memory, call, inbox>>
  BY DEF GetSmall, Read, Take, peerVars, storeVars
<1>2. /\ call \in Calls /\ call # NULL /\ call.key \in Keys /\ call.name = "get"
      /\ selected = Home(call.key) /\ selected \in Servers
  BY <1>1, CallAtHome DEF IInv, CallKnown
<1>3. ~SetApplied /\ ~SetApplied'
  BY <1>1 DEF SetApplied
<1>4. StoredNow' = StoredNow
  <2>1. SetApplied' = SetApplied
    BY <1>3 DEF SetApplied
  <2>2. \A k \in Keys : View(k)' = View(k)
    BY <1>1, <2>1, QuietView
  <2> QED
    BY <2>2 DEF StoredNow
<1>5. /\ StoredNow[call.key] = View(call.key)
      /\ CallNow = call /\ CallNow' = call
      /\ PhaseNow = "called" /\ PhaseNow' = "done"
      /\ AnswerNow' = answer' /\ Connected' = Connected
  BY <1>1, <1>2, <1>3 DEF StoredNow, CallNow, PhaseNow, AnswerNow, Connected
<1>6. IF View(call.key) # NULL THEN answer' = View(call.key) ELSE answer' \in {Zero, Garbage}
  <2>1. CASE GetSmall
    <3>1. /\ reply[selected] # NULL /\ reply[selected].type = "EAGER_GET_RESPONSE"
          /\ answer' \in IF reply[selected].value = NULL THEN {Zero, Garbage}
                                                         ELSE {reply[selected].value}
      BY <2>1 DEF GetSmall
    <3>2. /\ reply[selected].value = entries[selected][call.key]
          /\ reply[selected].value \notin Blocks /\ inbox[selected] = NULL
      BY <1>2, <3>1 DEF MInv, SmallAnswers, IInv, ServerMail
    <3>3. View(call.key) = reply[selected].value
      BY <1>2, <1>3, <3>2 DEF View, SetPending, IsBlock
    <3> QED
      BY <3>1, <3>3
  <2>2. CASE Read
    <3>1. pc = "read" /\ answer' = memory[selected][cache.block]
      BY <2>2 DEF Read
    <3>2. cache.key = call.key /\ cache # NoCache
      BY <1>2, <3>1 DEF MInv, Addressed, NoCache
    <3>3. /\ entries[selected][call.key] = cache.block /\ ~SetPending(call.key)
          /\ cache.block \in Blocks
      BY <1>2, <3>2 DEF IInv, CacheAtHome, TypeOK, Addresses
    <3>4. View(call.key) = memory[selected][cache.block]
      BY <1>2, <1>3, <3>3 DEF View, IsBlock
    <3>5. memory[selected][cache.block] \in Values \cup {Zero}
      BY <1>2, <3>3 DEF IInv, TypeOK
    <3> QED
      BY <3>1, <3>4, <3>5
  <2> QED
    BY <2>1, <2>2
<1> QED
  BY <1>2, <1>4, <1>5, <1>6 DEF Store!ApplyGet

\* Begin and Return are those of the abstract store.
LEMMA BeginReturnMaps ==
  ASSUME IInv, MInv, Connected, Connected',
         Return \/ \E c \in Calls : Begin(c)
  PROVE  Store!Next
<1>1. /\ UNCHANGED <<entries, memory, inbox>> /\ ~SetApplied /\ ~SetApplied'
  BY DEF Begin, Return, SetApplied, peerVars, storeVars
<1>2. ASSUME NEW k \in Keys PROVE View(k)' = View(k)
  <2>1. SetPending(k)' = SetPending(k) /\ Home(k)' = Home(k)
    BY <1>1 DEF SetPending, Home
  <2> QED
    BY <1>1, <2>1, ViewSame
<1>3. StoredNow' = StoredNow /\ Connected' = Connected
  BY <1>2 DEF StoredNow, Connected
<1>4. CallNow' = call' /\ AnswerNow = answer /\ AnswerNow' = answer'
  BY DEF CallNow, AnswerNow
<1>5. CASE Return
  <2>1. pc = "return" /\ call' = NULL /\ answer' = NULL
    BY <1>5 DEF Return
  <2>2. call # NULL
    BY <2>1 DEF IInv, CallKnown
  <2>3. PhaseNow = "done" /\ PhaseNow' = "idle"
    BY <2>1, <2>2 DEF PhaseNow
  <2> QED
    BY <1>3, <1>4, <2>1, <2>3 DEF Store!Next, Store!Return
<1>6. CASE \E c \in Calls : Begin(c)
  <2>1. PICK c \in Calls : Begin(c)
    BY <1>6
  <2>2. pc = "idle" /\ pc' = "find" /\ call = NULL /\ call' = c /\ answer' = answer /\ c # NULL
    BY <2>1 DEF Begin, MInv, Resting
  <2>3. PhaseNow = "idle" /\ PhaseNow' = "called"
    BY <1>1, <2>2 DEF PhaseNow
  <2>4. c \in Store!Calls
    BY DEF Calls, Store!Calls
  <2>5. Store!Begin(c)
    BY <1>3, <1>4, <2>2, <2>3 DEF Store!Begin
  <2> QED
    BY <2>4, <2>5 DEF Store!Next
<1> QED
  BY <1>5, <1>6

\* The first state is an empty store.
LEMMA InitMaps == ASSUME Init PROVE Store!Init
<1>1. Connected /\ call = NULL /\ answer = NULL /\ pc = "open"
  BY DEF Init, Connected
<1>2. ASSUME NEW k \in Keys PROVE View(k) = NULL
  <2>1. entries[Home(k)][k] = NULL /\ inbox[Home(k)] = NULL
    BY <1>2, HomeIsServer DEF Init
  <2> QED
    BY <1>1, <2>1 DEF View, SetApplied, SetPending, IsBlock
<1> QED
  BY <1>1, <1>2 DEF Store!Init, StoredNow, CallNow, PhaseNow, AnswerNow

\* Each step of the cluster is a step of the abstract store or none.
LEMMA StepMaps ==
  ASSUME IInv, MInv, [Next]_vars
  PROVE  [Store!Next]_Store!storeVars
<1>1. CASE ~Connected
  <2>1. ~Connected'
    BY <1>1, StaysLost
  <2>2. StoredNow' = StoredNow
    BY <1>1, <2>1 DEF StoredNow
  <2>3. CallNow' = CallNow /\ AnswerNow' = AnswerNow
    BY <1>1, <2>1 DEF CallNow, AnswerNow
  <2>4. PhaseNow' = PhaseNow
    BY <1>1, <2>1 DEF PhaseNow
  <2>5. Connected' = Connected
    BY <1>1, <2>1 DEF Connected
  <2> QED
    BY <2>2, <2>3, <2>4, <2>5 DEF Store!storeVars
<1>2. CASE Connected /\ ~Connected'
  BY <1>2 DEF Store!Next, Store!Break, StoredNow, CallNow, PhaseNow, AnswerNow
<1>3. CASE Connected /\ Connected'
  <2>1. ASSUME ClientStep PROVE [Store!Next]_Store!storeVars
    <3>1. ~OpenFails /\ ~ClosePeer /\ ~FindFails
      BY <1>3 DEF OpenFails, ClosePeer, FindFails, Connected
    <3>2. ~ServerCallFails
      <4>1. ServerCallFails => selected \in Servers
        BY CallAtHome DEF ServerCallFails
      <4> QED
        BY <1>3, <4>1 DEF ServerCallFails, Connected
    <3> QED
      BY <1>3, <2>1, <3>1, <3>2, ClientUnseen, QuestionUnseen, WriteUnseen,
         SetEagerMaps,
         SetCachedMaps, GetMaps, BeginReturnMaps DEF ClientStep, Store!Next
  <2>2. ASSUME NEW s \in Servers, ServerHandles(s) PROVE [Store!Next]_Store!storeVars
    <3>1. ~RndvSetCrashes(s, inbox[s].key)
      <4>1. s \in Peers /\ peer \in [Peers -> {"waiting", "serving", "looping", "ended", "dead"}]
        BY DEF Peers, IInv, TypeOK
      <4>2. RndvSetCrashes(s, inbox[s].key) => peer'[s] = "dead"
        BY <4>1 DEF RndvSetCrashes
      <4> QED
        BY <1>3, <4>1, <4>2 DEF Connected
    <3> QED
      BY <1>3, <2>2, <3>1, EagerUnseen, RndvSetMaps, AnswerUnseen
      DEF ServerHandles, HandleGet, Store!Next
  <2>3. CASE IndexerHandles \/ UNCHANGED vars
    <3>1. /\ UNCHANGED <<entries, memory, call, answer, pc, selected>>
          /\ inbox' = inbox \/ inbox' = [inbox EXCEPT ![Indexer] = NULL]
      BY <2>3 DEF IndexerHandles, clientVars, storeVars, peerVars, vars
    <3>2. \A s \in Servers : inbox'[s] = inbox[s]
      BY <3>1 DEF IInv, Mailboxes
    <3>3. SetApplied' = SetApplied
      <4>1. pc = "rndv_set" => selected \in Servers
        BY CallAtHome
      <4> QED
        BY <3>1, <3>2, <4>1 DEF SetApplied
    <3>4. \A k \in Keys : View(k)' = View(k)
      BY <3>1, <3>2, <3>3, QuietView
    <3> QED
      BY <1>3, <3>1, <3>3, <3>4, NotSeen
  <2>4. ~CloseBegins /\ \A p \in Peers : ~PeerDies(p)
    <3>1. ~CloseBegins
      BY <1>3 DEF CloseBegins, Connected
    <3>2. ASSUME NEW p \in Peers, PeerDies(p) PROVE FALSE
      <4>1. peer'[p] = "dead"
        BY <3>2 DEF PeerDies, IInv, TypeOK
      <4> QED
        BY <1>3, <4>1 DEF Connected
    <3> QED
      BY <3>1, <3>2
  <2> QED
    BY <1>3, <2>1, <2>2, <2>3, <2>4, BeginReturnMaps DEF Next, PeerStep
<1> QED
  BY <1>1, <1>2, <1>3

(***************************************************************************)
(* The refinement                                                          *)
(***************************************************************************)

\* A cluster is one store: a get returns what the last set of its key stored,
\* on whichever server, until a connection is closed or lost.
THEOREM ClusterImplementsStore == Spec => ImplementsStore
<1>1. Init => MInv /\ Store!Init
  BY InitRight, InitMaps
<1>2. IInv /\ MInv /\ [Next]_vars => MInv' /\ [Store!Next]_Store!storeVars
  BY MappingKept, StepMaps
<1> QED
  BY <1>1, <1>2, ClusterInvariant, PTL DEF Spec, ImplementsStore, Store!Spec
=============================================================================
