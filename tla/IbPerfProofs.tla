---------------------------- MODULE IbPerfProofs ----------------------------
(***************************************************************************)
(* For any number of packets, depths and poll sizes: which send queues are *)
(* too small for ib_perf.c, and that its completion queues never overflow  *)
(* (QueuesFit), although a wait counts completions of any kind; and the    *)
(* server's count of its receives is right and never runs dry              *)
(* (ReceivesCounted).                                                      *)
(***************************************************************************)
EXTENDS IbPerf, TLAPS, FiniteSetTheorems, SequenceTheorems

(***************************************************************************)
(* Counting in sequences                                                   *)
(***************************************************************************)
Where(s, kind) == {j \in DOMAIN s : s[j] = kind}

\* A sequence has at most as many completions of a kind as it has elements.
LEMMA CountType ==
  ASSUME NEW S, NEW s \in Seq(S), NEW kind
  PROVE  /\ IsFiniteSet(Where(s, kind))
         /\ Count(s, kind) = Cardinality(Where(s, kind))
         /\ Count(s, kind) \in 0 .. Len(s)
<1>1. Len(s) \in Nat /\ DOMAIN s = 1 .. Len(s)
  OBVIOUS
<1>2. IsFiniteSet(1 .. Len(s)) /\ Cardinality(1 .. Len(s)) = Len(s)
  BY <1>1, FS_Interval
<1>3. Where(s, kind) \in SUBSET (1 .. Len(s))
  BY DEF Where
<1>4. IsFiniteSet(Where(s, kind)) /\ Cardinality(Where(s, kind)) <= Len(s)
  BY <1>2, <1>3, FS_Subset
<1>5. Cardinality(Where(s, kind)) \in Nat
  BY <1>4, FS_CardinalityType
<1> QED
  BY <1>4, <1>5 DEF Count, Where

\* An empty queue has no completion of any kind.
LEMMA CountEmpty == \A kind : Count(<<>>, kind) = 0
<1>1. \A kind : Where(<<>>, kind) = {}
  BY DEF Where
<1> QED
  BY FS_EmptySet DEF Count

\* A completion is added at the end.
LEMMA CountAppend ==
  ASSUME NEW S, NEW s \in Seq(S), NEW e \in S, NEW kind
  PROVE  /\ Append(s, e) \in Seq(S) /\ Len(Append(s, e)) = Len(s) + 1
         /\ Count(Append(s, e), kind) = Count(s, kind) + (IF e = kind THEN 1 ELSE 0)
<1> DEFINE t == Append(s, e)
           n == Len(s)
<1>1. /\ t \in Seq(S) /\ Len(t) = n + 1
      /\ \A i_1 \in 1 .. n : t[i_1] = s[i_1]
      /\ t[n + 1] = e
  OBVIOUS
<1>2. n \in Nat /\ DOMAIN s = 1 .. n /\ DOMAIN t = 1 .. n + 1
  OBVIOUS
<1>3. Where(t, kind) = IF e = kind THEN Where(s, kind) \cup {n + 1} ELSE Where(s, kind)
  <2>1. 1 .. n + 1 = (1 .. n) \cup {n + 1}
    OBVIOUS
  <2> HIDE DEF t, n
  <2> QED
    BY <1>1, <1>2 DEF Where
<1>4. IsFiniteSet(Where(s, kind)) /\ Count(s, kind) = Cardinality(Where(s, kind))
      /\ Count(s, kind) \in Nat
  BY CountType
<1>5. n + 1 \notin Where(s, kind)
  BY DEF Where
<1>6. Count(t, kind) = Cardinality(Where(t, kind))
  BY DEF Count, Where
<1>7. Cardinality(Where(s, kind) \cup {n + 1}) = Cardinality(Where(s, kind)) + 1
  BY <1>4, <1>5, FS_AddElement
<1> QED
  BY <1>3, <1>4, <1>6, <1>7

\* A sequence that is cut in two keeps its completions.
LEMMA CountSplit ==
  ASSUME NEW S, NEW s \in Seq(S), NEW n \in 0 .. Len(s), NEW kind
  PROVE  LET a == SubSeq(s, 1, n)
             b == SubSeq(s, n + 1, Len(s))
         IN  /\ a \in Seq(S) /\ Len(a) = n
             /\ b \in Seq(S) /\ Len(b) = Len(s) - n
             /\ Count(s, kind) = Count(a, kind) + Count(b, kind)
<1> DEFINE m == Len(s)
           a == SubSeq(s, 1, n)
           b == SubSeq(s, n + 1, m)
<1>1. m \in Nat /\ n \in Nat /\ n <= m /\ DOMAIN s = 1 .. m /\ \A j \in 1 .. m : s[j] \in S
  OBVIOUS
<1>2. a \in Seq(S) /\ Len(a) = n /\ \A j \in 1 .. n : a[j] = s[j]
  <2>1. \A j \in 1 .. n : s[j] \in S
    OBVIOUS
  <2>2. /\ a \in Seq(S) /\ Len(a) = (IF 1 <= n THEN n - 1 + 1 ELSE 0)
        /\ \A j \in 1 .. n - 1 + 1 : a[j] = s[1 + j - 1]
    OBVIOUS
  <2> QED
    OBVIOUS
<1>3. b \in Seq(S) /\ Len(b) = m - n /\ \A j \in 1 .. m - n : b[j] = s[n + j]
  <2>1. \A j \in n + 1 .. m : s[j] \in S
    OBVIOUS
  <2>2. /\ b \in Seq(S) /\ Len(b) = (IF n + 1 <= m THEN m - (n + 1) + 1 ELSE 0)
        /\ \A j \in 1 .. m - (n + 1) + 1 : b[j] = s[n + 1 + j - 1]
    OBVIOUS
  <2>3. \A j \in 1 .. m - n : n + 1 + j - 1 = n + j
    OBVIOUS
  <2>4. m - (n + 1) + 1 = m - n /\ (n + 1 <= m \/ m = n)
    <3> HIDE DEF m
    <3> QED
      BY <1>1
  <2> HIDE DEF m, b
  <2> QED
    BY <2>2, <2>4
<1>4. DOMAIN a = 1 .. n /\ DOMAIN b = 1 .. m - n
  OBVIOUS
<1> DEFINE H == {j \in n + 1 .. m : s[j] = kind}
           f == [j \in Where(b, kind) |-> n + j]
<1>5. Where(s, kind) = Where(a, kind) \cup H /\ Where(a, kind) \cap H = {}
  <2>1. 1 .. m = (1 .. n) \cup (n + 1 .. m) /\ (1 .. n) \cap (n + 1 .. m) = {}
    OBVIOUS
  <2>2. Where(a, kind) = {j \in 1 .. n : s[j] = kind}
    BY DEF Where
  <2> HIDE DEF a, m
  <2> QED
    BY <1>1, <2>2 DEF Where
<1>6. f \in Bijection(Where(b, kind), H)
  <2>1. Where(b, kind) = {j \in 1 .. m - n : s[n + j] = kind}
    BY DEF Where
  <2> HIDE DEF a, b, m
  <2>2. f \in [Where(b, kind) -> H]
    BY <1>1, <2>1
  <2>3. \A j, k \in Where(b, kind) : f[j] = f[k] => j = k
    BY <2>1
  <2>4. \A k \in H : \E j \in Where(b, kind) : f[j] = k
    <3> TAKE k \in H
    <3>1. k - n \in 1 .. m - n /\ n + (k - n) = k
      BY <1>1
    <3>2. k - n \in Where(b, kind) /\ f[k - n] = k
      BY <2>1, <3>1
    <3> QED
      BY <3>2
  <2> HIDE DEF f
  <2> QED
    BY <2>2, <2>3, <2>4 DEF Bijection, Injection, Surjection, IsInjective
<1>7. IsFiniteSet(H) /\ Cardinality(H) = Cardinality(Where(b, kind))
  <2>1. IsFiniteSet(Where(b, kind))
    BY <1>3, CountType
  <2>2. ExistsBijection(Where(b, kind), H)
    BY <1>6 DEF ExistsBijection
  <2> QED
    BY <2>1, <2>2, FS_Bijection
<1>8. /\ IsFiniteSet(Where(a, kind))
      /\ Count(a, kind) = Cardinality(Where(a, kind)) /\ Count(a, kind) \in Nat
      /\ Count(b, kind) = Cardinality(Where(b, kind)) /\ Count(b, kind) \in Nat
      /\ Count(s, kind) = Cardinality(Where(s, kind))
  <2> HIDE DEF a, b
  <2> QED
    BY <1>2, <1>3, CountType
<1>9. Cardinality(Where(a, kind) \cup H)
        = Cardinality(Where(a, kind)) + Cardinality(H) - Cardinality({})
  BY <1>5, <1>7, <1>8, FS_Union
<1>10. Cardinality({}) = 0
  BY FS_EmptySet
<1>11. Count(s, kind) = Count(a, kind) + Count(b, kind)
  <2> HIDE DEF a, b, H
  <2> QED
    BY <1>5, <1>7, <1>8, <1>9, <1>10
<1> QED
  BY <1>11

\* Two kinds of completions share the places of a queue.
LEMMA CountTwo ==
  ASSUME NEW S, NEW s \in Seq(S), NEW k, NEW l, k # l
  PROVE  /\ Count(s, k) + Count(s, l) <= Len(s)
         /\ S \subseteq {k, l} => Count(s, k) + Count(s, l) = Len(s)
<1> DEFINE U == Where(s, k) \cup Where(s, l)
<1>1. /\ IsFiniteSet(Where(s, k)) /\ Count(s, k) = Cardinality(Where(s, k))
      /\ IsFiniteSet(Where(s, l)) /\ Count(s, l) = Cardinality(Where(s, l))
      /\ Count(s, k) \in Nat /\ Count(s, l) \in Nat
  BY CountType
<1>2. Where(s, k) \cap Where(s, l) = {}
  BY DEF Where
<1>3. Cardinality(U) = Count(s, k) + Count(s, l)
  <2>1. Cardinality(U) = Cardinality(Where(s, k)) + Cardinality(Where(s, l)) - Cardinality({})
    BY <1>1, <1>2, FS_Union
  <2>2. Cardinality({}) = 0
    BY FS_EmptySet
  <2> HIDE DEF U
  <2> QED
    BY <1>1, <2>1, <2>2
<1>4. Len(s) \in Nat /\ DOMAIN s = 1 .. Len(s) /\ \A j \in 1 .. Len(s) : s[j] \in S
  OBVIOUS
<1>5. IsFiniteSet(1 .. Len(s)) /\ Cardinality(1 .. Len(s)) = Len(s)
  <2>1. Len(s) \in Nat
    OBVIOUS
  <2> HIDE DEF U
  <2> QED
    BY <2>1, FS_Interval
<1>6. U \in SUBSET (1 .. Len(s))
  BY DEF Where
<1>7. Cardinality(U) <= Len(s)
  <2> HIDE DEF U
  <2> QED
    BY <1>5, <1>6, FS_Subset
<1>8. S \subseteq {k, l} => U = 1 .. Len(s)
  BY DEF Where
<1> HIDE DEF U
<1> QED
  BY <1>3, <1>5, <1>7, <1>8

(***************************************************************************)
(* Polls and posts                                                         *)
(***************************************************************************)

\* A poll takes at least one and at most WC_BATCH of the completions there are
\* and leaves the others.
LEMMA PollSplits ==
  ASSUME NEW S, NEW cq \in Seq(S), cq # <<>>
  PROVE  /\ Polled(cq) \in Seq(S) /\ Remaining(cq) \in Seq(S)
         /\ Len(Polled(cq)) \in 1 .. WC_BATCH
         /\ Len(Remaining(cq)) = Len(cq) - Len(Polled(cq))
         /\ Len(Remaining(cq)) \in Nat
         /\ \A kind : Count(cq, kind) = Count(Polled(cq), kind) + Count(Remaining(cq), kind)
<1> DEFINE m == Len(cq)
           n == IF WC_BATCH <= m THEN WC_BATCH ELSE m
<1>1. m \in Nat \ {0}
  OBVIOUS
<1>2. WC_BATCH \in Nat \ {0}
  BY PerfAssumption
<1>3. Min({WC_BATCH, m}) = n
  <2> HIDE DEF m
  <2>1. n \in {WC_BATCH, m} /\ \A y \in {WC_BATCH, m} : n <= y
    BY <1>1, <1>2
  <2>2. \A x \in {WC_BATCH, m} : (\A y \in {WC_BATCH, m} : x <= y) => x = n
    BY <1>2
  <2> HIDE DEF n
  <2> QED
    BY <2>2 DEF Min
<1>4. n \in 0 .. Len(cq) /\ n \in 1 .. WC_BATCH /\ m - n \in Nat
  <2> HIDE DEF m
  <2>1. n \in 0 .. m /\ n \in 1 .. WC_BATCH /\ m - n \in Nat
    BY <1>1, <1>2
  <2> HIDE DEF n
  <2> QED
    BY <2>1 DEF m
<1>5. Polled(cq) = SubSeq(cq, 1, n)
  BY <1>3 DEF Polled
<1>6. Remaining(cq) = SubSeq(cq, n + 1, Len(cq))
  <2>1. CASE WC_BATCH <= m
    BY <2>1 DEF Remaining
  <2>2. CASE ~(WC_BATCH <= m)
    <3> HIDE DEF m
    <3>1. m < WC_BATCH + 1 /\ m < n + 1 /\ WC_BATCH + 1 \in Int /\ n + 1 \in Int
          /\ m \in Int
      BY <1>1, <1>2, <2>2
    <3> HIDE DEF n
    <3>2. SubSeq(cq, WC_BATCH + 1, m) = <<>> /\ SubSeq(cq, n + 1, m) = <<>>
      BY <3>1
    <3> QED
      BY <3>2 DEF Remaining, m
  <2> QED
    BY <2>1, <2>2
<1> HIDE DEF n
<1>7. /\ SubSeq(cq, 1, n) \in Seq(S) /\ Len(SubSeq(cq, 1, n)) = n
      /\ SubSeq(cq, n + 1, Len(cq)) \in Seq(S) /\ Len(SubSeq(cq, n + 1, Len(cq))) = m - n
      /\ \A kind : Count(cq, kind) = Count(SubSeq(cq, 1, n), kind)
                                      + Count(SubSeq(cq, n + 1, Len(cq)), kind)
  BY <1>4, CountSplit
<1> QED
  BY <1>4, <1>5, <1>6, <1>7

\* The first completion of a queue and the others.
LEMMA CountHead ==
  ASSUME NEW S, NEW s \in Seq(S), s # <<>>
  PROVE  /\ Head(s) \in S /\ Tail(s) \in Seq(S)
         /\ Len(s) \in Nat \ {0} /\ Len(Tail(s)) = Len(s) - 1
         /\ \A kind : Count(s, kind)
                       = Count(Tail(s), kind) + (IF Head(s) = kind THEN 1 ELSE 0)
<1> DEFINE a == SubSeq(s, 1, 1)
<1>1. Head(s) \in S /\ Tail(s) \in Seq(S) /\ Len(Tail(s)) = Len(s) - 1
  OBVIOUS
<1>2. Len(s) \in Nat \ {0} /\ 1 \in 0 .. Len(s) /\ 1 + 1 = 2
  OBVIOUS
<1>3. Tail(s) = SubSeq(s, 2, Len(s))
  OBVIOUS
<1>4. /\ a \in Seq(S) /\ Len(a) = 1
      /\ \A kind : Count(s, kind) = Count(a, kind) + Count(SubSeq(s, 2, Len(s)), kind)
  BY CountSplit
<1>5. DOMAIN a = {1} /\ a[1] = Head(s)
  <2>1. DOMAIN a = 1 .. 1 /\ a[1] = s[1]
    <3>1. s[1] \in S
      OBVIOUS
    <3>2. \A j \in 1 .. 1 : s[j] \in S
      OBVIOUS
    <3>3. \A j \in 1 .. 1 - 1 + 1 : a[j] = s[1 + j - 1]
      OBVIOUS
    <3> HIDE DEF a
    <3> QED
      BY <1>4, <3>3
  <2>2. Head(s) = s[1]
    OBVIOUS
  <2> HIDE DEF a
  <2> QED
    BY <2>1
<1>6. \A kind : Count(a, kind) = IF Head(s) = kind THEN 1 ELSE 0
  <2> SUFFICES ASSUME NEW kind PROVE Count(a, kind) = IF Head(s) = kind THEN 1 ELSE 0
    OBVIOUS
  <2> HIDE DEF a
  <2>1. Where(a, kind) = IF Head(s) = kind THEN {1} ELSE {}
    BY <1>5 DEF Where
  <2>2. Count(a, kind) = Cardinality(Where(a, kind))
    BY DEF Count, Where
  <2> QED
    BY <2>1, <2>2, FS_Singleton, FS_EmptySet
<1>7. ASSUME NEW kind
      PROVE  Count(s, kind) = Count(Tail(s), kind) + (IF Head(s) = kind THEN 1 ELSE 0)
  <2>1. Count(Tail(s), kind) \in Nat
    <3>1. Count(Tail(s), kind) \in 0 .. Len(Tail(s))
      BY <1>1, CountType
    <3> QED
      BY <3>1
  <2>2. Count(s, kind) = Count(a, kind) + Count(Tail(s), kind)
    BY <1>3, <1>4
  <2>3. Count(a, kind) = IF Head(s) = kind THEN 1 ELSE 0
    BY <1>6
  <2> HIDE DEF a
  <2> QED
    BY <2>1, <2>2, <2>3
<1> QED
  BY <1>7

\* Packets posted since the last wait, when the next is number n.
Since(n) == IF n = 0 THEN 0 ELSE IF n % DEPTH = 0 THEN DEPTH ELSE n % DEPTH

\* A wait is due after every DEPTH packets.
LEMMA SinceStep ==
  ASSUME NEW n \in Nat
  PROVE  /\ Since(n) \in 0 .. DEPTH
         /\ n = 0 \/ n % DEPTH # 0 => Since(n + 1) = Since(n) + 1
         /\ Since(n + 1) >= 1
<1>1. DEPTH \in Nat \ {0}
  BY PerfAssumption
<1>2. n % DEPTH \in 0 .. DEPTH - 1 /\ (n + 1) % DEPTH \in 0 .. DEPTH - 1
  BY <1>1
<1>3. (n + 1) % DEPTH = IF n % DEPTH = DEPTH - 1 THEN 0 ELSE (n % DEPTH) + 1
  <2> DEFINE q == n \div DEPTH
             p == (n + 1) \div DEPTH
             x == n % DEPTH
             y == (n + 1) % DEPTH
  <2>1. /\ q \in Int /\ p \in Int /\ x \in 0 .. DEPTH - 1 /\ y \in 0 .. DEPTH - 1
        /\ n = DEPTH * q + x /\ n + 1 = DEPTH * p + y
    BY <1>1
  <2> HIDE DEF q, p, x, y
  <2> DEFINE k == p - q
             z == DEPTH * k
  <2>2. k \in Int
    BY <2>1
  <2>3. z = DEPTH * p - DEPTH * q
    BY <1>1, <2>1
  <2>4. DEPTH * p \in Int /\ DEPTH * q \in Int
    BY <1>1, <2>1
  <2> HIDE DEF k
  <2>5. /\ k <= -1 => z <= -DEPTH
        /\ k >= 2 => z >= DEPTH + DEPTH
        /\ k = 0 => z = 0
        /\ k = 1 => z = DEPTH
    BY <1>1, <2>2
  <2> HIDE DEF z
  <2>6. z = x + 1 - y
    BY <2>1, <2>3, <2>4
  <2>7. k = 0 \/ k = 1
    BY <1>1, <2>1, <2>2, <2>5, <2>6
  <2>8. y = IF x = DEPTH - 1 THEN 0 ELSE x + 1
    BY <2>1, <2>5, <2>6, <2>7
  <2> QED
    BY <2>8 DEF x, y
<1>4. 0 % DEPTH = 0
  BY <1>1
<1> DEFINE r == n % DEPTH
           t == (n + 1) % DEPTH
<1>5. Since(n) = (IF n = 0 THEN 0 ELSE IF r = 0 THEN DEPTH ELSE r)
      /\ Since(n + 1) = (IF t = 0 THEN DEPTH ELSE t)
  BY DEF Since
<1>6. r \in 0 .. DEPTH - 1 /\ t \in 0 .. DEPTH - 1
      /\ t = (IF r = DEPTH - 1 THEN 0 ELSE r + 1)
      /\ (n = 0 => r = 0)
  BY <1>2, <1>3, <1>4
<1> HIDE DEF r, t
<1>7. /\ Since(n) \in 0 .. DEPTH
      /\ n = 0 \/ r # 0 => Since(n + 1) = Since(n) + 1
      /\ Since(n + 1) >= 1
  BY <1>1, <1>5, <1>6
<1> QED
  BY <1>7 DEF r
(***************************************************************************)
(* The inductive invariant.  Pending counts the completions the client has *)
(* not polled: of its packets and of the server's message.  A wait leaves  *)
(* at most one of them, and none begins before tx_depth packets more.      *)
(***************************************************************************)
Expected == IF msg \in {"none", "flying"} THEN 1 ELSE 0
Pending == flying + unacked + Len(ccq) + Expected

ClientWindow ==
  /\ cpc = "loop" => Pending <= Since(i) + 1
  /\ cpc = "wait" => ccnt + Pending <= DEPTH + 1
  /\ cpc = "waited" => Pending <= 1
  /\ cpc \in {"last", "done"} => Pending <= DEPTH + 2 /\ i = ITERS
  /\ cpc = "failed" =>
       /\ Pending <= DEPTH + 1
       /\ sq_size = DEPTH \/ (sq_size = DEPTH + 1 /\ i = ITERS)

\* What the server has counted, polled or not yet polled is what the client
\* has sent and its own message; so it does not leave before the packets of
\* the throughput measurement have come, and only the last one can fail.
Latency == IF cpc \in {"last", "done"} THEN 1 ELSE 0
Reported == IF msg = "acknowledged" THEN 1 ELSE 0
Completed == scnt + Len(wc) + Len(scq)

ServerWindow ==
  /\ spc \in {"start", "wait"} => Completed = i + Latency - flying + Reported
  /\ spc = "last" => ITERS + Completed <= i + Latency - flying + Reported
  /\ spc = "done" => i = ITERS /\ flying <= Latency

ErrorsLast == Count(ccq, "error") > 0 => cpc \in {"last", "done"}

OneMessage ==
  /\ Count(scq, "send") + Count(wc, "send") <= Reported
  /\ spc = "start" => msg = "none" /\ scnt = 0 /\ wc = <<>>
  /\ scnt + Len(wc) <= ITERS + WC_BATCH

IInv == TypeOK /\ ClientWindow /\ ServerWindow /\ ErrorsLast /\ OneMessage
/\ ReceivesCounted

\* What the steps calculate with.
Numeric ==
  /\ Len(ccq) \in Nat /\ Len(scq) \in Nat /\ Len(wc) \in Nat
  /\ \A kind : Count(ccq, kind) \in Nat /\ Count(scq, kind) \in Nat /\ Count(wc, kind) \in Nat
  /\ Since(i) \in 0 .. DEPTH
  /\ Latency \in {0, 1} /\ Reported \in {0, 1} /\ Expected \in {0, 1}
  /\ Completed \in Nat /\ Pending \in Nat
  /\ i \in Nat /\ flying \in Nat /\ unacked \in Nat /\ scnt \in Nat /\ ccnt \in Nat
  /\ rq \in Nat /\ routs \in Nat
  /\ ITERS \in Nat \ {0} /\ DEPTH \in Nat \ {0} /\ WC_BATCH \in Nat \ {0} /\ REFILL \in Nat

\* The lengths and counts are numbers.
LEMMA Numbers == TypeOK => Numeric
<1> SUFFICES ASSUME TypeOK PROVE Numeric
  OBVIOUS
<1>1. /\ ccq \in Seq({"send", "recv", "error"})
      /\ scq \in Seq({"send", "recv"}) /\ wc \in Seq({"send", "recv"}) /\ i \in Nat
  BY DEF TypeOK
<1>2. Len(ccq) \in Nat /\ Len(scq) \in Nat /\ Len(wc) \in Nat
  OBVIOUS
<1>3. ASSUME NEW kind
      PROVE  Count(ccq, kind) \in Nat /\ Count(scq, kind) \in Nat /\ Count(wc, kind) \in Nat
  <2>1. /\ Count(ccq, kind) \in 0 .. Len(ccq)
        /\ Count(scq, kind) \in 0 .. Len(scq) /\ Count(wc, kind) \in 0 .. Len(wc)
    BY <1>1, CountType
  <2> QED
    BY <2>1
<1>4. Since(i) \in 0 .. DEPTH
  BY <1>1, SinceStep
<1>5. Latency \in {0, 1} /\ Reported \in {0, 1} /\ Expected \in {0, 1}
  BY DEF Latency, Reported, Expected
<1>6. /\ i \in Nat /\ flying \in Nat /\ unacked \in Nat /\ scnt \in Nat /\ ccnt \in Nat
      /\ rq \in Nat /\ routs \in Nat
      /\ ITERS \in Nat \ {0} /\ DEPTH \in Nat \ {0} /\ WC_BATCH \in Nat \ {0} /\ REFILL \in Nat
  BY PerfAssumption DEF TypeOK
<1>7. Completed \in Nat /\ Pending \in Nat
  BY <1>5, <1>6 DEF Completed, Pending
<1> QED
  BY <1>3, <1>4, <1>5, <1>6, <1>7 DEF Numeric

\* A packet meets a receive: one more completion for the server.
LEMMA DeliverKeeps ==
  ASSUME IInv, Deliver
  PROVE  IInv'
<1>1. TypeOK /\ ClientWindow /\ ServerWindow /\ ErrorsLast /\ OneMessage /\ ReceivesCounted
  BY DEF IInv
<1>2. Numeric
  BY <1>1, Numbers
<1>3. /\ scq' \in Seq({"send", "recv"}) /\ Len(scq') = Len(scq) + 1
      /\ \A kind : Count(scq', kind) = Count(scq, kind) + (IF "recv" = kind THEN 1 ELSE 0)
  <2>1. scq \in Seq({"send", "recv"}) /\ "recv" \in {"send", "recv"}
        /\ scq' = Append(scq, "recv")
    BY <1>1 DEF TypeOK, Deliver
  <2> QED
    BY <2>1, CountAppend
<1>4. TypeOK'
  BY <1>1, PerfAssumption DEF TypeOK, Deliver, clientVars
<1>5. ClientWindow'
  BY <1>1, <1>2 DEF ClientWindow, Pending, Expected, Deliver, clientVars, Numeric
<1>6. ServerWindow'
  <2>1. Completed' = Completed + 1 /\ Latency' = Latency /\ Reported' = Reported
    BY <1>2 DEF Deliver, Completed, Latency, Reported, clientVars, Numeric
  <2> QED
    BY <1>1, <1>2, <2>1 DEF ServerWindow, Deliver, clientVars, Numeric
<1>7. ErrorsLast'
  BY <1>1 DEF ErrorsLast, Deliver, clientVars
<1>8. OneMessage'
  BY <1>1, <1>2, <1>3 DEF OneMessage, Reported, Deliver, Numeric
<1>9. ReceivesCounted'
  BY <1>1, <1>2, <1>3 DEF ReceivesCounted, Deliver, Numeric
<1> QED
  BY <1>4, <1>5, <1>6, <1>7, <1>8, <1>9 DEF IInv

\* The completion of a packet moves, it is still the client's to poll.
LEMMA AcknowledgeKeeps ==
  ASSUME IInv, Acknowledge
  PROVE  IInv'
<1>1. TypeOK /\ ClientWindow /\ ServerWindow /\ ErrorsLast /\ OneMessage /\ ReceivesCounted
  BY DEF IInv
<1>2. Numeric
  BY <1>1, Numbers
<1>3. /\ ccq' \in Seq({"send", "recv", "error"}) /\ Len(ccq') = Len(ccq) + 1
      /\ \A kind : Count(ccq', kind) = Count(ccq, kind) + (IF "send" = kind THEN 1 ELSE 0)
  <2>1. ccq \in Seq({"send", "recv", "error"})
        /\ "send" \in {"send", "recv", "error"} /\ ccq' = Append(ccq, "send")
    BY <1>1 DEF TypeOK, Acknowledge
  <2> QED
    BY <2>1, CountAppend
<1>4. TypeOK'
  BY <1>1 DEF TypeOK, Acknowledge, clientVars, serverVars
<1>5. ClientWindow'
  BY <1>1, <1>2 DEF ClientWindow, Pending, Expected, Acknowledge, clientVars,
     Numeric
<1>6. ServerWindow'
  BY <1>1
  DEF ServerWindow, Latency, Reported, Completed, Acknowledge, clientVars,
     serverVars
<1>7. ErrorsLast'
  BY <1>1, <1>2, <1>3 DEF ErrorsLast, Acknowledge, clientVars, Numeric
<1>8. OneMessage'
  BY <1>1 DEF OneMessage, Reported, Acknowledge, serverVars
<1>9. ReceivesCounted'
  BY <1>1 DEF ReceivesCounted, Acknowledge, serverVars
<1> QED
  BY <1>4, <1>5, <1>6, <1>7, <1>8, <1>9 DEF IInv

\* The server's message becomes a completion of the client.
LEMMA DeliverMessageKeeps ==
  ASSUME IInv, DeliverMessage
  PROVE  IInv'
<1>1. TypeOK /\ ClientWindow /\ ServerWindow /\ ErrorsLast /\ OneMessage /\ ReceivesCounted
  BY DEF IInv
<1>2. Numeric
  BY <1>1, Numbers
<1>3. /\ ccq' \in Seq({"send", "recv", "error"}) /\ Len(ccq') = Len(ccq) + 1
      /\ \A kind : Count(ccq', kind) = Count(ccq, kind) + (IF "recv" = kind THEN 1 ELSE 0)
  <2>1. ccq \in Seq({"send", "recv", "error"})
        /\ "recv" \in {"send", "recv", "error"} /\ ccq' = Append(ccq, "recv")
    BY <1>1 DEF TypeOK, DeliverMessage
  <2> QED
    BY <2>1, CountAppend
<1>4. TypeOK'
  BY <1>1 DEF TypeOK, DeliverMessage, clientVars, serverVars
<1>5. ClientWindow'
  BY <1>1, <1>2 DEF ClientWindow, Pending, Expected, DeliverMessage, clientVars,
     Numeric
<1>6. ServerWindow'
  BY <1>1
  DEF ServerWindow, Latency, Reported, Completed, DeliverMessage, clientVars,
     serverVars
<1>7. ErrorsLast'
  BY <1>1, <1>2, <1>3 DEF ErrorsLast, DeliverMessage, clientVars, Numeric
<1>8. OneMessage'
  BY <1>1 DEF OneMessage, Reported, DeliverMessage, serverVars
<1>9. ReceivesCounted'
  BY <1>1 DEF ReceivesCounted, DeliverMessage, serverVars
<1> QED
  BY <1>4, <1>5, <1>6, <1>7, <1>8, <1>9 DEF IInv

\* The server learns that its message has arrived.
LEMMA AcknowledgeMessageKeeps ==
  ASSUME IInv, AcknowledgeMessage
  PROVE  IInv'
<1>1. TypeOK /\ ClientWindow /\ ServerWindow /\ ErrorsLast /\ OneMessage /\ ReceivesCounted
  BY DEF IInv
<1>2. Numeric
  BY <1>1, Numbers
<1>3. /\ scq' \in Seq({"send", "recv"}) /\ Len(scq') = Len(scq) + 1
      /\ \A kind : Count(scq', kind) = Count(scq, kind) + (IF "send" = kind THEN 1 ELSE 0)
  <2>1. scq \in Seq({"send", "recv"}) /\ "send" \in {"send", "recv"}
        /\ scq' = Append(scq, "send")
    BY <1>1 DEF TypeOK, AcknowledgeMessage
  <2> QED
    BY <2>1, CountAppend
<1>4. TypeOK'
  BY <1>1 DEF TypeOK, AcknowledgeMessage, clientVars, serverVars
<1>5. ClientWindow'
  BY <1>1 DEF ClientWindow, Pending, Expected, AcknowledgeMessage, clientVars
<1>6. ServerWindow'
  BY <1>1, <1>2
  DEF ServerWindow, Latency, Reported, Completed, AcknowledgeMessage, clientVars,
      serverVars, Numeric
<1>7. ErrorsLast'
  BY <1>1 DEF ErrorsLast, AcknowledgeMessage, clientVars
<1>8. OneMessage'
  BY <1>1, <1>2, <1>3 DEF OneMessage, Reported, AcknowledgeMessage, serverVars,
     Numeric
<1>9. ReceivesCounted'
  <2>1. Count(scq', "recv") = Count(scq, "recv")
    BY <1>2, <1>3 DEF Numeric
  <2> QED
    BY <1>1, <2>1 DEF ReceivesCounted, AcknowledgeMessage, serverVars
<1> QED
  BY <1>4, <1>5, <1>6, <1>7, <1>8, <1>9 DEF IInv

\* A packet fails only when the server has left: the last one.
LEMMA FlushKeeps ==
  ASSUME IInv, Flush
  PROVE  IInv'
<1>1. TypeOK /\ ClientWindow /\ ServerWindow /\ ErrorsLast /\ OneMessage /\ ReceivesCounted
  BY DEF IInv
<1>2. Numeric
  BY <1>1, Numbers
<1>3. /\ ccq' \in Seq({"send", "recv", "error"}) /\ Len(ccq') = Len(ccq) + 1
      /\ \A kind : Count(ccq', kind) = Count(ccq, kind) + (IF "error" = kind THEN 1 ELSE 0)
  <2>1. ccq \in Seq({"send", "recv", "error"})
        /\ "error" \in {"send", "recv", "error"} /\ ccq' = Append(ccq, "error")
    BY <1>1 DEF TypeOK, Flush
  <2> QED
    BY <2>1, CountAppend
<1>4. TypeOK'
  BY <1>1 DEF TypeOK, Flush, clientVars, serverVars
<1>5. ClientWindow'
  BY <1>1, <1>2 DEF ClientWindow, Pending, Expected, Flush, clientVars, Numeric
<1>6. ServerWindow'
  BY <1>1, <1>2 DEF ServerWindow, Latency, Flush, clientVars, serverVars, Numeric
<1>7. ErrorsLast'
  BY <1>1, <1>2 DEF ErrorsLast, ServerWindow, Latency, Flush, clientVars, Numeric
<1>8. OneMessage'
  BY <1>1 DEF OneMessage, Reported, Flush, serverVars
<1>9. ReceivesCounted'
  BY <1>1 DEF ReceivesCounted, Flush, serverVars
<1> QED
  BY <1>4, <1>5, <1>6, <1>7, <1>8, <1>9 DEF IInv

\* The wait begins with tx_depth packets and perhaps the message.
LEMMA ClientWaitsKeeps ==
  ASSUME IInv, ClientWaits
  PROVE  IInv'
<1>1. TypeOK /\ ClientWindow /\ ServerWindow /\ ErrorsLast /\ OneMessage /\ ReceivesCounted
  BY DEF IInv
<1>2. Numeric
  BY <1>1, Numbers
<1>4. TypeOK'
  BY <1>1, PerfAssumption DEF TypeOK, ClientWaits, serverVars
<1>5. ClientWindow'
  BY <1>1, <1>2 DEF ClientWindow, Pending, Expected, ClientWaits, Numeric
<1>6. ServerWindow'
  BY <1>1 DEF ServerWindow, Latency, Reported, Completed, ClientWaits, serverVars
<1>7. ErrorsLast'
  BY <1>1 DEF ErrorsLast, ClientWaits
<1>8. OneMessage'
  BY <1>1 DEF OneMessage, Reported, ClientWaits, serverVars
<1>9. ReceivesCounted'
  BY <1>1 DEF ReceivesCounted, ClientWaits, serverVars
<1> QED
  BY <1>4, <1>5, <1>6, <1>7, <1>8, <1>9 DEF IInv

\* A packet is posted when no wait is due, or after it.
LEMMA ClientPostsKeeps ==
  ASSUME IInv, ClientPosts
  PROVE  IInv'
<1>1. TypeOK /\ ClientWindow /\ ServerWindow /\ ErrorsLast /\ OneMessage /\ ReceivesCounted
  BY DEF IInv
<1>2. Numeric
  BY <1>1, Numbers
<1>4. TypeOK'
  BY <1>1, <1>2 DEF TypeOK, ClientPosts, PacketNext, Post, serverVars, Numeric
<1>5. ClientWindow'
  <2>1. Pending' = Pending + 1
    BY <1>2 DEF Pending, Expected, ClientPosts, Post, Numeric
  <2>2. Since(i + 1) >= 1 /\ (~WaitDue => Since(i + 1) = Since(i) + 1)
    BY <1>2, SinceStep DEF WaitDue, Numeric
  <2>3. Pending + 1 <= Since(i + 1) + 1
    <3>1. Since(i + 1) \in Nat
      <4>1. i + 1 \in Nat
        BY <1>2 DEF Numeric
      <4> QED
        BY <4>1, SinceStep
    <3>2. (cpc = "loop" /\ ~WaitDue) \/ cpc = "waited"
      BY DEF ClientPosts, PacketNext
    <3>3. (cpc = "loop" => Pending <= Since(i) + 1) /\ (cpc = "waited" => Pending <= 1)
      BY <1>1 DEF ClientWindow
    <3> QED
      BY <1>2, <2>2, <3>1, <3>2, <3>3 DEF Numeric
  <2>4. cpc' = "loop" /\ i' = i + 1
    BY DEF ClientPosts
  <2> QED
    BY <2>1, <2>3, <2>4 DEF ClientWindow
<1>6. ServerWindow'
  <2>1. /\ i' = i + 1 /\ flying' = flying + 1 /\ i < ITERS
        /\ Completed' = Completed /\ Latency' = 0 /\ Latency = 0 /\ Reported' = Reported
    BY DEF ClientPosts, PacketNext, Post, Completed, Latency, Reported, serverVars
  <2> QED
    BY <1>1, <1>2, <2>1 DEF ServerWindow, ClientPosts, serverVars, Numeric
<1>7. ErrorsLast'
  BY <1>1 DEF ErrorsLast, ClientPosts, PacketNext
<1>8. OneMessage'
  BY <1>1 DEF OneMessage, Reported, ClientPosts, serverVars
<1>9. ReceivesCounted'
  BY <1>1 DEF ReceivesCounted, ClientPosts, serverVars
<1> QED
  BY <1>4, <1>5, <1>6, <1>7, <1>8, <1>9 DEF IInv

\* What the wait counts is no longer pending.
LEMMA ClientPollsKeeps ==
  ASSUME IInv, ClientPolls
  PROVE  IInv'
<1>1. TypeOK /\ ClientWindow /\ ServerWindow /\ ErrorsLast /\ OneMessage /\ ReceivesCounted
  BY DEF IInv
<1>2. Numeric
  BY <1>1, Numbers
<1>3. /\ cpc \in {"wait", "last"} /\ Goal[cpc] = (IF cpc = "wait" THEN DEPTH ELSE 1)
      /\ ccq' \in Seq({"send", "recv", "error"}) /\ Len(ccq') \in Nat
      /\ Len(Polled(ccq)) \in 1 .. WC_BATCH /\ Len(ccq') = Len(ccq) - Len(Polled(ccq))
      /\ Count(Polled(ccq), "error") \in Nat
      /\ Count(ccq, "error") = Count(Polled(ccq), "error") + Count(ccq', "error")
  <2>1. cpc \in {"wait", "last"} /\ Goal[cpc] = (IF cpc = "wait" THEN DEPTH ELSE 1)
    BY DEF ClientPolls, Goal
  <2>2. /\ ccq \in Seq({"send", "recv", "error"}) /\ ccq # <<>>
        /\ ccq' = Remaining(ccq)
    BY <1>1 DEF TypeOK, ClientPolls
  <2>3. /\ Polled(ccq) \in Seq({"send", "recv", "error"})
        /\ Remaining(ccq) \in Seq({"send", "recv", "error"})
        /\ Len(Polled(ccq)) \in 1 .. WC_BATCH
        /\ Len(Remaining(ccq)) = Len(ccq) - Len(Polled(ccq)) /\ Len(Remaining(ccq)) \in Nat
        /\ Count(ccq, "error") = Count(Polled(ccq), "error") + Count(Remaining(ccq), "error")
    BY <2>2, PollSplits
  <2>4. Count(Polled(ccq), "error") \in 0 .. Len(Polled(ccq))
    BY <2>3, CountType
  <2> QED
    BY <2>1, <2>2, <2>3, <2>4
<1>4. TypeOK'
  <2>1. ccnt' \in 0 .. DEPTH + WC_BATCH
    BY <1>2, <1>3 DEF ClientPolls, Numeric
  <2> QED
    BY <1>1, <1>3, <2>1 DEF TypeOK, ClientPolls, serverVars
<1>5. ClientWindow'
  <2>1. Pending' = Pending - Len(Polled(ccq))
    BY <1>2, <1>3 DEF Pending, Expected, ClientPolls, Numeric
  <2>2. CASE cpc = "wait"
    <3>1. Count(Polled(ccq), "error") = 0
      <4>1. Count(ccq, "error") \in Nat /\ Count(ccq', "error") \in Nat
        BY <1>3, CountType
      <4>2. ~(Count(ccq, "error") > 0)
        BY <1>1, <2>2 DEF ErrorsLast
      <4> QED
        BY <1>3, <4>1, <4>2
    <3>2. ccnt' = ccnt + Len(Polled(ccq)) /\ cpc' = cpc
      BY <3>1 DEF ClientPolls
    <3> QED
      BY <1>1, <1>2, <2>1, <2>2, <3>2 DEF ClientWindow, Numeric
  <2>3. CASE cpc = "last"
    BY <1>1, <1>2, <2>1, <2>3 DEF ClientWindow, ClientPolls, Numeric
  <2> QED
    BY <1>3, <2>2, <2>3
<1>6. ServerWindow'
  BY <1>1 DEF ServerWindow, Latency, Reported, Completed, ClientPolls, serverVars
<1>7. ErrorsLast'
  <2>1. Count(ccq, "error") \in Nat /\ Count(ccq', "error") \in Nat
    BY <1>3, CountType
  <2>2. Count(ccq', "error") <= Count(ccq, "error") /\ cpc' = cpc
    BY <1>3, <2>1 DEF ClientPolls
  <2> QED
    BY <1>1, <2>1, <2>2 DEF ErrorsLast
<1>8. OneMessage'
  BY <1>1 DEF OneMessage, Reported, ClientPolls, serverVars
<1>9. ReceivesCounted'
  BY <1>1 DEF ReceivesCounted, ClientPolls, serverVars
<1> QED
  BY <1>4, <1>5, <1>6, <1>7, <1>8, <1>9 DEF IInv

\* At most one completion is left behind.
LEMMA ClientWaitedKeeps ==
  ASSUME IInv, ClientWaited
  PROVE  IInv'
<1>1. TypeOK /\ ClientWindow /\ ServerWindow /\ ErrorsLast /\ OneMessage /\ ReceivesCounted
  BY DEF IInv
<1>2. Numeric
  BY <1>1, Numbers
<1>4. TypeOK'
  BY <1>1 DEF TypeOK, ClientWaited, serverVars
<1>5. ClientWindow'
  BY <1>1, <1>2 DEF ClientWindow, Pending, Expected, ClientWaited, Numeric
<1>6. ServerWindow'
  BY <1>1 DEF ServerWindow, Latency, Reported, Completed, ClientWaited, serverVars
<1>7. ErrorsLast'
  BY <1>1 DEF ErrorsLast, ClientWaited
<1>8. OneMessage'
  BY <1>1 DEF OneMessage, Reported, ClientWaited, serverVars
<1>9. ReceivesCounted'
  BY <1>1 DEF ReceivesCounted, ClientWaited, serverVars
<1> QED
  BY <1>4, <1>5, <1>6, <1>7, <1>8, <1>9 DEF IInv

\* Fewer places are taken than completions pending.
LEMMA PlacesTaken ==
  ASSUME TypeOK
  PROVE  Outstanding \in Nat /\ Outstanding <= Pending
<1>1. Numeric
  BY Numbers
<1>2. Count(ccq, "send") + Count(ccq, "error") <= Len(ccq)
  BY CountTwo DEF TypeOK
<1>3. /\ flying \in Nat /\ unacked \in Nat /\ Expected \in {0, 1} /\ Len(ccq) \in Nat
      /\ Count(ccq, "send") \in Nat /\ Count(ccq, "error") \in Nat
  BY <1>1 DEF Numeric
<1>4. Outstanding \in Nat
  BY <1>3 DEF Outstanding
<1> QED
  BY <1>2, <1>3, <1>4 DEF Outstanding, Pending

\* A post is refused only by a send queue of tx_depth places, or, when it is the
\* last packet's, of one more: as many completions as that are never pending.
LEMMA PostFailsKeeps ==
  ASSUME IInv, PostFails
  PROVE  IInv'
<1>1. TypeOK /\ ClientWindow /\ ServerWindow /\ ErrorsLast /\ OneMessage /\ ReceivesCounted
  BY DEF IInv
<1>2. Numeric
  BY <1>1, Numbers
<1>3. /\ cpc \in {"loop", "waited"} /\ cpc' = "failed" /\ i' = i /\ sq_size' = sq_size
      /\ Pending' = Pending /\ Outstanding >= sq_size
  BY DEF PostFails, PacketNext, LatencyNext, Pending, Expected
<1>4. TypeOK'
  BY <1>1 DEF TypeOK, PostFails, serverVars
<1>5. ClientWindow'
  <2>1. sq_size \in Nat /\ sq_size >= DEPTH
    BY <1>1, PerfAssumption DEF TypeOK
  <2>2. Outstanding \in Nat /\ sq_size <= Pending
    BY <1>1, <1>2, <1>3, <2>1, PlacesTaken DEF Numeric
  <2>3. CASE cpc = "waited"
    BY <1>1, <1>2, <1>3, <2>1, <2>2, <2>3 DEF ClientWindow, Numeric
  <2>4. CASE cpc = "loop" /\ i = ITERS
    BY <1>1, <1>2, <1>3, <2>1, <2>2, <2>4 DEF ClientWindow, Numeric
  <2>5. CASE cpc = "loop" /\ i < ITERS /\ ~WaitDue
    <3>1. Since(i) <= DEPTH - 1
      <4>1. i % DEPTH \in 0 .. DEPTH - 1
        BY <1>2 DEF Numeric
      <4> DEFINE r == i % DEPTH
      <4>2. r \in 0 .. DEPTH - 1 /\ (i # 0 => r # 0)
        BY <2>5, <4>1 DEF WaitDue
      <4>3. Since(i) = IF i = 0 THEN 0 ELSE IF r = 0 THEN DEPTH ELSE r
        BY DEF Since
      <4> HIDE DEF r
      <4> QED
        BY <1>2, <4>2, <4>3 DEF Numeric
    <3> QED
      BY <1>1, <1>2, <1>3, <2>1, <2>2, <2>5, <3>1 DEF ClientWindow, Numeric
  <2> QED
    BY <2>3, <2>4, <2>5 DEF PostFails, PacketNext, LatencyNext
<1>6. ServerWindow'
  <2>1. /\ Completed' = Completed /\ Latency' = 0 /\ Latency = 0 /\ Reported' = Reported
        /\ flying' = flying /\ spc' = spc
    BY <1>3 DEF PostFails, Completed, Latency, Reported, serverVars
  <2> QED
    BY <1>1, <1>3, <2>1 DEF ServerWindow
<1>7. ErrorsLast'
  BY <1>1, <1>3 DEF ErrorsLast, PostFails
<1>8. OneMessage'
  BY <1>1 DEF OneMessage, Reported, PostFails, serverVars
<1>9. ReceivesCounted'
  BY <1>1 DEF ReceivesCounted, PostFails, serverVars
<1> QED
  BY <1>4, <1>5, <1>6, <1>7, <1>8, <1>9 DEF IInv

\* The last packet is posted without a wait.
LEMMA MeasureLatencyKeeps ==
  ASSUME IInv, MeasureLatency
  PROVE  IInv'
<1>1. TypeOK /\ ClientWindow /\ ServerWindow /\ ErrorsLast /\ OneMessage /\ ReceivesCounted
  BY DEF IInv
<1>2. Numeric
  BY <1>1, Numbers
<1>4. TypeOK'
  BY <1>1, <1>2 DEF TypeOK, MeasureLatency, Post, serverVars, Numeric
<1>5. ClientWindow'
  <2>1. Pending' = Pending + 1
    BY <1>2 DEF Pending, Expected, MeasureLatency, Post, Numeric
  <2> QED
    BY <1>1, <1>2, <2>1 DEF ClientWindow, MeasureLatency, LatencyNext, Numeric
<1>6. ServerWindow'
  <2>1. /\ flying' = flying + 1 /\ i' = i /\ spc' = spc
        /\ Completed' = Completed /\ Latency' = 1 /\ Latency = 0 /\ Reported' = Reported
    BY DEF MeasureLatency, LatencyNext, Post, Completed, Latency, Reported, serverVars
  <2> QED
    BY <1>1, <1>2, <2>1 DEF ServerWindow, Numeric
<1>7. ErrorsLast'
  BY DEF ErrorsLast, MeasureLatency
<1>8. OneMessage'
  BY <1>1 DEF OneMessage, Reported, MeasureLatency, serverVars
<1>9. ReceivesCounted'
  BY <1>1 DEF ReceivesCounted, MeasureLatency, serverVars
<1> QED
  BY <1>4, <1>5, <1>6, <1>7, <1>8, <1>9 DEF IInv

\* The client ends.
LEMMA ClientDoneKeeps ==
  ASSUME IInv, ClientDone
  PROVE  IInv'
<1>1. TypeOK /\ ClientWindow /\ ServerWindow /\ ErrorsLast /\ OneMessage /\ ReceivesCounted
  BY DEF IInv
<1>2. Numeric
  BY <1>1, Numbers
<1>4. TypeOK'
  BY <1>1 DEF TypeOK, ClientDone, serverVars
<1>5. ClientWindow'
  BY <1>1 DEF ClientWindow, Pending, Expected, ClientDone
<1>6. ServerWindow'
  BY <1>1 DEF ServerWindow, Latency, Reported, Completed, ClientDone, serverVars
<1>7. ErrorsLast'
  BY DEF ErrorsLast, ClientDone
<1>8. OneMessage'
  BY <1>1 DEF OneMessage, Reported, ClientDone, serverVars
<1>9. ReceivesCounted'
  BY <1>1 DEF ReceivesCounted, ClientDone, serverVars
<1> QED
  BY <1>4, <1>5, <1>6, <1>7, <1>8, <1>9 DEF IInv

\* The server's only message.
LEMMA ServerPostsKeeps ==
  ASSUME IInv, ServerPosts
  PROVE  IInv'
<1>1. TypeOK /\ ClientWindow /\ ServerWindow /\ ErrorsLast /\ OneMessage /\ ReceivesCounted
  BY DEF IInv
<1>2. Numeric
  BY <1>1, Numbers
<1>4. TypeOK'
  BY <1>1, PerfAssumption DEF TypeOK, ServerPosts, clientVars
<1>5. ClientWindow'
  <2>1. Pending' = Pending
    BY <1>1 DEF Pending, Expected, ServerPosts, OneMessage
  <2> QED
    BY <1>1, <2>1 DEF ClientWindow, ServerPosts, clientVars
<1>6. ServerWindow'
  <2>1. /\ Completed' = Completed /\ Latency' = Latency /\ Reported' = 0 /\ Reported = 0
    BY <1>1 DEF Completed, Latency, Reported, ServerPosts, OneMessage, clientVars
  <2> QED
    BY <1>1, <2>1 DEF ServerWindow, ServerPosts, clientVars
<1>7. ErrorsLast'
  BY <1>1 DEF ErrorsLast, ServerPosts, clientVars
<1>8. OneMessage'
  BY <1>1 DEF OneMessage, Reported, ServerPosts
<1>9. ReceivesCounted'
  BY <1>1 DEF ReceivesCounted, ServerPosts
<1> QED
  BY <1>4, <1>5, <1>6, <1>7, <1>8, <1>9 DEF IInv

\* Completions move from the queue to the server.
LEMMA ServerPollsKeeps ==
  ASSUME IInv, ServerPolls
  PROVE  IInv'
<1>1. TypeOK /\ ClientWindow /\ ServerWindow /\ ErrorsLast /\ OneMessage /\ ReceivesCounted
  BY DEF IInv
<1>2. Numeric
  BY <1>1, Numbers
<1>3. /\ scq' \in Seq({"send", "recv"}) /\ wc' \in Seq({"send", "recv"})
      /\ Len(scq') \in Nat /\ Len(wc') \in 1 .. WC_BATCH
      /\ Len(scq') = Len(scq) - Len(wc') /\ Len(wc) = 0
      /\ \A kind : Count(scq, kind) = Count(wc', kind) + Count(scq', kind) /\ Count(wc, kind) = 0
      /\ \A kind : Count(wc', kind) \in Nat /\ Count(scq', kind) \in Nat
  <2>1. /\ scq \in Seq({"send", "recv"}) /\ scq # <<>> /\ wc = <<>>
        /\ scq' = Remaining(scq) /\ wc' = Polled(scq)
    BY <1>1 DEF TypeOK, ServerPolls
  <2>2. /\ Polled(scq) \in Seq({"send", "recv"}) /\ Remaining(scq) \in Seq({"send", "recv"})
        /\ Len(Polled(scq)) \in 1 .. WC_BATCH
        /\ Len(Remaining(scq)) = Len(scq) - Len(Polled(scq)) /\ Len(Remaining(scq)) \in Nat
        /\ \A kind : Count(scq, kind) = Count(Polled(scq), kind) + Count(Remaining(scq), kind)
    BY <2>1, PollSplits
  <2>3. ASSUME NEW kind
        PROVE  Count(Polled(scq), kind) \in Nat /\ Count(Remaining(scq), kind) \in Nat
    <3>1. /\ Count(Polled(scq), kind) \in 0 .. Len(Polled(scq))
          /\ Count(Remaining(scq), kind) \in 0 .. Len(Remaining(scq))
      BY <2>2, CountType
    <3> QED
      BY <3>1
  <2>4. Len(wc) = 0 /\ \A kind : Count(wc, kind) = 0
    BY <2>1, CountEmpty
  <2> QED
    BY <2>1, <2>2, <2>3, <2>4
<1>4. TypeOK'
  BY <1>1, <1>3 DEF TypeOK, ServerPolls, clientVars
<1>5. ClientWindow'
  BY <1>1 DEF ClientWindow, Pending, Expected, ServerPolls, clientVars
<1>6. ServerWindow'
  <2>1. Completed' = Completed /\ Latency' = Latency /\ Reported' = Reported
    BY <1>2, <1>3 DEF Completed, Latency, Reported, ServerPolls, clientVars, Numeric
  <2> QED
    BY <1>1, <2>1 DEF ServerWindow, ServerPolls, clientVars
<1>7. ErrorsLast'
  BY <1>1 DEF ErrorsLast, ServerPolls, clientVars
<1>8. OneMessage'
  <2>1. Count(scq', "send") + Count(wc', "send") <= Reported'
    BY <1>1, <1>3 DEF OneMessage, Reported, ServerPolls
  <2>2. scnt < ITERS /\ spc # "start"
    BY <1>2 DEF ServerPolls, ServerGoal, Numeric
  <2> QED
    BY <1>2, <1>3, <2>1, <2>2 DEF OneMessage, ServerPolls, Numeric
<1>9. ReceivesCounted'
  <2>1. Count(scq, "recv") = Count(wc', "recv") + Count(scq', "recv")
        /\ Count(wc, "recv") = 0
    BY <1>3
  <2>2. Count(wc', "recv") \in Nat /\ Count(scq', "recv") \in Nat /\ rq \in Nat
    BY <1>2, <1>3 DEF Numeric
  <2> QED
    BY <1>1, <2>1, <2>2 DEF ReceivesCounted, ServerPolls
<1> QED
  BY <1>4, <1>5, <1>6, <1>7, <1>8, <1>9 DEF IInv

\* A receive is counted, and perhaps the queue filled again.
LEMMA ServerCountsKeeps ==
  ASSUME IInv, ServerCounts
  PROVE  IInv'
<1>1. TypeOK /\ ClientWindow /\ ServerWindow /\ ErrorsLast /\ OneMessage /\ ReceivesCounted
  BY DEF IInv
<1>2. Numeric
  BY <1>1, Numbers
<1>3. /\ Head(wc) \in {"send", "recv"} /\ wc' \in Seq({"send", "recv"})
      /\ Len(wc) \in Nat \ {0} /\ Len(wc') = Len(wc) - 1
      /\ Count(wc, "recv") = Count(wc', "recv") + (IF Head(wc) = "recv" THEN 1 ELSE 0)
      /\ Count(wc, "send") = Count(wc', "send") + (IF Head(wc) = "send" THEN 1 ELSE 0)
      /\ Count(wc', "recv") \in Nat /\ Count(wc', "send") \in Nat
  <2>1. wc \in Seq({"send", "recv"}) /\ wc # <<>> /\ wc' = Tail(wc)
    BY <1>1 DEF TypeOK, ServerCounts
  <2>2. /\ Head(wc) \in {"send", "recv"} /\ Tail(wc) \in Seq({"send", "recv"})
        /\ Len(wc) \in Nat \ {0} /\ Len(Tail(wc)) = Len(wc) - 1
        /\ Count(wc, "recv") = Count(Tail(wc), "recv") + (IF Head(wc) = "recv" THEN 1 ELSE 0)
        /\ Count(wc, "send") = Count(Tail(wc), "send") + (IF Head(wc) = "send" THEN 1 ELSE 0)
    BY <2>1, CountHead
  <2>3. /\ Count(Tail(wc), "recv") \in 0 .. Len(Tail(wc))
        /\ Count(Tail(wc), "send") \in 0 .. Len(Tail(wc))
    BY <2>2, CountType
  <2> QED
    BY <2>1, <2>2, <2>3
<1>4. TypeOK'
  <2>1. scnt' \in 0 .. ITERS + WC_BATCH
    BY <1>1, <1>2 DEF OneMessage, ServerCounts, Numeric
  <2>2. rq' \in 0 .. DEPTH /\ routs' \in 0 .. DEPTH
    <3>1. CASE Head(wc) = "recv"
      <4>1. /\ rq' = rq + (IF routs - 1 <= REFILL THEN DEPTH - (routs - 1) ELSE 0)
            /\ routs' = routs - 1 + (IF routs - 1 <= REFILL THEN DEPTH - (routs - 1) ELSE 0)
        BY <3>1 DEF ServerCounts, Counted, Reposted
      <4>2. Count(scq, "recv") \in Nat /\ Count(wc, "recv") >= 1
        BY <1>2, <1>3, <3>1 DEF Numeric
      <4>3. /\ routs = rq + Count(scq, "recv") + Count(wc, "recv")
            /\ routs <= DEPTH
        BY <1>1 DEF ReceivesCounted, TypeOK
      <4>4. rq \in Nat /\ routs \in Nat /\ DEPTH \in Nat /\ REFILL \in Nat /\ REFILL < DEPTH
        BY <1>2, PerfAssumption DEF Numeric
      <4>5. Count(wc, "recv") \in Nat
        BY <1>2 DEF Numeric
      <4> QED
        BY <4>1, <4>2, <4>3, <4>4, <4>5
    <3>2. CASE Head(wc) # "recv"
      BY <1>1, <3>2 DEF TypeOK, ServerCounts
    <3> QED
      BY <3>1, <3>2
  <2> QED
    BY <1>1, <2>1, <2>2 DEF TypeOK, ServerCounts, clientVars
<1>5. ClientWindow'
  BY <1>1 DEF ClientWindow, Pending, Expected, ServerCounts, clientVars
<1>6. ServerWindow'
  <2>1. Completed' = Completed /\ Latency' = Latency /\ Reported' = Reported
    BY <1>2 DEF Completed, Latency, Reported, ServerCounts, clientVars, Numeric
  <2> QED
    BY <1>1, <2>1 DEF ServerWindow, ServerCounts, clientVars
<1>7. ErrorsLast'
  BY <1>1 DEF ErrorsLast, ServerCounts, clientVars
<1>8. OneMessage'
  <2>1. Count(scq, "send") \in Nat /\ Count(wc, "send") \in Nat
    BY <1>2 DEF Numeric
  <2>2. Count(wc', "send") <= Count(wc, "send")
    BY <1>3
  <2>3. scq' = scq /\ Reported' = Reported /\ scnt' = scnt + 1 /\ spc' = spc /\ wc # <<>>
    BY DEF ServerCounts, Reported
  <2>4. Count(wc', "send") \in Nat /\ Len(wc) \in Nat /\ Len(wc') = Len(wc) - 1
    BY <1>3
  <2>5. scnt \in Nat /\ Reported \in Nat /\ ITERS \in Nat /\ WC_BATCH \in Nat
    BY <1>2 DEF Numeric
  <2>6. /\ Count(scq, "send") + Count(wc, "send") <= Reported
        /\ spc # "start" /\ scnt + Len(wc) <= ITERS + WC_BATCH
    BY <1>1, <2>3 DEF OneMessage
  <2>7. Count(scq, "send") + Count(wc', "send") <= Reported
    BY <2>1, <2>2, <2>4, <2>5, <2>6
  <2>8. scnt + 1 + Len(wc') <= ITERS + WC_BATCH
    BY <2>4, <2>5, <2>6
  <2> QED
    BY <2>3, <2>6, <2>7, <2>8 DEF OneMessage
<1>9. ReceivesCounted'
  <2>1. CASE Head(wc) = "recv"
    <3>1. /\ rq' = rq + (IF routs - 1 <= REFILL THEN DEPTH - (routs - 1) ELSE 0)
          /\ routs' = routs - 1 + (IF routs - 1 <= REFILL THEN DEPTH - (routs - 1) ELSE 0)
          /\ scq' = scq
      BY <2>1 DEF ServerCounts, Counted, Reposted
    <3>2. Count(scq, "recv") \in Nat /\ Count(wc, "recv") = Count(wc', "recv") + 1
      BY <1>2, <1>3, <2>1 DEF Numeric
    <3>3. routs = rq + Count(scq, "recv") + Count(wc, "recv") /\ routs > REFILL
      BY <1>1 DEF ReceivesCounted
    <3>4. REFILL < DEPTH
      BY PerfAssumption
    <3>5. rq \in Nat /\ routs \in Nat /\ DEPTH \in Nat /\ REFILL \in Nat
      BY <1>2 DEF Numeric
    <3>6. Count(wc', "recv") \in Nat
      BY <1>3
    <3>7. routs' = rq' + Count(scq, "recv") + Count(wc', "recv") /\ routs' > REFILL
      BY <3>1, <3>2, <3>3, <3>4, <3>5, <3>6
    <3> QED
      BY <3>1, <3>7 DEF ReceivesCounted
  <2>2. CASE Head(wc) # "recv"
    BY <1>1, <1>3, <2>2 DEF ReceivesCounted, ServerCounts
  <2> QED
    BY <2>1, <2>2
<1> QED
  BY <1>4, <1>5, <1>6, <1>7, <1>8, <1>9 DEF IInv

\* The second wait forgets what the first has counted too many.
LEMMA ServerWaitsAgainKeeps ==
  ASSUME IInv, ServerWaitsAgain
  PROVE  IInv'
<1>1. TypeOK /\ ClientWindow /\ ServerWindow /\ ErrorsLast /\ OneMessage /\ ReceivesCounted
  BY DEF IInv
<1>2. Numeric
  BY <1>1, Numbers
<1>4. TypeOK'
  BY <1>1, PerfAssumption DEF TypeOK, ServerWaitsAgain, clientVars
<1>5. ClientWindow'
  BY <1>1 DEF ClientWindow, Pending, Expected, ServerWaitsAgain, clientVars
<1>6. ServerWindow'
  BY <1>1, <1>2
  DEF ServerWindow, Latency, Reported, Completed, ServerWaitsAgain, clientVars,
     Numeric
<1>7. ErrorsLast'
  BY <1>1 DEF ErrorsLast, ServerWaitsAgain, clientVars
<1>8. OneMessage'
  BY <1>1, PerfAssumption DEF OneMessage, Reported, ServerWaitsAgain
<1>9. ReceivesCounted'
  BY <1>1 DEF ReceivesCounted, ServerWaitsAgain
<1> QED
  BY <1>4, <1>5, <1>6, <1>7, <1>8, <1>9 DEF IInv

\* The server leaves when all packets but one have come.
LEMMA ServerDoneKeeps ==
  ASSUME IInv, ServerDone
  PROVE  IInv'
<1>1. TypeOK /\ ClientWindow /\ ServerWindow /\ ErrorsLast /\ OneMessage /\ ReceivesCounted
  BY DEF IInv
<1>2. Numeric
  BY <1>1, Numbers
<1>4. TypeOK'
  BY <1>1 DEF TypeOK, ServerDone, clientVars
<1>5. ClientWindow'
  BY <1>1 DEF ClientWindow, Pending, Expected, ServerDone, clientVars
<1>6. ServerWindow'
  <2>1. spc = "last" /\ spc' = "done" /\ i' = i /\ flying' = flying /\ Latency' = Latency
    BY DEF ServerDone, Latency, clientVars
  <2>2. Completed >= 1
    BY <1>2 DEF Completed, ServerDone, Numeric
  <2>3. ITERS + 1 <= i + Latency - flying + 1
    BY <1>1, <1>2, <2>1, <2>2 DEF ServerWindow, Numeric
  <2>4. i <= ITERS /\ (Latency = 1 => i = ITERS)
    BY <1>1 DEF TypeOK, ClientWindow, Latency
  <2>5. i = ITERS /\ flying <= Latency
    BY <1>2, <2>3, <2>4 DEF Numeric
  <2> QED
    BY <2>1, <2>5 DEF ServerWindow
<1>7. ErrorsLast'
  BY <1>1 DEF ErrorsLast, ServerDone, clientVars
<1>8. OneMessage'
  BY <1>1 DEF OneMessage, Reported, ServerDone
<1>9. ReceivesCounted'
  BY <1>1 DEF ReceivesCounted, ServerDone
<1> QED
  BY <1>4, <1>5, <1>6, <1>7, <1>8, <1>9 DEF IInv

\* The invariant holds initially.
LEMMA InitInv == Init => IInv
<1> SUFFICES ASSUME Init PROVE IInv
  OBVIOUS
<1>1. \A kind : Count(<<>>, kind) = 0
  BY CountEmpty
<1>2. Len(<<>>) = 0 /\ \A S : <<>> \in Seq(S)
  OBVIOUS
<1>3. TypeOK
  BY PerfAssumption DEF Init, TypeOK
<1>4. ClientWindow
  BY DEF Init, ClientWindow, Pending, Expected, Since
<1>5. ServerWindow
  BY DEF Init, ServerWindow, Completed, Latency, Reported
<1>6. ErrorsLast /\ OneMessage /\ ReceivesCounted
  BY <1>1, PerfAssumption DEF Init, ErrorsLast, OneMessage, Reported,
     ReceivesCounted
<1> QED
  BY <1>3, <1>4, <1>5, <1>6 DEF IInv

\* Every step keeps it.
LEMMA NextInv == IInv /\ [Next]_vars => IInv'
<1> SUFFICES ASSUME IInv, [Next]_vars PROVE IInv'
  OBVIOUS
<1>1. CASE ClientStep
  BY <1>1, ClientWaitsKeeps, ClientPostsKeeps, ClientPollsKeeps, ClientWaitedKeeps,
     MeasureLatencyKeeps, PostFailsKeeps, ClientDoneKeeps
  DEF ClientStep
<1>2. CASE ServerStep
  BY <1>2, ServerPostsKeeps, ServerPollsKeeps, ServerCountsKeeps,
     ServerWaitsAgainKeeps,
     ServerDoneKeeps
  DEF ServerStep
<1>3. CASE NetStep
  BY <1>3, DeliverKeeps, AcknowledgeKeeps, DeliverMessageKeeps,
     AcknowledgeMessageKeeps,
     FlushKeeps
  DEF NetStep
<1>4. CASE UNCHANGED vars
  BY <1>4
  DEF IInv, TypeOK, ClientWindow, ServerWindow, ErrorsLast, OneMessage,
     ReceivesCounted,
      Pending, Expected, Latency, Reported, Completed, vars, clientVars, serverVars
<1> QED
  BY <1>1, <1>2, <1>3, <1>4 DEF Next

\* The invariant holds in every state.
LEMMA PerfInv == Spec => []IInv
<1> QED
  BY InitInv, NextInv, PTL DEF Spec

(***************************************************************************)
(* The theorems                                                            *)
(***************************************************************************)

\* The programs' counters and queues keep their types.
THEOREM PerfTypeOK == Spec => []TypeOK
<1>1. IInv => TypeOK
  BY DEF IInv
<1> QED
  BY <1>1, PerfInv, PTL

\* pp_wait_completions counts the server's receives right, in any order of
\* completions, and some always remain (pp_post_recv is called in time).
THEOREM PerfReceivesCounted == Spec => []ReceivesCounted
<1>1. IInv => ReceivesCounted
  BY DEF IInv
<1> QED
  BY <1>1, PerfInv, PTL

\* The invariant tells which send queues refuse a post and bounds the completion
\* queues: a depth of at least two makes room for the server's message and the
\* last packet.
LEMMA QueuesBounded ==
  ASSUME IInv, DEPTH >= 2
  PROVE  QueuesFit
<1>1. TypeOK /\ ClientWindow /\ OneMessage /\ ReceivesCounted
  BY DEF IInv
<1>2. /\ Len(ccq) \in Nat /\ Len(scq) \in Nat
      /\ Count(ccq, "send") \in Nat /\ Count(ccq, "error") \in Nat
      /\ Count(scq, "send") \in Nat /\ Count(scq, "recv") \in Nat
      /\ Count(wc, "send") \in Nat /\ Count(wc, "recv") \in Nat
      /\ Since(i) \in 0 .. DEPTH /\ Reported \in {0, 1} /\ Expected \in {0, 1}
      /\ flying \in Nat /\ unacked \in Nat /\ ccnt \in Nat /\ rq \in Nat /\ DEPTH \in Nat
  BY <1>1, Numbers DEF Numeric
<1>3. Pending <= DEPTH + 2
  <2>1. Pending \in Nat
    BY <1>1, Numbers DEF Numeric
  <2>2. cpc \in {"loop", "wait", "waited", "last", "done", "failed"}
    BY <1>1 DEF TypeOK
  <2> QED
    BY <1>1, <1>2, <2>1, <2>2 DEF ClientWindow
<1>5. Count(scq, "send") + Count(scq, "recv") = Len(scq)
  <2>1. scq \in Seq({"send", "recv"}) /\ "send" # "recv"
    BY <1>1 DEF TypeOK
  <2> QED
    BY <2>1, CountTwo
<1>6. Len(ccq) <= 2 * DEPTH
  BY <1>2, <1>3 DEF Pending
<1>7. Len(scq) <= 2 * DEPTH
  <2>1. Count(scq, "send") <= 1
    BY <1>1, <1>2 DEF OneMessage
  <2>2. Count(scq, "recv") <= DEPTH
    <3>1. routs <= DEPTH /\ routs \in Nat
      BY <1>1 DEF TypeOK
    <3> QED
      BY <1>1, <1>2, <3>1 DEF ReceivesCounted
  <2> QED
    BY <1>2, <1>5, <2>1, <2>2
<1> QED
  BY <1>1, <1>6, <1>7 DEF QueuesFit, ClientWindow

\* A send queue of two places more than max_send_wr refuses no post, one of a
\* single place more none but the latency packet's, and no completion queue
\* overflows, for any number of packets, depth and poll size.
THEOREM PerfQueuesFit ==
  ASSUME DEPTH >= 2
  PROVE  Spec => []QueuesFit
<1>1. IInv => QueuesFit
  BY QueuesBounded
<1> QED
  BY <1>1, PerfInv, PTL
=============================================================================
