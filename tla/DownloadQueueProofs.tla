------------------------ MODULE DownloadQueueProofs ------------------------
(***************************************************************************)
(* Lemmas about the operators of BlockDownload on the queues of the peers  *)
(* and mapBlocksInFlight, for any finite block tree, any peers and limits. *)
(***************************************************************************)
EXTENDS BlockDownload, BlockIndexProofs

(* Blocks of a branch from the lowest up. *)

Below(S, b) == {x \in S : Height[x] < Height[b]}

\* ByHeight lists every block of a part of one branch once.
LEMMA ByHeightLists ==
  ASSUME NEW top \in Blocks, NEW S \in SUBSET Ancestry[top]
  PROVE  /\ IsFiniteSet(S) /\ Cardinality(S) \in Nat
         /\ ByHeight(S) \in [1 .. Cardinality(S) -> S]
         /\ \A i, j \in 1 .. Cardinality(S) : ByHeight(S)[i] = ByHeight(S)[j] => i = j
         /\ \A b \in S : \E i \in 1 .. Cardinality(S) : ByHeight(S)[i] = b
<1> DEFINE n == Cardinality(S)
           rank == [b \in S |-> Cardinality(Below(S, b)) + 1]
<1>1. S \subseteq Blocks
  BY Tree, Zenon
<1>2. IsFiniteSet(S) /\ n \in Nat
  BY <1>1, BlockTree, FS_Subset, FS_CardinalityType, Zenon
<1>3. ASSUME NEW b \in S
      PROVE  IsFiniteSet(Below(S, b)) /\ Cardinality(Below(S, b)) \in 0 .. n - 1
  <2>1. Below(S, b) \subseteq S \ {b}
    BY <1>1, BlockTree DEF Below
  <2>2. IsFiniteSet(S \ {b}) /\ Cardinality(S \ {b}) = n - 1
    BY <1>2, FS_RemoveElement, Zenon
  <2>3. IsFiniteSet(Below(S, b)) /\ Cardinality(Below(S, b)) <= n - 1
    BY <2>1, <2>2, FS_Subset
  <2>4. Cardinality(Below(S, b)) \in Nat
    BY <2>3, FS_CardinalityType, Zenon
  <2> QED BY <1>2, <2>3, <2>4
<1>4. ASSUME NEW a \in S, NEW b \in S, Height[a] < Height[b]
      PROVE  Cardinality(Below(S, a)) # Cardinality(Below(S, b))
  <2>1. Below(S, a) \subseteq Below(S, b) /\ Below(S, a) # Below(S, b)
    BY <1>1, <1>4, BlockTree DEF Below
  <2> QED BY <1>3, <2>1, FS_Subset, Zenon
<1>5. rank \in [S -> 1 .. n] /\ \A a, b \in S : rank[a] = rank[b] => a = b
  <2>1. rank \in [S -> 1 .. n]
    BY <1>2, <1>3
  <2>2. ASSUME NEW a \in S, NEW b \in S, rank[a] = rank[b], a # b PROVE FALSE
    <3>1. Height[a] < Height[b] \/ Height[b] < Height[a]
      BY <2>2, HeightsDiffer, Zenon
    <3>2. Cardinality(Below(S, a)) # Cardinality(Below(S, b))
      BY <1>4, <3>1, Zenon
    <3> QED BY <1>3, <2>2, <3>2
  <2> QED BY <2>1, <2>2, Zenon
<1> HIDE DEF rank
<1>6. rank \in Injection(S, 1 .. n)
  BY <1>5, Zenon DEF Injection, IsInjective
<1>7. IsFiniteSet(1 .. n) /\ Cardinality(1 .. n) = n
  BY <1>2, FS_Interval
<1>8. rank \in Surjection(S, 1 .. n)
  BY <1>6, <1>7, FS_Injection, Zenon
<1>9. \A i \in 1 .. n : \E b \in S : rank[b] = i
  BY <1>8, Zenon DEF Surjection
<1>10. ASSUME NEW i \in 1 .. n
       PROVE  ByHeight(S)[i] \in S /\ rank[ByHeight(S)[i]] = i
  <2>1. PICK b \in S : rank[b] = i
    BY <1>9, Zenon
  <2>2. Cardinality(Below(S, b)) = i - 1
    BY <1>3, <2>1 DEF rank
  <2>3. ByHeight(S)[i] = CHOOSE x \in S : Cardinality(Below(S, x)) = i - 1
    BY Zenon DEF ByHeight, Below
  <2>4. ByHeight(S)[i] \in S /\ Cardinality(Below(S, ByHeight(S)[i])) = i - 1
    BY <2>2, <2>3, Zenon
  <2> QED BY <1>3, <2>4 DEF rank
<1>11. ByHeight(S) \in [1 .. n -> S]
  <2> DEFINE At(i) == CHOOSE b \in S : Cardinality({x \in S : Height[x] < Height[b]}) = i - 1
  <2>1. ByHeight(S) = [i \in 1 .. n |-> At(i)]
    BY Zenon DEF ByHeight
  <2> HIDE DEF At
  <2> QED BY <1>10, <2>1, Zenon
<1>12. ASSUME NEW b \in S PROVE \E i \in 1 .. n : ByHeight(S)[i] = b
  <2>1. rank[b] \in 1 .. n
    BY <1>5, Zenon
  <2> QED BY <1>5, <1>10, <2>1, Zenon
<1> QED BY <1>2, <1>10, <1>11, <1>12, Zenon

-----------------------------------------------------------------------------
(* Queues. *)

Distinct(q) == \A i, j \in DOMAIN q : q[i].hash = q[j].hash => i = j

LEMMA QueueHashes ==
  ASSUME NEW q \in Seq(QueuedBlock)
  PROVE  Hashes(q) \subseteq Blocks /\ (q = <<>> <=> Hashes(q) = {}) /\ (q = <<>> <=> Len(q) = 0)
<1>1. \A i \in DOMAIN q : q[i] \in QueuedBlock
  OBVIOUS
<1>2. Hashes(q) \subseteq Blocks
  BY <1>1, Zenon DEF Hashes, QueuedBlock
<1>3. q = <<>> <=> Len(q) = 0
  OBVIOUS
<1>4. CASE Len(q) = 0
  <2>1. DOMAIN q = {}
    BY <1>4
  <2>2. Hashes(q) = {}
    BY <2>1, Zenon DEF Hashes
  <2> QED BY <1>2, <1>3, <1>4, <2>2, Zenon
<1>5. CASE Len(q) # 0
  <2>1. 1 \in DOMAIN q
    BY <1>5
  <2>2. q[1].hash \in Hashes(q)
    BY <2>1, Zenon DEF Hashes
  <2> QED BY <1>2, <1>3, <1>5, <2>2, Zenon
<1> QED BY <1>4, <1>5, Zenon

LEMMA SameQueue ==
  ASSUME NEW q \in Seq(QueuedBlock), NEW r \in Seq(QueuedBlock), NEW n, Len(q) = n, Len(r) = n,
         \A i \in 1 .. n : q[i] = r[i]
  PROVE  q = r
<1>1. q = [i \in 1 .. n |-> q[i]] /\ r = [i \in 1 .. n |-> r[i]]
  OBVIOUS
<1> QED BY <1>1, Zenon

\* Erasing the entry of b keeps all others.
LEMMA Erased ==
  ASSUME NEW q \in Seq(QueuedBlock), NEW b \in Hashes(q), Distinct(q), NEW r, r = Without(q, b)
  PROVE  /\ r \in Seq(QueuedBlock) /\ Len(r) = Len(q) - 1
         /\ Distinct(r) /\ Hashes(r) = Hashes(q) \ {b}
<1> DEFINE k == CHOOSE i \in DOMAIN q : q[i].hash = b
<1>1. k \in DOMAIN q /\ q[k].hash = b
  BY Zenon DEF Hashes
<1>2. r = [j \in 1 .. Len(q) - 1 |-> q[IF j < k THEN j ELSE j + 1]]
  BY Zenon DEF Without
<1> HIDE DEF k
<1>3. DOMAIN q = 1 .. Len(q) /\ Len(q) \in Nat /\ k \in 1 .. Len(q)
  BY <1>1
<1>4. /\ r \in Seq(QueuedBlock) /\ Len(r) = Len(q) - 1 /\ DOMAIN r = 1 .. Len(q) - 1
      /\ \A i \in 1 .. Len(q) - 1 : r[i] = q[IF i < k THEN i ELSE i + 1]
  BY <1>2, <1>3
<1>5. ASSUME NEW i \in DOMAIN r, NEW j \in DOMAIN r, r[i].hash = r[j].hash PROVE i = j
  <2> DEFINE x == IF i < k THEN i ELSE i + 1
             y == IF j < k THEN j ELSE j + 1
  <2>1. x \in DOMAIN q /\ y \in DOMAIN q
    BY <1>3, <1>4
  <2>2. q[x].hash = q[y].hash
    BY <1>4, <1>5, Zenon
  <2>3. x = y
    BY <2>1, <2>2, Zenon DEF Distinct
  <2> QED BY <1>3, <1>4, <2>3
<1>6. ASSUME NEW i \in DOMAIN r PROVE r[i].hash # b /\ \E j \in DOMAIN q : q[j] = r[i]
  <2> DEFINE x == IF i < k THEN i ELSE i + 1
  <2>1. x \in DOMAIN q /\ x # k /\ r[i] = q[x]
    BY <1>3, <1>4
  <2> QED BY <1>1, <2>1, Zenon DEF Distinct
<1>7. ASSUME NEW j \in DOMAIN q, q[j].hash # b PROVE \E i \in DOMAIN r : r[i] = q[j]
  <2>1. j < k \/ j > k
    BY <1>1, <1>3, <1>7
  <2>2. CASE j < k
    <3>1. j \in 1 .. Len(q) - 1 /\ r[j] = q[j]
      BY <1>3, <1>4, <2>2
    <3> QED BY <1>4, <3>1, Zenon
  <2>3. CASE j > k
    <3>1. j - 1 \in 1 .. Len(q) - 1 /\ r[j - 1] = q[j]
      BY <1>3, <1>4, <2>3
    <3> QED BY <1>4, <3>1, Zenon
  <2> QED BY <2>1, <2>2, <2>3, Zenon
<1> QED BY <1>4, <1>5, <1>6, <1>7 DEF Distinct, Hashes

-----------------------------------------------------------------------------
(* The download bookkeeping d = [node, map, validated]. *)

\* What is said of one peer: its queue and mapBlocksInFlight agree, no block is in
\* the queue twice, the counters count the queue, and a stalling peer owes a block.
PeerOK(s, map, p) ==
  /\ Hashes(s.queue) = {b \in Blocks : map[b] = p}
  /\ Distinct(s.queue)
  /\ s.nBlocksInFlight = Len(s.queue)
  /\ s.nBlocksInFlightValidHeaders = Len(s.queue)
  /\ s.stalling # None => s.queue # <<>>

Busy(nodes) == {p \in Peers : nodes[p].queue # <<>>}

DownloadsType ==
  [node : [Peers -> CNodeState], map : [Blocks -> Peers \cup {None}], validated : Int]

DownloadsOK(d) ==
  /\ d \in DownloadsType
  /\ \A p \in Peers : PeerOK(d.node[p], d.map, p)
  /\ d.validated = Cardinality(Busy(d.node))

\* From d to e no peer but p gets a first request, and what else is known of peers
\* stays but for a new pindexLastCommonBlock.
OnlyAsks(d, e, p) ==
  \A q \in Peers :
    /\ e.node[q].common = d.node[q].common \/ e.node[q].common \in chain.chainTx
    /\ e.node[q].fPreferredDownload = d.node[q].fPreferredDownload
    /\ e.node[q].fSyncStarted = d.node[q].fSyncStarted
    /\ q # p /\ e.node[q].queue # <<>> => d.node[q].queue # <<>>

LEMMA AgesType == 0 \in Ages
  BY DownloadAssumption DEF Ages

\* The counter of peers with requests, when the queue of one of them changes.
LEMMA BusyCount ==
  ASSUME NEW m, NEW n, NEW p \in Peers, \A q \in Peers \ {p} : n[q].queue = m[q].queue
  PROVE  /\ Cardinality(Busy(m)) \in Nat
         /\ Cardinality(Busy(n)) = Cardinality(Busy(m))
              + (IF m[p].queue = <<>> /\ n[p].queue # <<>> THEN 1 ELSE 0)
              - (IF m[p].queue # <<>> /\ n[p].queue = <<>> THEN 1 ELSE 0)
<1>1. IsFiniteSet(Busy(m)) /\ IsFiniteSet(Busy(n))
  BY DownloadAssumption, FS_Subset, Zenon DEF Busy
<1>2. Cardinality(Busy(m)) \in Nat /\ Cardinality(Busy(n)) \in Nat
  BY <1>1, FS_CardinalityType, Zenon
<1>3. CASE m[p].queue = <<>> /\ n[p].queue # <<>>
  <2>1. Busy(n) = Busy(m) \cup {p} /\ p \notin Busy(m)
    BY <1>3, Zenon DEF Busy
  <2> QED BY <1>1, <1>2, <1>3, <2>1, FS_AddElement
<1>4. CASE m[p].queue # <<>> /\ n[p].queue = <<>>
  <2>1. Busy(n) = Busy(m) \ {p} /\ p \in Busy(m)
    BY <1>4, Zenon DEF Busy
  <2> QED BY <1>1, <1>2, <1>4, <2>1, FS_RemoveElement
<1>5. CASE (m[p].queue = <<>>) <=> (n[p].queue = <<>>)
  <2>1. Busy(n) = Busy(m)
    BY <1>5, Zenon DEF Busy
  <2> QED BY <1>2, <1>5, <2>1
<1> QED BY <1>3, <1>4, <1>5, Zenon

\* The state of one peer is replaced, with the same queue, counters and mark.
LEMMA PeerChanged ==
  ASSUME NEW d, DownloadsOK(d), NEW p \in Peers, NEW s \in CNodeState, NEW e,
         e = [d EXCEPT !.node[p] = s],
         s.queue = d.node[p].queue, s.nBlocksInFlight = d.node[p].nBlocksInFlight,
         s.nBlocksInFlightValidHeaders = d.node[p].nBlocksInFlightValidHeaders,
         s.stalling # None => s.queue # <<>>
  PROVE  DownloadsOK(e)
<1>1. e \in DownloadsType /\ e.map = d.map /\ e.validated = d.validated
      /\ e.node = [d.node EXCEPT ![p] = s]
  BY Zenon DEF DownloadsOK, DownloadsType
<1>2. \A q \in Peers \ {p} : e.node[q] = d.node[q]
  BY <1>1, Zenon DEF DownloadsOK, DownloadsType
<1>3. e.node[p] = s
  BY <1>1, Zenon DEF DownloadsOK, DownloadsType
<1>4. ASSUME NEW q \in Peers PROVE PeerOK(e.node[q], e.map, q)
  BY <1>1, <1>2, <1>3 DEF DownloadsOK, PeerOK
<1>5. Busy(e.node) = Busy(d.node)
  BY <1>2, <1>3, Zenon DEF Busy
<1> QED BY <1>1, <1>4, <1>5, Zenon DEF DownloadsOK

\* MarkBlockAsReceived: b is in flight no more, and everything else stays.
LEMMA ReceivedOK ==
  ASSUME NEW d, DownloadsOK(d), NEW b \in Blocks, NEW e, e = MarkBlockAsReceived(d, b)
  PROVE  /\ DownloadsOK(e) /\ e.map = [d.map EXCEPT ![b] = None]
         /\ \A p : OnlyAsks(d, e, p)
<1> DEFINE p == d.map[b]
           s == d.node[p]
           r == Without(s.queue, b)
           t == [s EXCEPT !.queue = Without(@, b),
                          !.downloading = IF Head(s.queue).hash = b THEN 0 ELSE @,
                          !.nBlocksInFlight = @ - 1,
                          !.nBlocksInFlightValidHeaders = @ - 1,
                          !.stalling = None]
<1>1. e = IF p = None THEN d
          ELSE [node |-> [d.node EXCEPT ![p] = t], map |-> [d.map EXCEPT ![b] = None],
                validated |-> d.validated - (IF s.nBlocksInFlightValidHeaders = 1 THEN 1 ELSE 0)]
  BY Zenon DEF MarkBlockAsReceived
<1>2. CASE p = None
  BY <1>1, <1>2, Zenon DEF DownloadsOK, DownloadsType, OnlyAsks
<1>3. CASE p # None
  <2>1. p \in Peers /\ s \in CNodeState /\ PeerOK(s, d.map, p)
    BY <1>3, Zenon DEF DownloadsOK, DownloadsType
  <2>2. s.queue \in Seq(QueuedBlock)
    BY <2>1, Zenon DEF CNodeState
  <2> HIDE DEF s, p
  <2>3. /\ r \in Seq(QueuedBlock) /\ Len(r) = Len(s.queue) - 1
        /\ Distinct(r) /\ Hashes(r) = Hashes(s.queue) \ {b}
    <3>1. b \in Hashes(s.queue) /\ Distinct(s.queue)
      BY <2>1, Zenon DEF PeerOK, p
    <3> QED BY <2>2, <3>1, Erased, Zenon
  <2> HIDE DEF r
  <2>4. /\ t \in CNodeState /\ t.queue = r /\ t.nBlocksInFlight = s.nBlocksInFlight - 1
        /\ t.nBlocksInFlightValidHeaders = s.nBlocksInFlightValidHeaders - 1
        /\ t.stalling = None /\ t.common = s.common
        /\ t.fPreferredDownload = s.fPreferredDownload /\ t.fSyncStarted = s.fSyncStarted
    <3>1. t = [s EXCEPT !.queue = r,
                        !.downloading = IF Head(s.queue).hash = b THEN 0 ELSE @,
                        !.nBlocksInFlight = @ - 1,
                        !.nBlocksInFlightValidHeaders = @ - 1,
                        !.stalling = None]
      BY Zenon DEF r
    <3> HIDE DEF t
    <3> HIDE DEF QueuedBlock, Ages
    <3>2. \A a : (IF a THEN 0 ELSE s.downloading) \in Ages
      BY <2>1, AgesType, Zenon DEF CNodeState
    <3>3. s.nBlocksInFlight - 1 \in Int /\ s.nBlocksInFlightValidHeaders - 1 \in Int
      BY <2>1 DEF CNodeState
    <3> QED BY <2>1, <2>3, <3>1, <3>2, <3>3, Zenon DEF CNodeState
  <2> HIDE DEF t
  <2>5. /\ e.node = [d.node EXCEPT ![p] = t] /\ e.map = [d.map EXCEPT ![b] = None]
        /\ e.validated = d.validated - (IF s.nBlocksInFlightValidHeaders = 1 THEN 1 ELSE 0)
        /\ e \in DownloadsType
    BY <1>1, <1>3, <2>1, <2>4 DEF DownloadsOK, DownloadsType
  <2>6. e.node[p] = t /\ \A q \in Peers \ {p} : e.node[q] = d.node[q]
    BY <2>1, <2>5, Zenon DEF DownloadsOK, DownloadsType
  <2>7. d.map[b] = p /\ e.map[b] = None /\ \A x \in Blocks \ {b} : e.map[x] = d.map[x]
    BY <2>5, Zenon DEF DownloadsOK, DownloadsType, p
  <2>8. PeerOK(t, e.map, p)
    <3>1. Hashes(r) = {x \in Blocks : e.map[x] = p}
      BY <1>3, <2>1, <2>3, <2>7, Zenon DEF PeerOK
    <3> QED BY <2>1, <2>3, <2>4, <3>1, Zenon DEF PeerOK
  <2>9. ASSUME NEW q \in Peers \ {p} PROVE PeerOK(e.node[q], e.map, q)
    <3>1. PeerOK(d.node[q], d.map, q)
      BY Zenon DEF DownloadsOK
    <3>2. {x \in Blocks : d.map[x] = q} = {x \in Blocks : e.map[x] = q}
      BY <2>7, DownloadAssumption, Zenon
    <3> QED BY <2>6, <3>1, <3>2, Zenon DEF PeerOK
  <2>10. e.validated = Cardinality(Busy(e.node))
    <3>1. s.queue # <<>> /\ (r = <<>> <=> Len(s.queue) = 1)
      <4>1. (r = <<>> <=> Len(r) = 0) /\ (s.queue = <<>> <=> Len(s.queue) = 0)
        BY <2>2, <2>3, QueueHashes, Zenon
      <4>2. Len(r) \in Nat /\ Len(s.queue) \in Nat
        BY <2>2, <2>3
      <4> QED BY <2>3, <4>1, <4>2
    <3>2. /\ Cardinality(Busy(d.node)) \in Nat
          /\ Cardinality(Busy(e.node)) = Cardinality(Busy(d.node))
               + (IF d.node[p].queue = <<>> /\ e.node[p].queue # <<>> THEN 1 ELSE 0)
               - (IF d.node[p].queue # <<>> /\ e.node[p].queue = <<>> THEN 1 ELSE 0)
      <4>1. \A q \in Peers \ {p} : e.node[q].queue = d.node[q].queue
        BY <2>6, Zenon
      <4> HIDE DEF Busy
      <4> QED BY <2>1, <4>1, BusyCount, Zenon
    <3> QED BY <2>1, <2>4, <2>5, <2>6, <3>1, <3>2 DEF DownloadsOK, PeerOK, s
  <2>11. ASSUME NEW o PROVE OnlyAsks(d, e, o)
    <3>1. s.queue # <<>>
      BY <2>2, <2>3, QueueHashes
    <3> QED BY <2>4, <2>6, <3>1, Zenon DEF OnlyAsks, s
  <2> QED BY <2>5, <2>6, <2>8, <2>9, <2>10, <2>11, Zenon DEF DownloadsOK
<1> QED BY <1>2, <1>3, Zenon

LEMMA Concatenated ==
  ASSUME NEW q \in Seq(QueuedBlock), NEW w \in Seq(QueuedBlock), Distinct(q), Distinct(w),
         Hashes(q) \cap Hashes(w) = {}, NEW r, r = q \o w
  PROVE  /\ r \in Seq(QueuedBlock) /\ Len(r) = Len(q) + Len(w)
         /\ Distinct(r) /\ Hashes(r) = Hashes(q) \cup Hashes(w)
<1> DEFINE m == Len(q)
<1>1. r \in Seq(QueuedBlock) /\ Len(r) = m + Len(w) /\ m \in Nat /\ Len(w) \in Nat
  OBVIOUS
<1>2. DOMAIN r = 1 .. m + Len(w) /\ DOMAIN q = 1 .. m /\ DOMAIN w = 1 .. Len(w)
  BY <1>1
<1>3. \A i \in 1 .. m : r[i] = q[i]
  BY <1>1
<1>4. \A i \in 1 .. Len(w) : r[m + i] = w[i]
  BY <1>1
<1> HIDE DEF m
<1>5. ASSUME NEW i \in DOMAIN r
      PROVE  \/ i \in DOMAIN q /\ r[i] = q[i] /\ r[i].hash \in Hashes(q)
             \/ i - m \in DOMAIN w /\ r[i] = w[i - m] /\ r[i].hash \in Hashes(w)
  <2>1. CASE i <= m
    BY <1>1, <1>2, <1>3, <2>1 DEF Hashes
  <2>2. CASE i > m
    <3>1. i - m \in 1 .. Len(w) /\ m + (i - m) = i
      BY <1>1, <1>2, <2>2
    <3> QED BY <1>2, <1>4, <3>1, Zenon DEF Hashes
  <2> QED BY <1>1, <1>2, <2>1, <2>2
<1>6. Distinct(r)
  <2>1. SUFFICES ASSUME NEW i \in DOMAIN r, NEW j \in DOMAIN r, r[i].hash = r[j].hash PROVE i = j
    BY Zenon DEF Distinct
  <2>2. CASE i \in DOMAIN q /\ r[i] = q[i] /\ r[i].hash \in Hashes(q)
    <3>1. j \in DOMAIN q /\ r[j] = q[j]
      BY <1>5, <2>1, <2>2, Zenon
    <3> QED BY <2>1, <2>2, <3>1, Zenon DEF Distinct
  <2>3. CASE i - m \in DOMAIN w /\ r[i] = w[i - m] /\ r[i].hash \in Hashes(w)
    <3>1. j - m \in DOMAIN w /\ r[j] = w[j - m]
      BY <1>5, <2>1, <2>3, Zenon
    <3>2. i - m = j - m
      BY <2>1, <2>3, <3>1, Zenon DEF Distinct
    <3> QED BY <1>1, <1>2, <3>2
  <2> QED BY <1>5, <2>2, <2>3, Zenon
<1>7. Hashes(q) \subseteq Hashes(r)
  BY <1>1, <1>2, <1>3 DEF Hashes
<1>8. Hashes(w) \subseteq Hashes(r)
  <2>1. SUFFICES ASSUME NEW i \in DOMAIN w PROVE w[i].hash \in Hashes(r)
    BY Zenon DEF Hashes
  <2>2. m + i \in DOMAIN r /\ r[m + i] = w[i]
    BY <1>1, <1>2, <1>4
  <2> QED BY <2>2, Zenon DEF Hashes
<1>9. Hashes(r) \subseteq Hashes(q) \cup Hashes(w)
  <2>1. SUFFICES ASSUME NEW i \in DOMAIN r PROVE r[i].hash \in Hashes(q) \cup Hashes(w)
    BY Zenon DEF Hashes
  <2> QED BY <1>5, Zenon
<1> QED BY <1>1, <1>6, <1>7, <1>8, <1>9, Zenon DEF m

\* Requests for blocks that nobody was asked for go to the end of the queue of p.
LEMMA Requested ==
  ASSUME NEW d, DownloadsOK(d), NEW p \in Peers, NEW w \in Seq(QueuedBlock), w # <<>>,
         Distinct(w), \A x \in Hashes(w) : d.map[x] = None,
         NEW t \in CNodeState, t.queue = d.node[p].queue \o w,
         t.nBlocksInFlight = d.node[p].nBlocksInFlight + Len(w),
         t.nBlocksInFlightValidHeaders = d.node[p].nBlocksInFlightValidHeaders + Len(w),
         t.common = d.node[p].common,
         t.fPreferredDownload = d.node[p].fPreferredDownload,
         t.fSyncStarted = d.node[p].fSyncStarted,
         NEW e,
         e = [node |-> [d.node EXCEPT ![p] = t],
              map |-> [x \in Blocks |-> IF x \in Hashes(w) THEN p ELSE d.map[x]],
              validated |-> d.validated +
                (IF d.node[p].nBlocksInFlightValidHeaders = 0 THEN 1 ELSE 0)]
  PROVE  DownloadsOK(e) /\ OnlyAsks(d, e, p)
<1> DEFINE q == d.node[p].queue
<1>1. d \in DownloadsType /\ d.node[p] \in CNodeState /\ PeerOK(d.node[p], d.map, p)
  BY Zenon DEF DownloadsOK, DownloadsType
<1>2. q \in Seq(QueuedBlock)
  BY <1>1, Zenon DEF CNodeState
<1>3. /\ e \in DownloadsType
      /\ e.node[p] = t /\ \A x \in Peers \ {p} : e.node[x] = d.node[x]
      /\ \A x \in Blocks : e.map[x] = IF x \in Hashes(w) THEN p ELSE d.map[x]
      /\ e.validated = d.validated +
           (IF d.node[p].nBlocksInFlightValidHeaders = 0 THEN 1 ELSE 0)
  <2>1. (IF d.node[p].nBlocksInFlightValidHeaders = 0 THEN 1 ELSE 0) \in Int
    OBVIOUS
  <2> HIDE DEF CNodeState
  <2> QED BY <1>1, <2>1 DEF DownloadsType
<1>4. Hashes(q) = {x \in Blocks : d.map[x] = p} /\ Distinct(q) /\ Hashes(w) \subseteq Blocks
  BY <1>1, QueueHashes, Zenon DEF PeerOK
<1>5. Hashes(q) \cap Hashes(w) = {}
  BY <1>4, DownloadAssumption, Zenon
<1>6. /\ Len(t.queue) = Len(q) + Len(w) /\ Distinct(t.queue)
      /\ Hashes(t.queue) = Hashes(q) \cup Hashes(w) /\ t.queue \in Seq(QueuedBlock)
  BY <1>2, <1>4, <1>5, Concatenated, Zenon
<1>7. /\ Len(q) \in Nat /\ Len(w) \in Nat /\ Len(w) # 0 /\ t.queue # <<>>
      /\ (q = <<>> <=> Len(q) = 0)
  <2>1. Len(q) \in Nat /\ Len(w) \in Nat /\ Len(w) # 0
    BY <1>2
  <2> QED BY <1>2, <1>6, <2>1, QueueHashes, Zenon
<1>8. PeerOK(e.node[p], e.map, p)
  <2>1. Hashes(t.queue) = {x \in Blocks : e.map[x] = p}
    BY <1>3, <1>4, <1>6, DownloadAssumption, Zenon
  <2> QED BY <1>1, <1>3, <1>6, <1>7, <2>1, Zenon DEF PeerOK
<1>9. ASSUME NEW x \in Peers \ {p} PROVE PeerOK(e.node[x], e.map, x)
  <2>1. PeerOK(d.node[x], d.map, x)
    BY Zenon DEF DownloadsOK
  <2>2. {y \in Blocks : d.map[y] = x} = {y \in Blocks : e.map[y] = x}
    BY <1>3, DownloadAssumption, Zenon
  <2> QED BY <1>3, <2>1, <2>2, Zenon DEF PeerOK
<1>10. e.validated = Cardinality(Busy(e.node))
  <2>1. \A x \in Peers \ {p} : e.node[x].queue = d.node[x].queue
    BY <1>3, Zenon
  <2>2. /\ Cardinality(Busy(d.node)) \in Nat
        /\ Cardinality(Busy(e.node)) = Cardinality(Busy(d.node))
             + (IF d.node[p].queue = <<>> /\ e.node[p].queue # <<>> THEN 1 ELSE 0)
             - (IF d.node[p].queue # <<>> /\ e.node[p].queue = <<>> THEN 1 ELSE 0)
    <3> HIDE DEF Busy
    <3> QED BY <2>1, BusyCount, Zenon
  <2>3. d.node[p].nBlocksInFlightValidHeaders = Len(q) /\ d.validated = Cardinality(Busy(d.node))
    BY <1>1, Zenon DEF PeerOK, DownloadsOK
  <2> QED BY <1>3, <1>7, <2>2, <2>3
<1>11. OnlyAsks(d, e, p)
  BY <1>3, Zenon DEF OnlyAsks
<1>12. \A x \in Peers : PeerOK(e.node[x], e.map, x)
  BY <1>8, <1>9, Zenon
<1> QED BY <1>3, <1>10, <1>11, <1>12, Zenon DEF DownloadsOK

\* A block in flight from p already: its entry gets a partial block.
LEMMA Reconstructed ==
  ASSUME NEW d, DownloadsOK(d), NEW p \in Peers, NEW b \in Blocks, NEW e,
         e = [d EXCEPT !.node[p].queue = [i \in DOMAIN @ |->
                IF @[i].hash = b THEN [@[i] EXCEPT !.partial = TRUE] ELSE @[i]]]
  PROVE  DownloadsOK(e) /\ OnlyAsks(d, e, p)
<1> DEFINE s == d.node[p]
           q == s.queue
           r == [i \in DOMAIN q |-> IF q[i].hash = b THEN [q[i] EXCEPT !.partial = TRUE] ELSE q[i]]
           t == [s EXCEPT !.queue = r]
<1>1. d \in DownloadsType /\ s \in CNodeState /\ PeerOK(s, d.map, p)
  BY Zenon DEF DownloadsOK, DownloadsType
<1>2. q \in Seq(QueuedBlock) /\ DOMAIN q = 1 .. Len(q) /\ Len(q) \in Nat
  BY <1>1 DEF CNodeState
<1>3. ASSUME NEW i \in DOMAIN q PROVE r[i] \in QueuedBlock /\ r[i].hash = q[i].hash
  <2>1. q[i] \in QueuedBlock
    BY <1>2
  <2> QED BY <2>1, Zenon DEF QueuedBlock
<1>4. r \in Seq(QueuedBlock) /\ Len(r) = Len(q) /\ DOMAIN r = DOMAIN q
  <2>1. r \in [1 .. Len(q) -> QueuedBlock]
    BY <1>2, <1>3, Zenon
  <2> HIDE DEF r
  <2> QED BY <1>2, <2>1
<1>5. e = [d EXCEPT !.node = [@ EXCEPT ![p] = t]]
  BY <1>1, Zenon DEF DownloadsType, CNodeState
<1> HIDE DEF r
<1>6. t \in CNodeState /\ t.queue = r /\ t = [s EXCEPT !.queue = r]
  BY <1>1, <1>4, Zenon DEF CNodeState
<1>7. Hashes(r) = Hashes(q) /\ (Distinct(q) => Distinct(r)) /\ (r = <<>> <=> q = <<>>)
  <2>1. Hashes(r) = Hashes(q) /\ (Distinct(q) => Distinct(r))
    BY <1>3, <1>4, Zenon DEF Hashes, Distinct
  <2> QED BY <1>2, <1>4, <2>1, QueueHashes, Zenon
<1>8. /\ t.nBlocksInFlight = s.nBlocksInFlight /\ t.stalling = s.stalling
      /\ t.nBlocksInFlightValidHeaders = s.nBlocksInFlightValidHeaders
      /\ t.common = s.common /\ t.fPreferredDownload = s.fPreferredDownload
      /\ t.fSyncStarted = s.fSyncStarted
  BY <1>1, <1>6, Zenon DEF CNodeState
<1> HIDE DEF t
<1>9. /\ e \in DownloadsType /\ e.map = d.map /\ e.validated = d.validated
      /\ e.node[p] = t /\ \A x \in Peers \ {p} : e.node[x] = d.node[x]
  <2>1. e.node = [d.node EXCEPT ![p] = t] /\ e.map = d.map /\ e.validated = d.validated
        /\ e = [node |-> e.node, map |-> e.map, validated |-> e.validated]
    BY <1>1, <1>5, Zenon DEF DownloadsType
  <2> HIDE DEF CNodeState, s
  <2>2. e.node \in [Peers -> CNodeState] /\ e.node[p] = t /\ \A x \in Peers \ {p} : e.node[x] = d.node[x]
    BY <1>1, <1>6, <2>1, Zenon DEF DownloadsType
  <2> QED BY <1>1, <2>1, <2>2, Zenon DEF DownloadsType
<1>10. PeerOK(t, d.map, p)
  BY <1>1, <1>4, <1>6, <1>7, <1>8, Zenon DEF PeerOK
<1>11. \A x \in Peers : PeerOK(e.node[x], e.map, x)
  BY <1>9, <1>10, Zenon DEF DownloadsOK
<1>12. Busy(e.node) = Busy(d.node)
  BY <1>6, <1>7, <1>9, Zenon DEF Busy
<1>13. OnlyAsks(d, e, p)
  BY <1>6, <1>7, <1>8, <1>9, Zenon DEF OnlyAsks
<1> QED BY <1>9, <1>11, <1>12, <1>13, Zenon DEF DownloadsOK

LEMMA AsksTwice ==
  ASSUME NEW d, NEW e, NEW f, NEW p, OnlyAsks(d, e, p), OnlyAsks(e, f, p)
  PROVE  OnlyAsks(d, f, p)
BY Zenon DEF OnlyAsks

LEMMA InFlightOK ==
  ASSUME NEW d, DownloadsOK(d), NEW p \in Peers, NEW b \in Blocks, NEW fPartial \in BOOLEAN,
         NEW f, f = MarkBlockAsInFlight(d, p, b, fPartial)
  PROVE  DownloadsOK(f) /\ OnlyAsks(d, f, p)
<1> DEFINE e == MarkBlockAsReceived(d, b)
           s == e.node[p]
           n == s.nBlocksInFlight + 1
           w == <<[hash |-> b, partial |-> fPartial]>>
           t == [s EXCEPT !.queue = Append(@, [hash |-> b, partial |-> fPartial]),
                          !.nBlocksInFlight = n,
                          !.nBlocksInFlightValidHeaders = @ + 1,
                          !.downloading = IF n = 1 THEN 0 ELSE @]
<1>1. f = IF d.map[b] = p
          THEN [d EXCEPT !.node[p].queue = [i \in DOMAIN @ |->
                 IF @[i].hash = b THEN [@[i] EXCEPT !.partial = TRUE] ELSE @[i]]]
          ELSE [node |-> [e.node EXCEPT ![p] = t], map |-> [e.map EXCEPT ![b] = p],
                validated |-> e.validated + (IF s.nBlocksInFlightValidHeaders = 0 THEN 1 ELSE 0)]
  BY Zenon DEF MarkBlockAsInFlight
<1>2. CASE d.map[b] = p
  BY <1>1, <1>2, Reconstructed
<1>3. CASE d.map[b] # p
  <2>1. DownloadsOK(e) /\ e.map = [d.map EXCEPT ![b] = None] /\ OnlyAsks(d, e, p)
    BY ReceivedOK, Zenon
  <2> HIDE DEF e
  <2>2. e \in DownloadsType /\ s \in CNodeState /\ e.map[b] = None
    BY <2>1, Zenon DEF DownloadsOK, DownloadsType
  <2>3. s.queue \in Seq(QueuedBlock)
    BY <2>2, Zenon DEF CNodeState
  <2>4. /\ w \in Seq(QueuedBlock) /\ w # <<>> /\ Len(w) = 1 /\ Hashes(w) = {b} /\ Distinct(w)
        /\ Append(s.queue, [hash |-> b, partial |-> fPartial]) = s.queue \o w
        /\ s.queue \o w \in Seq(QueuedBlock)
    <3>1. [hash |-> b, partial |-> fPartial] \in QueuedBlock
      BY Zenon DEF QueuedBlock
    <3>2. w \in Seq(QueuedBlock) /\ Len(w) = 1 /\ DOMAIN w = {1} /\ w[1].hash = b
      BY <3>1
    <3>3. Hashes(w) = {b} /\ Distinct(w)
      BY <3>2, Zenon DEF Hashes, Distinct
    <3>4. w # <<>>
      BY <3>2, Zenon
    <3>5. Append(s.queue, [hash |-> b, partial |-> fPartial]) = s.queue \o w
      <4> DEFINE x == [hash |-> b, partial |-> fPartial]
      <4>1. /\ Append(s.queue, x) \in Seq(QueuedBlock) /\ s.queue \o w \in Seq(QueuedBlock)
            /\ Len(Append(s.queue, x)) = Len(s.queue) + 1 /\ Len(s.queue \o w) = Len(s.queue) + 1
        BY <2>3, <3>1, <3>2
      <4>2. \A i \in 1 .. Len(s.queue) + 1 : Append(s.queue, x)[i] = (s.queue \o w)[i]
        BY <2>3, <3>1, <3>2
      <4> HIDE DEF x, w, s
      <4>3. Append(s.queue, x) = s.queue \o w
        BY <4>1, <4>2, SameQueue, Zenon
      <4> QED BY <4>3, Zenon DEF x
    <3>6. s.queue \o w \in Seq(QueuedBlock)
      BY <2>3, <3>2
    <3> QED BY <3>2, <3>3, <3>4, <3>5, <3>6, Zenon
  <2>5. /\ t \in CNodeState /\ t.queue = s.queue \o w
        /\ t.nBlocksInFlight = s.nBlocksInFlight + 1
        /\ t.nBlocksInFlightValidHeaders = s.nBlocksInFlightValidHeaders + 1
        /\ t.common = s.common /\ t.fPreferredDownload = s.fPreferredDownload
        /\ t.fSyncStarted = s.fSyncStarted
    <3>1. t = [s EXCEPT !.queue = s.queue \o w, !.nBlocksInFlight = n,
                        !.nBlocksInFlightValidHeaders = @ + 1,
                        !.downloading = IF n = 1 THEN 0 ELSE @]
      BY <2>4, Zenon
    <3>2. /\ (IF n = 1 THEN 0 ELSE s.downloading) \in Ages
          /\ n \in Int /\ s.nBlocksInFlightValidHeaders + 1 \in Int
      BY <2>2, AgesType DEF CNodeState
    <3> HIDE DEF t, w, s
    <3> QED BY <2>2, <2>4, <3>1, <3>2, Zenon DEF CNodeState
  <2>6. [e.map EXCEPT ![b] = p] = [x \in Blocks |-> IF x \in Hashes(w) THEN p ELSE e.map[x]]
    BY <2>2, <2>4, Zenon DEF DownloadsType
  <2>7. \A x \in Hashes(w) : e.map[x] = None
    BY <2>2, <2>4, Zenon
  <2>8. f = [node |-> [e.node EXCEPT ![p] = t],
             map |-> [x \in Blocks |-> IF x \in Hashes(w) THEN p ELSE e.map[x]],
             validated |-> e.validated + (IF e.node[p].nBlocksInFlightValidHeaders = 0 THEN 1 ELSE 0)]
    BY <1>1, <1>3, <2>6, Zenon
  <2> HIDE DEF t, w
  <2>9. DownloadsOK(f) /\ OnlyAsks(e, f, p)
    <3>1. /\ t.nBlocksInFlight = e.node[p].nBlocksInFlight + Len(w)
          /\ t.nBlocksInFlightValidHeaders = e.node[p].nBlocksInFlightValidHeaders + Len(w)
      BY <2>4, <2>5, Zenon
    <3> QED BY <2>1, <2>4, <2>5, <2>7, <2>8, <3>1, Requested, Zenon
  <2> QED BY <2>1, <2>9, AsksTwice, Zenon
<1> QED BY <1>2, <1>3, Zenon

\* Several blocks of a branch are requested at once.
LEMMA RequestAllOK ==
  ASSUME NEW d, DownloadsOK(d), NEW p \in Peers, NEW top \in Blocks, NEW S \in SUBSET Ancestry[top],
         \A x \in S : d.map[x] = None, NEW e, e = RequestAll(d, p, S)
  PROVE  DownloadsOK(e) /\ OnlyAsks(d, e, p) /\ (e.node[p].nBlocksInFlight = 0 => S = {})
<1> DEFINE s == d.node[p]
           n == Cardinality(S)
           w == [i \in 1 .. n |-> [hash |-> ByHeight(S)[i], partial |-> FALSE]]
           t == [s EXCEPT !.queue = @ \o [i \in 1 .. n |-> [hash |-> ByHeight(S)[i], partial |-> FALSE]],
                          !.nBlocksInFlight = @ + n,
                          !.nBlocksInFlightValidHeaders = @ + n,
                          !.downloading = IF s.nBlocksInFlight = 0 THEN 0 ELSE @]
<1>1. e = IF S = {} THEN d
          ELSE [node |-> [d.node EXCEPT ![p] = t],
                map |-> [b \in Blocks |-> IF b \in S THEN p ELSE d.map[b]],
                validated |-> d.validated + (IF s.nBlocksInFlightValidHeaders = 0 THEN 1 ELSE 0)]
  BY Zenon DEF RequestAll
<1>2. CASE S = {}
  BY <1>1, <1>2, Zenon DEF OnlyAsks
<1>3. CASE S # {}
  <2>1. d \in DownloadsType /\ s \in CNodeState /\ PeerOK(s, d.map, p)
    BY Zenon DEF DownloadsOK, DownloadsType
  <2>2. s.queue \in Seq(QueuedBlock)
    BY <2>1, Zenon DEF CNodeState
  <2>3. /\ n \in Nat /\ ByHeight(S) \in [1 .. n -> S] /\ S \subseteq Blocks
        /\ \A i, j \in 1 .. n : ByHeight(S)[i] = ByHeight(S)[j] => i = j
        /\ \A b \in S : \E i \in 1 .. n : ByHeight(S)[i] = b
    BY ByHeightLists, Tree
  <2>4. /\ w \in Seq(QueuedBlock) /\ DOMAIN w = 1 .. n /\ Len(w) = n
        /\ \A i \in 1 .. n : w[i].hash = ByHeight(S)[i]
    <3>1. w \in [1 .. n -> QueuedBlock] /\ \A i \in 1 .. n : w[i].hash = ByHeight(S)[i]
      BY <2>3, Zenon DEF QueuedBlock
    <3> HIDE DEF w
    <3> QED BY <2>3, <3>1
  <2> HIDE DEF n
  <2>5. t.queue = s.queue \o w
    BY <2>1, Zenon DEF CNodeState
  <2>6. t = [s EXCEPT !.queue = s.queue \o w, !.nBlocksInFlight = @ + n,
                      !.nBlocksInFlightValidHeaders = @ + n,
                      !.downloading = IF s.nBlocksInFlight = 0 THEN 0 ELSE @]
    BY Zenon
  <2> HIDE DEF w, s, t
  <2>7. Hashes(w) = S /\ Distinct(w) /\ w # <<>> /\ n > 0
    <3>1. Hashes(w) = S /\ Distinct(w)
      BY <2>3, <2>4 DEF Hashes, Distinct
    <3> QED BY <1>3, <2>3, <2>4, <3>1, QueueHashes
  <2>8. /\ t \in CNodeState /\ t.queue = s.queue \o w
        /\ t.nBlocksInFlight = s.nBlocksInFlight + n
        /\ t.nBlocksInFlightValidHeaders = s.nBlocksInFlightValidHeaders + n
        /\ t.common = s.common /\ t.fPreferredDownload = s.fPreferredDownload
        /\ t.fSyncStarted = s.fSyncStarted
    <3>1. /\ (IF s.nBlocksInFlight = 0 THEN 0 ELSE s.downloading) \in Ages
          /\ s.nBlocksInFlight + n \in Int /\ s.nBlocksInFlightValidHeaders + n \in Int
      BY <2>1, <2>3, AgesType DEF CNodeState
    <3>2. s.queue \o w \in Seq(QueuedBlock)
      BY <2>2, <2>4
    <3> QED BY <2>1, <2>6, <3>1, <3>2, Zenon DEF CNodeState
  <2>9. e = [node |-> [d.node EXCEPT ![p] = t],
             map |-> [b \in Blocks |-> IF b \in Hashes(w) THEN p ELSE d.map[b]],
             validated |-> d.validated + (IF d.node[p].nBlocksInFlightValidHeaders = 0 THEN 1 ELSE 0)]
    BY <1>1, <1>3, <2>7, Zenon DEF s
  <2>10. DownloadsOK(e) /\ OnlyAsks(d, e, p)
    <3>1. \A x \in Hashes(w) : d.map[x] = None
      BY <2>7, Zenon
    <3> QED BY <2>4, <2>7, <2>8, <2>9, <3>1, Requested, Zenon DEF s
  <2>11. e.node[p].nBlocksInFlight # 0
    <3>1. e.node[p] = t
      BY <2>1, <2>9 DEF DownloadsType
    <3>2. s.nBlocksInFlight = Len(s.queue) /\ Len(s.queue) \in Nat
      BY <2>1, <2>2 DEF PeerOK
    <3> QED BY <2>3, <2>7, <2>8, <3>1, <3>2
  <2> QED BY <2>10, <2>11, Zenon
<1> QED BY <1>2, <1>3, Zenon

\* The state of one peer with what counts for its requests unchanged.
SameRequests(s, t) ==
  /\ t \in CNodeState
  /\ t.queue = s.queue
  /\ t.nBlocksInFlight = s.nBlocksInFlight
  /\ t.nBlocksInFlightValidHeaders = s.nBlocksInFlightValidHeaders
  /\ t.fPreferredDownload = s.fPreferredDownload
  /\ t.fSyncStarted = s.fSyncStarted

\* e is d with the state t for p.
Updates(d, e, p, t) ==
  /\ SameRequests(d.node[p], t)
  /\ t.common = d.node[p].common \/ t.common \in chain.chainTx
  /\ t.stalling = d.node[p].stalling \/ t.queue # <<>>
  /\ e = [d EXCEPT !.node[p] = t]

LEMMA PeerUpdated ==
  ASSUME NEW d, DownloadsOK(d), NEW p \in Peers, NEW t, NEW e, Updates(d, e, p, t)
  PROVE  DownloadsOK(e) /\ \A q : OnlyAsks(d, e, q)
<1>1. d \in DownloadsType /\ PeerOK(d.node[p], d.map, p)
  BY Zenon DEF DownloadsOK
<1>2. t.stalling # None => t.queue # <<>>
  BY <1>1, Zenon DEF PeerOK, SameRequests, Updates
<1>3. DownloadsOK(e)
  BY <1>2, PeerChanged, Zenon DEF SameRequests, Updates
<1>4. e.node = [d.node EXCEPT ![p] = t]
  BY <1>1, Zenon DEF DownloadsType, Updates
<1>5. e.node[p] = t /\ \A x \in Peers \ {p} : e.node[x] = d.node[x]
  BY <1>1, <1>4, Zenon DEF DownloadsType
<1>6. ASSUME NEW q PROVE OnlyAsks(d, e, q)
  BY <1>5, Zenon DEF OnlyAsks, SameRequests, Updates
<1> QED BY <1>3, <1>6, Zenon

LEMMA AvailabilityOK ==
  ASSUME NEW s \in CNodeState, NEW index \in SUBSET Blocks, NEW b \in Blocks,
         NEW t, t \in {ProcessBlockAvailability(s, index), UpdateBlockAvailability(s, index, b)}
  PROVE  SameRequests(s, t) /\ t.common = s.common /\ t.stalling = s.stalling
<1> DEFINE u == ProcessBlockAvailability(s, index)
<1>1. \A x \in Blocks : BetterOf(s.best, x) \in Blocks
  BY Zenon DEF BetterOf, CNodeState
<1>2. SameRequests(s, u) /\ u.common = s.common /\ u.stalling = s.stalling
  <2>1. CASE s.unknown \in index
    <3>1. u = [s EXCEPT !.best = BetterOf(s.best, s.unknown), !.unknown = None]
      BY <2>1, Zenon DEF ProcessBlockAvailability
    <3>2. BetterOf(s.best, s.unknown) \in Blocks
      BY <1>1, <2>1, Zenon
    <3> HIDE DEF u
    <3> QED BY <3>1, <3>2, Zenon DEF CNodeState, SameRequests
  <2>2. CASE s.unknown \notin index
    BY <2>2, Zenon DEF ProcessBlockAvailability, SameRequests
  <2> QED BY <2>1, <2>2, Zenon
<1> HIDE DEF u
<1>3. CASE t = UpdateBlockAvailability(s, index, b)
  <2>1. t = IF b \in index THEN [u EXCEPT !.best = BetterOf(u.best, b)] ELSE [u EXCEPT !.unknown = b]
    BY <1>3, Zenon DEF UpdateBlockAvailability, u
  <2>2. u \in CNodeState /\ BetterOf(u.best, b) \in Blocks
    BY <1>2, Zenon DEF BetterOf, SameRequests, CNodeState
  <2> QED BY <1>2, <2>1, <2>2, Zenon DEF CNodeState, SameRequests
<1> QED BY <1>2, <1>3, Zenon DEF u

-----------------------------------------------------------------------------
(* Choosing what to download. *)

LEMMA LowestExists ==
  ASSUME NEW top \in Blocks, NEW S \in SUBSET Ancestry[top], S # {}
  PROVE  Lowest(S, 1) # {} /\ Lowest(S, 1) \subseteq S
<1>1. PICK low \in S : \A x \in S : low \in Ancestry[x]
  BY AncestryOrder
<1>2. S \subseteq Blocks
  BY Tree, Zenon
<1>3. \A x \in S : ~(Height[x] < Height[low])
  BY <1>1, <1>2, HeightOrder, BlockTree
<1>4. {x \in S : Height[x] < Height[low]} = {}
  BY <1>3, Zenon
<1>5. Cardinality({x \in S : Height[x] < Height[low]}) = 0
  BY <1>4, FS_EmptySet, Zenon
<1>6. low \in Lowest(S, 1)
  BY <1>5 DEF Lowest
<1> QED BY <1>6, Zenon DEF Lowest

\* A search finds blocks of one branch that nobody was asked for, it moves
\* pindexLastCommonBlock to a linked block, and the peer it blames was asked for one.
SearchResult(s, f) ==
  /\ \E top \in Blocks : f.vBlocks \subseteq Ancestry[top]
  /\ \A x \in f.vBlocks : mapBlocksInFlight[x] = None
  /\ f.common = s.common \/ f.common \in chain.chainTx
  /\ f.staller # None => /\ f.vBlocks = {} /\ f.staller \in Peers
                         /\ \E b \in Blocks : mapBlocksInFlight[b] = f.staller

LEMMA SearchOK ==
  ASSUME LinkedIndex(chain), mapBlocksInFlight \in [Blocks -> Peers \cup {None}],
         NEW p, NEW s \in CNodeState, s.common # None => s.common \in chain.chainTx,
         NEW count, NEW f, f = FindNextBlocksToDownload(p, s, count)
  PROVE  SearchResult(s, f)
<1> DEFINE height == IF Height[s.best] < Height[chain.tip] THEN Height[s.best] ELSE Height[chain.tip]
           guess  == CHOOSE b \in Ancestry[chain.tip] : Height[b] = height
           start  == FindFork(IF s.common = None THEN guess ELSE s.common, s.best)
           nWindowEnd == Height[start] + BLOCK_DOWNLOAD_WINDOW
           path   == {b \in Ancestry[s.best] :
                        Height[start] < Height[b] /\ Height[b] <= nWindowEnd + 1}
           have   == chain.haveData \cup Ancestry[chain.tip]
           missing == {b \in path \ have : mapBlocksInFlight[b] = None}
           vBlocks == {b \in Lowest(missing, count) : Height[b] <= nWindowEnd}
           scanned == {b \in path : Cardinality(vBlocks) < count
                                      \/ \E x \in vBlocks : Height[b] <= Height[x]}
           linked  == {start} \cup Linked(scanned)
           flying  == (scanned \ have) \ missing
           waitingfor == IF flying = {} THEN None
                         ELSE mapBlocksInFlight[CHOOSE b \in Lowest(flying, 1) : TRUE]
           blocked == vBlocks = {} /\ missing # {} /\ waitingfor # p
           last == CHOOSE b \in linked : \A x \in linked : Height[x] <= Height[b]
           blamed == IF blocked THEN waitingfor ELSE None
           found == [vBlocks |-> vBlocks, common |-> last, staller |-> blamed]
<1>1. f = IF s.best = None \/ ChainWork[s.best] < ChainWork[chain.tip]
          THEN [vBlocks |-> {}, common |-> s.common, staller |-> None] ELSE found
  BY Zenon DEF FindNextBlocksToDownload
<1> HIDE DEF found
<1>2. CASE s.best = None \/ ChainWork[s.best] < ChainWork[chain.tip]
  <2>1. f = [vBlocks |-> {}, common |-> s.common, staller |-> None]
    BY <1>1, <1>2, Zenon
  <2> QED BY <2>1, BlockTree DEF SearchResult
<1>3. CASE ~(s.best = None \/ ChainWork[s.best] < ChainWork[chain.tip])
  <2>1. s.best \in Blocks /\ chain.tip \in chain.chainTx /\ chain.chainTx \subseteq Blocks
    BY <1>3, Zenon DEF LinkedIndex, IndexOK, IndexType, CNodeState
  <2>2. start \in Ancestry[s.best] /\ start \in chain.chainTx
    <3>1. height \in Nat /\ height <= Height[chain.tip]
      BY <2>1, BlockTree
    <3>2. guess \in Ancestry[chain.tip]
      <4> HIDE DEF height
      <4> QED BY <2>1, <3>1, AtHeight, Zenon
    <3> DEFINE from == IF s.common = None THEN guess ELSE s.common
    <3>3. from \in chain.chainTx
      BY <2>1, <3>2, Zenon DEF LinkedIndex
    <3> HIDE DEF guess, from
    <3>4. FindFork(from, s.best) \in Ancestry[from] \cap Ancestry[s.best]
      BY <2>1, <3>3, Fork, Zenon
    <3> QED BY <3>3, <3>4, Zenon DEF LinkedIndex, from
  <2> HIDE DEF start
  <2>3. path \subseteq Ancestry[s.best] /\ missing \subseteq path /\ vBlocks \subseteq missing
    BY Zenon DEF Lowest
  <2>4. \A x \in missing : mapBlocksInFlight[x] = None
    OBVIOUS
  <2>5. scanned \subseteq path /\ flying \subseteq path
    OBVIOUS
  <2>6. \A x \in flying : mapBlocksInFlight[x] # None
    OBVIOUS
  <2>7. linked \subseteq Ancestry[s.best] /\ linked \subseteq chain.chainTx /\ linked # {}
    BY <2>2, <2>3, <2>5, Zenon DEF Linked
  <2> HIDE DEF path, missing, vBlocks, scanned, linked, flying
  <2>8. f.vBlocks = vBlocks /\ f.staller = blamed /\ f.common = last
    <3>1. f = found
      BY <1>1, <1>3, Zenon
    <3> HIDE DEF last, blamed
    <3> QED BY <3>1 DEF found
  <2>9. f.common \in linked
    <3>1. PICK high \in linked : \A x \in linked : x \in Ancestry[high]
      BY <2>1, <2>7, AncestryOrder
    <3>2. high \in Blocks
      BY <2>1, <2>7, Zenon
    <3>3. \A x \in linked : Height[x] <= Height[high]
      BY <3>1, <3>2, HeightOrder, Zenon
    <3> QED BY <2>8, <3>3, Zenon
  <2>10. ASSUME waitingfor # None
         PROVE  waitingfor \in Peers /\ \E b \in Blocks : mapBlocksInFlight[b] = waitingfor
    <3>1. flying # {} /\ flying \subseteq Ancestry[s.best]
      BY <2>3, <2>5, <2>10, Zenon
    <3> DEFINE b == CHOOSE x \in Lowest(flying, 1) : TRUE
    <3>2. Lowest(flying, 1) # {} /\ Lowest(flying, 1) \subseteq flying
      BY <2>1, <3>1, LowestExists, Zenon
    <3>3. b \in flying
      BY <3>2, Zenon
    <3>4. b \in Blocks
      BY <2>1, <3>1, <3>3, Tree, Zenon
    <3>5. waitingfor = mapBlocksInFlight[b]
      BY <3>1, Zenon
    <3> HIDE DEF b
    <3> QED BY <2>10, <3>4, <3>5, Zenon
  <2> HIDE DEF waitingfor
  <2>11. f.vBlocks \subseteq Ancestry[s.best] /\ \A x \in f.vBlocks : mapBlocksInFlight[x] = None
    BY <2>3, <2>4, <2>8, Zenon
  <2>12. f.staller # None => blocked /\ f.staller = waitingfor
    BY <2>8, Zenon
  <2> QED BY <2>1, <2>7, <2>8, <2>9, <2>10, <2>11, <2>12, Zenon DEF SearchResult
<1> QED BY <1>2, <1>3, Zenon

LEMMA RequestBlocksOK ==
  ASSUME LinkedIndex(chain), NEW d, DownloadsOK(d), d.map = mapBlocksInFlight, NEW p \in Peers,
         d.node[p].common # None => d.node[p].common \in chain.chainTx,
         NEW g, g = RequestBlocks(d, p)
  PROVE  DownloadsOK(g) /\ OnlyAsks(d, g, p)
<1> DEFINE s == ProcessBlockAvailability(d.node[p], chain.index)
           f == FindNextBlocksToDownload(p, s, MAX_BLOCKS_IN_TRANSIT_PER_PEER - s.nBlocksInFlight)
           t == [s EXCEPT !.common = f.common]
           c == [d EXCEPT !.node[p] = t]
           e == RequestAll(c, p, f.vBlocks)
<1>1. g = IF e.node[p].nBlocksInFlight = 0 /\ f.staller # None
               /\ e.node[f.staller].stalling = None
          THEN [e EXCEPT !.node[f.staller].stalling = 0] ELSE e
  BY Zenon DEF RequestBlocks
<1>2. d \in DownloadsType /\ d.node[p] \in CNodeState /\ chain.index \in SUBSET Blocks
  BY Zenon DEF DownloadsOK, DownloadsType, LinkedIndex, IndexOK, IndexType
<1>3. SameRequests(d.node[p], s) /\ s.common = d.node[p].common /\ s.stalling = d.node[p].stalling
  BY <1>2, AvailabilityOK, BlockTree, Zenon
<1> HIDE DEF s
<1>4. SearchResult(s, f)
  <2>1. s \in CNodeState /\ mapBlocksInFlight \in [Blocks -> Peers \cup {None}]
    BY <1>2, <1>3, Zenon DEF SameRequests, DownloadsType
  <2>2. s.common # None => s.common \in chain.chainTx
    BY <1>3, Zenon
  <2> DEFINE count == MAX_BLOCKS_IN_TRANSIT_PER_PEER - s.nBlocksInFlight
  <2>3. f = FindNextBlocksToDownload(p, s, count)
    OBVIOUS
  <2> HIDE DEF f, count
  <2> QED BY <2>1, <2>2, <2>3, SearchOK, Zenon
<1> HIDE DEF f
<1>5. f.common \in Blocks \cup {None} /\ chain.chainTx \subseteq Blocks
  BY <1>2, <1>3, <1>4, Zenon DEF SameRequests, CNodeState, LinkedIndex, IndexOK, IndexType, SearchResult
<1>6. /\ SameRequests(d.node[p], t) /\ t.stalling = d.node[p].stalling
      /\ t.common = d.node[p].common \/ t.common \in chain.chainTx
  <2>1. s \in CNodeState
    BY <1>3, Zenon DEF SameRequests
  <2>2. t \in CNodeState /\ t.common = f.common /\ t.stalling = s.stalling /\ t.queue = s.queue
        /\ t.nBlocksInFlight = s.nBlocksInFlight
        /\ t.nBlocksInFlightValidHeaders = s.nBlocksInFlightValidHeaders
        /\ t.fPreferredDownload = s.fPreferredDownload /\ t.fSyncStarted = s.fSyncStarted
    BY <1>5, <2>1, Zenon DEF CNodeState
  <2> QED BY <1>3, <1>4, <2>2, Zenon DEF SameRequests, SearchResult
<1> HIDE DEF t
<1>7. DownloadsOK(c) /\ OnlyAsks(d, c, p) /\ c.map = d.map
  <2>1. c = [d EXCEPT !.node[p] = t]
    OBVIOUS
  <2> HIDE DEF c
  <2>2. Updates(d, c, p, t)
    BY <1>6, <2>1, Zenon DEF Updates
  <2>3. DownloadsOK(c) /\ OnlyAsks(d, c, p)
    BY <2>2, PeerUpdated, Zenon
  <2>4. c.map = d.map
    BY <2>1, Zenon DEF DownloadsOK, DownloadsType
  <2> QED BY <2>3, <2>4, Zenon
<1> HIDE DEF c
<1>8. PICK top \in Blocks : f.vBlocks \subseteq Ancestry[top]
  BY <1>4, Zenon DEF SearchResult
<1>9. DownloadsOK(e) /\ OnlyAsks(c, e, p) /\ (f.vBlocks = {} => e = c)
  <2>1. \A x \in f.vBlocks : c.map[x] = None
    BY <1>4, <1>7, Zenon DEF SearchResult
  <2>2. f.vBlocks \in SUBSET Ancestry[top]
    BY <1>8, Zenon
  <2>3. DownloadsOK(e) /\ OnlyAsks(c, e, p)
    BY <1>7, <2>1, <2>2, RequestAllOK, Zenon
  <2>4. f.vBlocks = {} => e = c
    BY Zenon DEF RequestAll
  <2> QED BY <2>3, <2>4, Zenon
<1> HIDE DEF e
<1>10. OnlyAsks(d, e, p)
  BY <1>7, <1>9, AsksTwice, Zenon
<1>11. CASE e.node[p].nBlocksInFlight = 0 /\ f.staller # None /\ e.node[f.staller].stalling = None
  <2> DEFINE w == f.staller
             u == [e.node[w] EXCEPT !.stalling = 0]
  <2>1. w \in Peers /\ e = c /\ e \in DownloadsType /\ e.node[w] \in CNodeState
    BY <1>4, <1>9, <1>11, Zenon DEF DownloadsOK, DownloadsType, SearchResult
  <2>2. PICK b \in Blocks : mapBlocksInFlight[b] = w
    BY <1>4, <1>11, Zenon DEF SearchResult
  <2>3. e.map[b] = w
    BY <1>7, <2>1, <2>2, Zenon
  <2> HIDE DEF w
  <2>4. e.node[w].queue # <<>>
    <3>1. b \in Hashes(e.node[w].queue)
      BY <1>9, <2>1, <2>3, Zenon DEF DownloadsOK, PeerOK
    <3> QED BY <3>1 DEF Hashes
  <2>5. g = [e EXCEPT !.node[w] = u]
    BY <1>1, <1>11, Zenon DEF w
  <2>6. SameRequests(e.node[w], u) /\ u.common = e.node[w].common
    BY <2>1, AgesType, Zenon DEF SameRequests, CNodeState
  <2> HIDE DEF u
  <2>7. u.queue # <<>>
    BY <2>4, <2>6, Zenon DEF SameRequests
  <2>8. DownloadsOK(g) /\ OnlyAsks(e, g, p)
    <3>1. Updates(e, g, w, u)
      BY <2>5, <2>6, <2>7, Zenon DEF Updates
    <3> QED BY <1>9, <2>1, <3>1, PeerUpdated, Zenon
  <2> QED BY <1>10, <2>8, AsksTwice, Zenon
<1>12. CASE ~(e.node[p].nBlocksInFlight = 0 /\ f.staller # None /\ e.node[f.staller].stalling = None)
  BY <1>1, <1>9, <1>10, <1>12, Zenon
<1> QED BY <1>11, <1>12, Zenon

LEMMA DirectFetchOK ==
  ASSUME NEW c, c.index \in SUBSET Blocks, NEW d, DownloadsOK(d), NEW p \in Peers, NEW b \in Blocks,
         NEW g, g = DirectFetch(c, d, p, b)
  PROVE  DownloadsOK(g) /\ OnlyAsks(d, g, p)
<1> DEFINE t == UpdateBlockAvailability(d.node[p], c.index, b)
           e == [d EXCEPT !.node[p] = t]
           branch  == Branch(c, b)
           missing == {x \in branch \ c.haveData : d.map[x] = None}
           room == MAX_BLOCKS_IN_TRANSIT_PER_PEER - e.node[p].nBlocksInFlight
           S == Lowest(missing, room)
<1>1. g \in {RequestAll(e, p, S), e}
  <2>1. [d EXCEPT !.node[p] = UpdateBlockAvailability(@, c.index, b)] = e
    BY Zenon DEF DownloadsOK, DownloadsType
  <2> QED BY <2>1, Zenon DEF DirectFetch
<1>2. d.node[p] \in CNodeState
  BY Zenon DEF DownloadsOK, DownloadsType
<1>3. SameRequests(d.node[p], t) /\ t.common = d.node[p].common /\ t.stalling = d.node[p].stalling
  BY <1>2, AvailabilityOK, Zenon
<1> HIDE DEF t
<1>4. DownloadsOK(e) /\ OnlyAsks(d, e, p) /\ e.map = d.map
  <2>1. e = [d EXCEPT !.node[p] = t]
    OBVIOUS
  <2> HIDE DEF e
  <2>2. Updates(d, e, p, t)
    BY <1>3, <2>1, Zenon DEF Updates
  <2>3. DownloadsOK(e) /\ OnlyAsks(d, e, p)
    BY <2>2, PeerUpdated, Zenon
  <2>4. e.map = d.map
    BY <2>1, Zenon DEF DownloadsOK, DownloadsType
  <2> QED BY <2>3, <2>4, Zenon
<1> HIDE DEF e
<1>5. S \in SUBSET Ancestry[b] /\ \A x \in S : e.map[x] = None
  BY <1>4, Zenon DEF Lowest, Branch
<1> HIDE DEF S
<1>6. DownloadsOK(RequestAll(e, p, S)) /\ OnlyAsks(e, RequestAll(e, p, S), p)
  BY <1>4, <1>5, RequestAllOK, Zenon
<1>7. OnlyAsks(d, RequestAll(e, p, S), p)
  BY <1>4, <1>6, AsksTwice, Zenon
<1> QED BY <1>1, <1>4, <1>6, <1>7, Zenon
=============================================================================
