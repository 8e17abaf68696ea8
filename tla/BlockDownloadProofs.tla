------------------------ MODULE BlockDownloadProofs ------------------------
(***************************************************************************)
(* The invariants of BlockDownload, for any finite block tree, any peers   *)
(* and any limits.                                                         *)
(***************************************************************************)
EXTENDS DownloadQueueProofs

(* The block index. *)

LEMMA ActivateLinked ==
  ASSUME NEW c, LinkedIndex(c), NEW e, e = ActivateBestChain(c)
  PROVE  LinkedIndex(e) /\ e.chainTx = c.chainTx
<1> DEFINE f == FindMostWorkChain(c)
           m == f.mostWork
           d == [f.chain EXCEPT !.tip = m]
<1>1. /\ LinkedIndex(f.chain) /\ f.chain.chainTx = c.chainTx
      /\ m # NoBlock => m \in f.chain.candidates
  BY FindLinked, FindFields
<1>2. e = IF m \in {NoBlock, c.tip} THEN f.chain ELSE PruneBlockIndexCandidates(d)
  BY Zenon DEF ActivateBestChain
<1>3. CASE m \in {NoBlock, c.tip}
  BY <1>1, <1>2, <1>3, Zenon
<1>4. CASE m \notin {NoBlock, c.tip}
  <2> HIDE DEF f
  <2>1. f.chain \in IndexType /\ m \in f.chain.candidates /\ m \in Blocks /\ m \in f.chain.chainTx
    BY <1>1, <1>4, Zenon DEF LinkedIndex, IndexOK, IndexType
  <2>2. /\ d \in IndexType /\ d.tip = m /\ d.index = f.chain.index /\ d.haveData = f.chain.haveData
        /\ d.chainTx = f.chain.chainTx /\ d.unlinked = f.chain.unlinked
        /\ d.sequenceId = f.chain.sequenceId /\ d.candidates = f.chain.candidates
        /\ d.failedValid = f.chain.failedValid /\ d.failedChild = f.chain.failedChild
    BY <2>1, Zenon DEF IndexType
  <2> HIDE DEF d
  <2>3. /\ e \in IndexType /\ e.tip = m /\ e.index = f.chain.index /\ e.haveData = f.chain.haveData
        /\ e.chainTx = f.chain.chainTx /\ e.unlinked = f.chain.unlinked
        /\ e.failedValid = f.chain.failedValid /\ e.failedChild = f.chain.failedChild
        /\ e.candidates = {b \in f.chain.candidates : ~WorkLess(d, b, m)}
    BY <1>2, <1>4, <2>2, PruneFields
  <2>4. \A b \in e.candidates : b \in Blocks /\ ChainWork[b] >= ChainWork[m]
    <3>1. d.sequenceId \in [Blocks -> Int] /\ f.chain.candidates \subseteq Blocks
      BY <2>1, <2>2, Zenon DEF IndexType
    <3> QED BY <2>1, <2>3, <3>1, WorkOrder, Zenon
  <2>5. Waiting(e) = Waiting(f.chain) /\ Failed(e) = Failed(f.chain)
    BY <2>3, Zenon DEF Waiting, Failed
  <2>6. IndexOK(e)
    <3>1. /\ {f.chain.tip} \cup f.chain.haveData \cup Failed(f.chain) \subseteq f.chain.index
          /\ \A b \in f.chain.index : Ancestry[b] \subseteq f.chain.index
          /\ f.chain.chainTx \cup f.chain.candidates \cup Waiting(f.chain) \subseteq f.chain.haveData
      BY <1>1, Zenon DEF LinkedIndex, IndexOK
    <3>2. {e.tip} \cup e.haveData \cup Failed(e) \subseteq e.index
      BY <2>1, <2>3, <2>5, <3>1, Zenon
    <3>3. e.chainTx \cup e.candidates \cup Waiting(e) \subseteq e.haveData
      BY <2>3, <2>5, <3>1, Zenon
    <3> QED BY <2>3, <3>1, <3>2, <3>3, Zenon DEF IndexOK
  <2> QED BY <1>1, <2>1, <2>3, <2>4, <2>5, <2>6, Zenon DEF LinkedIndex
<1> QED BY <1>3, <1>4, Zenon

LEMMA HeadersLinked ==
  ASSUME NEW c, LinkedIndex(c), NEW new \in SUBSET Blocks,
         \A x \in new : Ancestry[x] \subseteq c.index \cup new,
         NEW e, e = [c EXCEPT !.index = @ \cup new]
  PROVE  LinkedIndex(e) /\ e.chainTx = c.chainTx
<1>1. c \in IndexType
  BY Zenon DEF LinkedIndex, IndexOK
<1>2. /\ e \in IndexType /\ e.index = c.index \cup new /\ e.haveData = c.haveData
      /\ e.chainTx = c.chainTx /\ e.unlinked = c.unlinked /\ e.candidates = c.candidates
      /\ e.tip = c.tip /\ e.failedValid = c.failedValid /\ e.failedChild = c.failedChild
  BY <1>1, Zenon DEF IndexType
<1>3. Waiting(e) = Waiting(c) /\ Failed(e) = Failed(c)
  BY <1>2, Zenon DEF Waiting, Failed
<1>4. IndexOK(e)
  BY <1>2, <1>3, Zenon DEF LinkedIndex, IndexOK
<1> QED BY <1>2, <1>3, <1>4, Zenon DEF LinkedIndex

LEMMA ProcessLinked ==
  ASSUME NEW c, LinkedIndex(c), NEW b \in Blocks, NEW fForce,
         NEW e, e = ProcessNewBlock(c, b, fForce)
  PROVE  LinkedIndex(e) /\ c.chainTx \subseteq e.chainTx
<1> DEFINE a == AcceptBlock(c, b, fForce)[1]
<1>1. CASE HeaderAcceptable(c, b)
  <2>1. LinkedIndex(a) /\ c.chainTx \subseteq a.chainTx
    <3>1. CASE b # Genesis
      BY <1>1, <3>1, AcceptLinked, AcceptGrows, Zenon
    <3>2. CASE b = Genesis
      <4>1. Genesis \in c.haveData /\ c \in IndexType
        BY Tree, Zenon DEF LinkedIndex, IndexOK, IndexType
      <4>2. AddToBlockIndex(c, b).haveData = c.haveData
        BY <4>1, HeaderFields, Zenon
      <4>3. a = AddToBlockIndex(c, b)
        BY <3>2, <4>1, <4>2, Zenon DEF AcceptBlock
      <4>4. a = [c EXCEPT !.index = @ \cup {b}]
        BY <4>3, Zenon DEF AddToBlockIndex
      <4> HIDE DEF a
      <4>5. \A x \in {b} : Ancestry[x] \subseteq c.index \cup {b}
        BY <3>2, BlockTree, Zenon
      <4> QED BY <4>4, <4>5, HeadersLinked, Zenon
    <3> QED BY <3>1, <3>2, Zenon
  <2>2. e = ActivateBestChain(a)
    BY <1>1, Zenon DEF ProcessNewBlock
  <2> HIDE DEF a
  <2> QED BY <2>1, <2>2, ActivateLinked, Zenon
<1>2. CASE ~HeaderAcceptable(c, b)
  BY <1>2, Zenon DEF ProcessNewBlock
<1> QED BY <1>1, <1>2, Zenon
-----------------------------------------------------------------------------
(* The inductive invariant. *)

Preferred(nodes) == {p \in Peers : nodes[p].fPreferredDownload}
Syncing(nodes) == {p \in Peers : nodes[p].fSyncStarted}

\* What holds of the peers besides DownloadsOK: only peers in mapNodeState were ever
\* asked for anything, no peer is preferred before VERSION, and every block up to
\* pindexLastCommonBlock is linked.
PeersOK ==
  /\ phase \in [Peers -> {"new", "init", "connected", "disconnect", "gone"}]
  /\ \A p \in Peers :
       /\ p \notin Live => /\ node[p].queue = <<>> /\ ~node[p].fPreferredDownload
                           /\ ~node[p].fSyncStarted
       /\ phase[p] = "init" => ~node[p].fPreferredDownload
       /\ node[p].common # None => node[p].common \in chain.chainTx

HandlerOK == handler # None => handler.block \in Blocks /\ handler.peer \in Live

DownloadInv ==
  /\ LinkedIndex(chain)
  /\ DownloadsOK(Downloads)
  /\ PeersOK
  /\ nPreferredDownload = Cardinality(Preferred(node))
  /\ nSyncStarted = Cardinality(Syncing(node))
  /\ HandlerOK

LEMMA Fields ==
  /\ Downloads.node = node /\ Downloads.map = mapBlocksInFlight
  /\ Downloads.validated = nPeersWithValidatedDownloads
BY Zenon DEF Downloads

LEMMA Applied ==
  ASSUME NEW e, DownloadsOK(e), SetDownloads(e)
  PROVE  Downloads' = e /\ DownloadsOK(Downloads')
<1>1. e \in DownloadsType
  BY Zenon DEF DownloadsOK
<1>2. e = [node |-> e.node, map |-> e.map, validated |-> e.validated]
  BY <1>1, Zenon DEF DownloadsType
<1>3. Downloads' = e
  BY <1>2, Zenon DEF SetDownloads, Downloads
<1> QED BY <1>3, Zenon

\* d has the peers as they are, except that p may be one to sync headers from.
SyncsOnly(d, p) ==
  \A q \in Peers :
    /\ d.node[q].queue = node[q].queue
    /\ d.node[q].common = node[q].common
    /\ d.node[q].fPreferredDownload = node[q].fPreferredDownload
    /\ q # p => d.node[q].fSyncStarted = node[q].fSyncStarted

LEMMA PeersKept ==
  ASSUME PeersOK, NEW p \in Live, NEW d, NEW e, SyncsOnly(d, p),
         OnlyAsks(d, e, p), node' = e.node, chain.chainTx \subseteq chain'.chainTx,
         phase' \in {phase, [phase EXCEPT ![p] = "disconnect"]}
  PROVE  /\ PeersOK' /\ p \in Live'
         /\ Preferred(node') = Preferred(node) /\ Syncing(node') = Syncing(d.node)
<1>1. p \in Peers /\ phase[p] \in {"init", "connected", "disconnect"}
  BY Zenon DEF Live
<1>2. /\ phase' \in [Peers -> {"new", "init", "connected", "disconnect", "gone"}]
      /\ \A q \in Peers : phase'[q] = phase[q] \/ (q = p /\ phase'[q] = "disconnect")
  BY <1>1, Zenon DEF PeersOK
<1>3. \A q \in Peers : q \in Live' <=> q \in Live
  BY <1>1, <1>2, Zenon DEF Live
<1>4. \A q \in Peers : /\ node'[q].fPreferredDownload = node[q].fPreferredDownload
                       /\ node'[q].fSyncStarted = d.node[q].fSyncStarted
                       /\ node'[q].common = node[q].common \/ node'[q].common \in chain.chainTx
                       /\ q # p /\ node'[q].queue # <<>> => node[q].queue # <<>>
  BY Zenon DEF OnlyAsks, SyncsOnly
<1>5. Preferred(node') = Preferred(node) /\ Syncing(node') = Syncing(d.node)
  BY <1>4, Zenon DEF Preferred, Syncing
<1>6. ASSUME NEW q \in Peers
      PROVE  /\ q \notin Live' => /\ node'[q].queue = <<>> /\ ~node'[q].fPreferredDownload
                                  /\ ~node'[q].fSyncStarted
             /\ phase'[q] = "init" => ~node'[q].fPreferredDownload
             /\ node'[q].common # None => node'[q].common \in chain'.chainTx
  <2>1. q \notin Live' => /\ node'[q].queue = <<>> /\ ~node'[q].fPreferredDownload
                          /\ ~node'[q].fSyncStarted
    <3>1. SUFFICES ASSUME q \notin Live
                   PROVE  /\ node'[q].queue = <<>> /\ ~node'[q].fPreferredDownload
                          /\ ~node'[q].fSyncStarted
      BY <1>3, Zenon
    <3>2. node[q].queue = <<>> /\ ~node[q].fPreferredDownload /\ ~node[q].fSyncStarted
      BY <3>1, Zenon DEF PeersOK
    <3>3. q # p /\ d.node[q].fSyncStarted = node[q].fSyncStarted
      BY <3>1, Zenon DEF SyncsOnly
    <3> QED BY <1>4, <3>2, <3>3, Zenon
  <2>2. phase'[q] = "init" => ~node'[q].fPreferredDownload
    BY <1>2, <1>4, Zenon DEF PeersOK
  <2>3. node'[q].common # None => node'[q].common \in chain'.chainTx
    BY <1>4, Zenon DEF PeersOK
  <2> QED BY <2>1, <2>2, <2>3, Zenon
<1> QED BY <1>1, <1>2, <1>3, <1>5, <1>6, Zenon DEF PeersOK

\* What the handlers of messages have in common.
LEMMA StepOK ==
  ASSUME DownloadInv, NEW p \in Live, NEW e, DownloadsOK(e), OnlyAsks(Downloads, e, p),
         SetDownloads(e), LinkedIndex(chain'), chain.chainTx \subseteq chain'.chainTx,
         phase' \in {phase, [phase EXCEPT ![p] = "disconnect"]},
         nPreferredDownload' = nPreferredDownload, nSyncStarted' = nSyncStarted,
         handler' # None => handler'.block \in Blocks /\ handler'.peer = p
  PROVE  DownloadInv'
<1>1. DownloadsOK(Downloads)' /\ node' = e.node
  BY Applied, Zenon DEF SetDownloads
<1>2. PeersOK' /\ p \in Live' /\ Preferred(node') = Preferred(node) /\ Syncing(node') = Syncing(node)
  <2>1. PeersOK /\ Downloads.node = node /\ SyncsOnly(Downloads, p)
    BY Fields, Zenon DEF DownloadInv, SyncsOnly
  <2> QED BY <1>1, <2>1, PeersKept, Zenon
<1>3. HandlerOK'
  BY <1>2, Zenon DEF HandlerOK
<1>4. nPreferredDownload' = Cardinality(Preferred(node')) /\ nSyncStarted' = Cardinality(Syncing(node'))
  BY <1>2, Zenon DEF DownloadInv
<1> QED BY <1>1, <1>2, <1>3, <1>4, Zenon DEF DownloadInv

LEMMA FlagCount ==
  ASSUME NEW S \in SUBSET Peers, NEW p \in Peers
  PROVE  /\ Cardinality(S) \in Nat
         /\ p \notin S => Cardinality(S \cup {p}) = Cardinality(S) + 1
         /\ p \in S => Cardinality(S \ {p}) = Cardinality(S) - 1
<1>1. IsFiniteSet(S)
  BY DownloadAssumption, FS_Subset, Zenon
<1> QED BY <1>1, FS_CardinalityType, FS_AddElement, FS_RemoveElement, Zenon

LEMMA InitInv == Init => DownloadInv
<1> SUFFICES ASSUME Init PROVE DownloadInv
  OBVIOUS
<1>1. NewNode \in CNodeState /\ NewNode.queue = <<>> /\ NewNode.common = None /\ NewNode.stalling = None
      /\ NewNode.nBlocksInFlight = 0 /\ NewNode.nBlocksInFlightValidHeaders = 0
      /\ ~NewNode.fPreferredDownload /\ ~NewNode.fSyncStarted
  BY AgesType DEF NewNode, CNodeState
<1>2. Downloads \in DownloadsType
  BY <1>1 DEF Init, Downloads, DownloadsType
<1>3. \A p \in Peers : node[p] = NewNode /\ phase[p] = "new"
  BY Zenon DEF Init
<1>4. Hashes(<<>>) = {} /\ Distinct(<<>>) /\ Len(<<>>) = 0
  BY DEF Hashes, Distinct
<1>5. \A p \in Peers : PeerOK(node[p], mapBlocksInFlight, p)
  <2>1. \A p \in Peers : {b \in Blocks : mapBlocksInFlight[b] = p} = {}
    BY DownloadAssumption, Zenon DEF Init
  <2> QED BY <1>1, <1>3, <1>4, <2>1, Zenon DEF PeerOK
<1>6. Busy(node) = {} /\ Preferred(node) = {} /\ Syncing(node) = {} /\ Cardinality({}) = 0
  BY <1>1, <1>3, FS_EmptySet, Zenon DEF Busy, Preferred, Syncing
<1>7. DownloadsOK(Downloads)
  BY <1>2, <1>5, <1>6, Fields, Zenon DEF DownloadsOK, Init
<1>8. PeersOK
  BY <1>1, <1>3, Zenon DEF Init, PeersOK
<1>9. LinkedIndex(chain)
  <2>1. InitialIndex \in IndexType
    <3>1. [b \in Blocks |-> 0] \in [Blocks -> Nat] /\ [b \in Blocks |-> 0] \in [Blocks -> Int]
      OBVIOUS
    <3> QED BY <3>1, BlockTree DEF InitialIndex, IndexType
  <2>2. Waiting(InitialIndex) = {} /\ Failed(InitialIndex) = {}
    BY Zenon DEF InitialIndex, Waiting, Failed
  <2>3. IndexOK(InitialIndex)
    BY <2>1, <2>2, BlockTree, Zenon DEF InitialIndex, IndexOK
  <2>4. /\ InitialIndex.tip = Genesis /\ InitialIndex.chainTx = {Genesis}
        /\ InitialIndex.candidates = {Genesis}
    BY Zenon DEF InitialIndex
  <2>5. LinkedIndex(InitialIndex)
    BY <2>2, <2>3, <2>4, BlockTree DEF LinkedIndex
  <2> QED BY <2>5, Zenon DEF Init
<1> QED BY <1>6, <1>7, <1>8, <1>9, Zenon DEF DownloadInv, Init, HandlerOK

LEMMA InvFacts ==
  ASSUME DownloadInv
  PROVE  /\ Downloads \in DownloadsType /\ node \in [Peers -> CNodeState]
         /\ mapBlocksInFlight \in [Blocks -> Peers \cup {None}]
         /\ chain \in IndexType /\ chain.index \in SUBSET Blocks
BY Fields, Zenon DEF DownloadInv, DownloadsOK, DownloadsType, LinkedIndex, IndexOK, IndexType

LEMMA PhaseStep ==
  ASSUME DownloadInv, NEW p \in Peers, InitializeNode(p) \/ Disconnect(p)
  PROVE  DownloadInv'
<1>1. /\ chain' = chain /\ node' = node /\ mapBlocksInFlight' = mapBlocksInFlight
      /\ nPeersWithValidatedDownloads' = nPeersWithValidatedDownloads
      /\ nPreferredDownload' = nPreferredDownload /\ nSyncStarted' = nSyncStarted /\ handler' = handler
  BY Zenon DEF InitializeNode, Disconnect
<1>2. PICK s \in {"init", "disconnect"} :
        /\ phase' = [phase EXCEPT ![p] = s]
        /\ s = "init" => phase[p] = "new"
        /\ s = "disconnect" => phase[p] \in {"init", "connected"}
  BY Zenon DEF InitializeNode, Disconnect
<1>3. /\ phase' \in [Peers -> {"new", "init", "connected", "disconnect", "gone"}]
      /\ phase'[p] = s /\ \A q \in Peers \ {p} : phase'[q] = phase[q]
  BY <1>2, Zenon DEF DownloadInv, PeersOK
<1>4. Live \subseteq Live'
  BY <1>2, <1>3, Zenon DEF Live
<1>5. s = "init" => ~node[p].fPreferredDownload
  BY <1>2, Zenon DEF DownloadInv, PeersOK, Live
<1>6. PeersOK'
  BY <1>1, <1>3, <1>4, <1>5, Zenon DEF DownloadInv, PeersOK
<1>7. HandlerOK'
  BY <1>1, <1>4, Zenon DEF DownloadInv, HandlerOK
<1>8. Downloads' = Downloads
  BY <1>1, Zenon DEF Downloads
<1>9. Preferred(node)' = Preferred(node) /\ Syncing(node)' = Syncing(node)
  BY <1>1, Zenon DEF Preferred, Syncing
<1> QED BY <1>1, <1>6, <1>7, <1>8, <1>9, Zenon DEF DownloadInv

LEMMA VersionStep ==
  ASSUME DownloadInv, NEW p \in Peers, Version(p)
  PROVE  DownloadInv'
<1> DEFINE o == p \in Outbound
           s == [node[p] EXCEPT !.fPreferredDownload = o]
<1>1. /\ chain' = chain /\ mapBlocksInFlight' = mapBlocksInFlight
      /\ nPeersWithValidatedDownloads' = nPeersWithValidatedDownloads
      /\ nPreferredDownload' = nPreferredDownload + (IF p \in Outbound THEN 1 ELSE 0)
      /\ nSyncStarted' = nSyncStarted /\ handler' = None /\ phase[p] = "init"
      /\ phase' = [phase EXCEPT ![p] = "connected"]
      /\ node' = [node EXCEPT ![p] = s]
  BY Zenon DEF Version
<1>2. node \in [Peers -> CNodeState]
  BY InvFacts, Zenon
<1>3. /\ s \in CNodeState /\ s.queue = node[p].queue /\ s.common = node[p].common
      /\ s.nBlocksInFlight = node[p].nBlocksInFlight
      /\ s.nBlocksInFlightValidHeaders = node[p].nBlocksInFlightValidHeaders
      /\ s.stalling = node[p].stalling /\ s.fSyncStarted = node[p].fSyncStarted
      /\ s.fPreferredDownload = o
  <2>1. o \in BOOLEAN
    OBVIOUS
  <2> HIDE DEF o
  <2> QED BY <1>2, <2>1, Zenon DEF CNodeState
<1> HIDE DEF s
<1>4. node'[p] = s /\ \A q \in Peers \ {p} : node'[q] = node[q]
  BY <1>1, <1>2, Zenon
<1>5. DownloadsOK(Downloads)'
  <2>1. Downloads' = [Downloads EXCEPT !.node[p] = s]
    BY <1>1 DEF Downloads
  <2>2. PeerOK(node[p], mapBlocksInFlight, p)
    BY Fields, Zenon DEF DownloadInv, DownloadsOK
  <2>3. /\ s.queue = Downloads.node[p].queue
        /\ s.nBlocksInFlight = Downloads.node[p].nBlocksInFlight
        /\ s.nBlocksInFlightValidHeaders = Downloads.node[p].nBlocksInFlightValidHeaders
        /\ s.stalling # None => s.queue # <<>>
    BY <1>3, <2>2, Fields, Zenon DEF PeerOK
  <2> QED BY <1>3, <2>1, <2>3, PeerChanged, Zenon DEF DownloadInv
<1>6. /\ phase' \in [Peers -> {"new", "init", "connected", "disconnect", "gone"}]
      /\ phase'[p] = "connected" /\ \A q \in Peers \ {p} : phase'[q] = phase[q]
  BY <1>1, Zenon DEF DownloadInv, PeersOK
<1>7. Live' = Live
  BY <1>1, <1>6, Zenon DEF Live
<1>8. PeersOK'
  <2>1. p \in Live
    BY <1>1, Zenon DEF Live
  <2> QED BY <1>1, <1>3, <1>4, <1>6, <1>7, <2>1 DEF DownloadInv, PeersOK
<1>9. nPreferredDownload' = Cardinality(Preferred(node'))
  <2>1. p \notin Preferred(node) /\ nPreferredDownload = Cardinality(Preferred(node))
    BY <1>1, Zenon DEF DownloadInv, PeersOK, Preferred
  <2>2. Preferred(node') = IF p \in Outbound THEN Preferred(node) \cup {p} ELSE Preferred(node)
    BY <1>3, <1>4, <2>1, Zenon DEF Preferred
  <2>3. Preferred(node) \in SUBSET Peers
    BY Zenon DEF Preferred
  <2> QED BY <1>1, <2>1, <2>2, <2>3, FlagCount
<1>10. Syncing(node') = Syncing(node)
  BY <1>3, <1>4, Zenon DEF Syncing
<1> QED BY <1>1, <1>5, <1>8, <1>9, <1>10, Zenon DEF DownloadInv, HandlerOK

LEMMA FinalizeStep ==
  ASSUME DownloadInv, NEW p \in Peers, FinalizeNode(p)
  PROVE  DownloadInv'
<1> DEFINE q == node[p].queue
<1>1. /\ chain' = chain /\ handler' = handler /\ (handler # None => handler.peer # p)
      /\ phase[p] = "disconnect" /\ phase' = [phase EXCEPT ![p] = "gone"]
      /\ node' = [node EXCEPT ![p] = NewNode]
      /\ mapBlocksInFlight' = [b \in Blocks |-> IF b \in Hashes(q) THEN None ELSE mapBlocksInFlight[b]]
      /\ nSyncStarted' = nSyncStarted - (IF node[p].fSyncStarted THEN 1 ELSE 0)
      /\ nPreferredDownload' = nPreferredDownload - (IF node[p].fPreferredDownload THEN 1 ELSE 0)
      /\ nPeersWithValidatedDownloads' = nPeersWithValidatedDownloads -
           (IF node[p].nBlocksInFlightValidHeaders # 0 THEN 1 ELSE 0)
  BY Zenon DEF FinalizeNode, Forget
<1>2. /\ NewNode \in CNodeState /\ NewNode.queue = <<>> /\ NewNode.common = None
      /\ NewNode.stalling = None
      /\ NewNode.nBlocksInFlight = 0 /\ NewNode.nBlocksInFlightValidHeaders = 0
      /\ ~NewNode.fPreferredDownload /\ ~NewNode.fSyncStarted
  BY AgesType DEF NewNode, CNodeState
<1>3. /\ node \in [Peers -> CNodeState] /\ mapBlocksInFlight \in [Blocks -> Peers \cup {None}]
      /\ Downloads \in DownloadsType
  BY InvFacts, Zenon
<1>4. node'[p] = NewNode /\ \A x \in Peers \ {p} : node'[x] = node[x]
  BY <1>1, <1>3, Zenon
<1>5. \A x \in Peers : PeerOK(node[x], mapBlocksInFlight, x)
  BY Fields, Zenon DEF DownloadInv, DownloadsOK
<1>6. \A b \in Blocks : mapBlocksInFlight'[b] =
        IF mapBlocksInFlight[b] = p THEN None ELSE mapBlocksInFlight[b]
  BY <1>1, <1>5, Zenon DEF PeerOK
<1>7. PeerOK(node'[p], mapBlocksInFlight', p)
  <2>1. {b \in Blocks : mapBlocksInFlight'[b] = p} = {}
    BY <1>6, DownloadAssumption, Zenon
  <2>2. Hashes(<<>>) = {} /\ Distinct(<<>>) /\ Len(<<>>) = 0
    BY DEF Hashes, Distinct
  <2> QED BY <1>2, <1>4, <2>1, <2>2, Zenon DEF PeerOK
<1>8. ASSUME NEW x \in Peers \ {p} PROVE PeerOK(node'[x], mapBlocksInFlight', x)
  <2>1. {b \in Blocks : mapBlocksInFlight'[b] = x} = {b \in Blocks : mapBlocksInFlight[b] = x}
    BY <1>6, DownloadAssumption, Zenon
  <2> QED BY <1>4, <1>5, <2>1, Zenon DEF PeerOK
<1>9. nPeersWithValidatedDownloads' = Cardinality(Busy(node'))
  <2>1. \A x \in Peers \ {p} : node'[x].queue = node[x].queue
    BY <1>4, Zenon
  <2>2. /\ Cardinality(Busy(node)) \in Nat
        /\ Cardinality(Busy(node')) = Cardinality(Busy(node))
             + (IF node[p].queue = <<>> /\ node'[p].queue # <<>> THEN 1 ELSE 0)
             - (IF node[p].queue # <<>> /\ node'[p].queue = <<>> THEN 1 ELSE 0)
    BY <2>1, BusyCount, Zenon
  <2>3. q \in Seq(QueuedBlock)
    BY <1>3, Zenon DEF CNodeState
  <2>4. q = <<>> <=> Len(q) = 0
    BY <2>3, QueueHashes, Zenon
  <2>5. /\ node[p].nBlocksInFlightValidHeaders = Len(q)
        /\ nPeersWithValidatedDownloads = Cardinality(Busy(node))
    BY <1>5, Fields, Zenon DEF PeerOK, DownloadInv, DownloadsOK
  <2> QED BY <1>1, <1>2, <1>4, <2>2, <2>4, <2>5
<1>10. DownloadsOK(Downloads)'
  <2>1. nPeersWithValidatedDownloads' \in Int
    BY <1>1, <1>3 DEF Downloads, DownloadsType
  <2>2. node' \in [Peers -> CNodeState] /\ mapBlocksInFlight' \in [Blocks -> Peers \cup {None}]
    BY <1>1, <1>2, <1>3, Zenon
  <2>3. Downloads' \in DownloadsType
    BY <2>1, <2>2, Zenon DEF Downloads, DownloadsType
  <2> QED BY <1>7, <1>8, <1>9, <2>3, Fields, Zenon DEF DownloadsOK, Downloads
<1>11. /\ phase' \in [Peers -> {"new", "init", "connected", "disconnect", "gone"}]
       /\ phase'[p] = "gone" /\ \A x \in Peers \ {p} : phase'[x] = phase[x]
  BY <1>1, Zenon DEF DownloadInv, PeersOK
<1>12. \A x \in Peers : x \in Live' <=> x \in Live /\ x # p
  BY <1>1, <1>11, Zenon DEF Live
<1>13. PeersOK'
  BY <1>1, <1>2, <1>4, <1>11, <1>12, Zenon DEF DownloadInv, PeersOK
<1>14. nPreferredDownload' = Cardinality(Preferred(node'))
  <2>1. Preferred(node') = Preferred(node) \ {p} /\ Preferred(node) \in SUBSET Peers
        /\ (p \in Preferred(node) <=> node[p].fPreferredDownload)
    BY <1>2, <1>4, Zenon DEF Preferred
  <2>2. /\ Cardinality(Preferred(node)) \in Nat
        /\ p \in Preferred(node) => Cardinality(Preferred(node')) = Cardinality(Preferred(node)) - 1
        /\ p \notin Preferred(node) => Preferred(node') = Preferred(node)
    BY <2>1, FlagCount, Zenon
  <2>3. nPreferredDownload = Cardinality(Preferred(node))
    BY Zenon DEF DownloadInv
  <2> QED BY <1>1, <2>1, <2>2, <2>3
<1>15. nSyncStarted' = Cardinality(Syncing(node'))
  <2>1. Syncing(node') = Syncing(node) \ {p} /\ Syncing(node) \in SUBSET Peers
        /\ (p \in Syncing(node) <=> node[p].fSyncStarted)
    BY <1>2, <1>4, Zenon DEF Syncing
  <2>2. /\ Cardinality(Syncing(node)) \in Nat
        /\ p \in Syncing(node) => Cardinality(Syncing(node')) = Cardinality(Syncing(node)) - 1
        /\ p \notin Syncing(node) => Syncing(node') = Syncing(node)
    BY <2>1, FlagCount, Zenon
  <2>3. nSyncStarted = Cardinality(Syncing(node))
    BY Zenon DEF DownloadInv
  <2> QED BY <1>1, <2>1, <2>2, <2>3
<1>16. HandlerOK'
  BY <1>1, <1>12, Zenon DEF DownloadInv, HandlerOK, Live
<1> QED BY <1>1, <1>10, <1>13, <1>14, <1>15, <1>16, Zenon DEF DownloadInv

\* d after the availability update with which INV, HEADERS and CMPCTBLOCK begin.
LEMMA AnnouncedOK ==
  ASSUME DownloadInv, NEW p \in Peers, NEW index \in SUBSET Blocks, NEW b \in Blocks,
         NEW d, d = [Downloads EXCEPT !.node[p] = UpdateBlockAvailability(@, index, b)]
  PROVE  DownloadsOK(d) /\ OnlyAsks(Downloads, d, p)
<1> DEFINE t == UpdateBlockAvailability(node[p], index, b)
<1>1. DownloadsOK(Downloads) /\ Downloads \in DownloadsType /\ node \in [Peers -> CNodeState]
  BY InvFacts, Zenon DEF DownloadInv
<1>2. d = [Downloads EXCEPT !.node[p] = t]
  BY Zenon DEF Downloads
<1>3. SameRequests(node[p], t) /\ t.common = node[p].common /\ t.stalling = node[p].stalling
  BY <1>1, AvailabilityOK, Zenon
<1> HIDE DEF t
<1>4. Updates(Downloads, d, p, t)
  BY <1>2, <1>3, Fields, Zenon DEF Updates
<1> QED BY <1>1, <1>4, PeerUpdated, Zenon

LEMMA ConnectedLive ==
  ASSUME NEW p \in Peers, Connected(p)
  PROVE  p \in Live /\ handler = None
BY Zenon DEF Connected, Live

LEMMA InvStep ==
  ASSUME DownloadInv, NEW p \in Peers, NEW b \in Blocks, Inv(p, b)
  PROVE  DownloadInv'
<1> DEFINE d == [Downloads EXCEPT !.node[p] = UpdateBlockAvailability(@, chain.index, b)]
<1>1. p \in Live /\ handler = None
  BY ConnectedLive, Zenon DEF Inv
<1>2. chain.index \in SUBSET Blocks
  BY InvFacts, Zenon
<1>3. DownloadsOK(d) /\ OnlyAsks(Downloads, d, p)
  BY <1>2, AnnouncedOK, Zenon
<1>4. SetDownloads(d)
  BY Zenon DEF Inv, SetDownloads, Downloads
<1> HIDE DEF d
<1>5. /\ chain' = chain /\ phase' = phase /\ nPreferredDownload' = nPreferredDownload
      /\ nSyncStarted' = nSyncStarted /\ handler' = None
  BY <1>1, Zenon DEF Inv
<1> QED BY <1>1, <1>3, <1>4, <1>5, StepOK, Zenon DEF DownloadInv

LEMMA HeadersStep ==
  ASSUME DownloadInv, NEW p \in Peers, NEW b \in Blocks, Headers(p, b)
  PROVE  DownloadInv'
<1> DEFINE c == [chain EXCEPT !.index = @ \cup Ancestry[b]]
           e == DirectFetch(c, Downloads, p, b)
<1>1. /\ Connected(p) /\ chain' = c /\ SetDownloads(e) /\ phase' = phase
      /\ nPreferredDownload' = nPreferredDownload
      /\ nSyncStarted' = nSyncStarted /\ handler' = handler
  BY Zenon DEF Headers
<1>2. p \in Live /\ handler = None
  BY <1>1, ConnectedLive, Zenon
<1>3. LinkedIndex(c) /\ c.chainTx = chain.chainTx
  <2>1. Ancestry[b] \in SUBSET Blocks /\ \A x \in Ancestry[b] : Ancestry[x] \subseteq chain.index \cup Ancestry[b]
    BY Tree, Zenon
  <2> QED BY <2>1, HeadersLinked, Zenon DEF DownloadInv
<1> HIDE DEF c
<1>4. c.index \in SUBSET Blocks
  BY <1>3, Zenon DEF LinkedIndex, IndexOK, IndexType
<1>5. DownloadsOK(e) /\ OnlyAsks(Downloads, e, p)
  BY <1>4, DirectFetchOK, Zenon DEF DownloadInv
<1> HIDE DEF e
<1> QED BY <1>1, <1>2, <1>3, <1>5, StepOK, Zenon

LEMMA BlockStep ==
  ASSUME DownloadInv, NEW p \in Peers, NEW b \in Blocks, Block(p, b)
  PROVE  DownloadInv'
<1> DEFINE e == MarkBlockAsReceived(Downloads, b)
<1>1. /\ SetDownloads(e) /\ chain' = chain /\ phase' = phase
      /\ nPreferredDownload' = nPreferredDownload /\ nSyncStarted' = nSyncStarted
      /\ handler'.block = b /\ handler'.peer = p
  BY Zenon DEF Block
<1>2. p \in Live
  BY ConnectedLive, Zenon DEF Block
<1>3. DownloadsOK(e) /\ OnlyAsks(Downloads, e, p)
  BY ReceivedOK, Zenon DEF DownloadInv
<1> HIDE DEF e
<1> QED BY <1>1, <1>2, <1>3, StepOK, Zenon DEF DownloadInv

LEMMA NothingAsked ==
  ASSUME NEW d, NEW p PROVE OnlyAsks(d, d, p)
BY Zenon DEF OnlyAsks

LEMMA ReadStep ==
  ASSUME DownloadInv, ProcessRead
  PROVE  DownloadInv'
<1> DEFINE c == ProcessNewBlock(chain, handler.block, handler.fForce)
           e == IF handler.fOptimistic /\ IsValid(c, handler.block)
                THEN MarkBlockAsReceived(Downloads, handler.block) ELSE Downloads
           p == handler.peer
<1>1. /\ handler # None /\ chain' = c /\ SetDownloads(e) /\ handler' = None /\ phase' = phase
      /\ nPreferredDownload' = nPreferredDownload /\ nSyncStarted' = nSyncStarted
  BY Zenon DEF ProcessRead
<1>2. handler.block \in Blocks /\ p \in Live
  BY <1>1, Zenon DEF DownloadInv, HandlerOK
<1>3. LinkedIndex(c) /\ chain.chainTx \subseteq c.chainTx
  BY <1>2, ProcessLinked DEF DownloadInv
<1>4. DownloadsOK(e) /\ OnlyAsks(Downloads, e, p)
  <2> DEFINE f == MarkBlockAsReceived(Downloads, handler.block)
  <2>1. DownloadsOK(f) /\ OnlyAsks(Downloads, f, p)
    BY <1>2, ReceivedOK, Zenon DEF DownloadInv
  <2>2. DownloadsOK(Downloads) /\ OnlyAsks(Downloads, Downloads, p)
    BY NothingAsked, Zenon DEF DownloadInv
  <2>3. e \in {f, Downloads}
    OBVIOUS
  <2> HIDE DEF f, e
  <2> QED BY <2>1, <2>2, <2>3, Zenon
<1> HIDE DEF c, e, p
<1> QED BY <1>1, <1>2, <1>3, <1>4, StepOK, Zenon

LEMMA BlockTxnStep ==
  ASSUME DownloadInv, NEW p \in Peers, NEW b \in Blocks, NEW status, BlockTxn(p, b, status)
  PROVE  DownloadInv'
<1> DEFINE f == MarkBlockAsReceived(Downloads, b)
           e == IF status = "failed" THEN Downloads ELSE f
<1>1. /\ Connected(p) /\ SetDownloads(e) /\ chain' = chain /\ phase' = PhaseAfter(p, status)
      /\ nPreferredDownload' = nPreferredDownload /\ nSyncStarted' = nSyncStarted
  BY Zenon DEF BlockTxn
<1>2. handler' # None => handler'.block = b /\ handler'.peer = p
  BY Zenon DEF BlockTxn
<1>3. p \in Live
  BY <1>1, ConnectedLive, Zenon
<1>4. DownloadsOK(e) /\ OnlyAsks(Downloads, e, p)
  <2>1. DownloadsOK(f) /\ OnlyAsks(Downloads, f, p)
    BY ReceivedOK, Zenon DEF DownloadInv
  <2>2. DownloadsOK(Downloads) /\ OnlyAsks(Downloads, Downloads, p)
    BY NothingAsked, Zenon DEF DownloadInv
  <2> HIDE DEF f
  <2> QED BY <2>1, <2>2, Zenon
<1> HIDE DEF e
<1>5. phase' \in {phase, [phase EXCEPT ![p] = "disconnect"]}
  BY <1>1, Zenon DEF PhaseAfter
<1> QED BY <1>1, <1>2, <1>3, <1>4, <1>5, StepOK, Zenon DEF DownloadInv

LEMMA CmpctBlockStep ==
  ASSUME DownloadInv, NEW p \in Peers, NEW b \in Blocks, NEW status, CmpctBlock(p, b, status)
  PROVE  DownloadInv'
<1> DEFINE c == [chain EXCEPT !.index = @ \cup {b}]
           d == [Downloads EXCEPT !.node[p] = UpdateBlockAvailability(@, c.index, b)]
           e == MarkBlockAsInFlight(d, p, b, TRUE)
           r == MarkBlockAsReceived(e, b)
           g == DirectFetch(c, d, p, b)
<1>1. /\ Connected(p) /\ b # Genesis /\ Parent[b] \in chain.index /\ chain' = c
      /\ \/ SetDownloads(d) \/ SetDownloads(e) \/ SetDownloads(r) \/ SetDownloads(g)
      /\ nPreferredDownload' = nPreferredDownload /\ nSyncStarted' = nSyncStarted
  BY Zenon DEF CmpctBlock
<1>2. /\ handler' # None => handler'.block = b /\ handler'.peer = p
      /\ phase' \in {phase, [phase EXCEPT ![p] = "disconnect"]}
  BY Zenon DEF CmpctBlock, PhaseAfter
<1>3. p \in Live
  BY <1>1, ConnectedLive, Zenon
<1>4. LinkedIndex(c) /\ c.chainTx = chain.chainTx
  <2>1. Ancestry[b] = {b} \cup Ancestry[Parent[b]] /\ Ancestry[Parent[b]] \subseteq chain.index
    BY <1>1, BlockTree, Zenon DEF DownloadInv, LinkedIndex, IndexOK
  <2>2. \A x \in {b} : Ancestry[x] \subseteq chain.index \cup {b}
    BY <2>1, Zenon
  <2>3. c = [chain EXCEPT !.index = @ \cup {b}] /\ {b} \in SUBSET Blocks /\ LinkedIndex(chain)
    BY Zenon DEF DownloadInv
  <2> HIDE DEF c
  <2> QED BY <2>2, <2>3, HeadersLinked, Zenon
<1> HIDE DEF c
<1>5. c.index \in SUBSET Blocks
  BY <1>4, Zenon DEF LinkedIndex, IndexOK, IndexType
<1>6. DownloadsOK(d) /\ OnlyAsks(Downloads, d, p)
  BY <1>5, AnnouncedOK, Zenon
<1> HIDE DEF d
<1>7. DownloadsOK(e) /\ OnlyAsks(d, e, p)
  BY <1>6, InFlightOK, Zenon
<1> HIDE DEF e
<1>8. DownloadsOK(r) /\ OnlyAsks(e, r, p)
  BY <1>7, ReceivedOK, Zenon
<1>9. DownloadsOK(g) /\ OnlyAsks(d, g, p)
  BY <1>5, <1>6, DirectFetchOK, Zenon
<1> HIDE DEF r, g
<1>10. OnlyAsks(Downloads, e, p) /\ OnlyAsks(Downloads, g, p)
  BY <1>6, <1>7, <1>9, AsksTwice, Zenon
<1>11. OnlyAsks(Downloads, r, p)
  BY <1>8, <1>10, AsksTwice, Zenon
<1>12. PICK f : DownloadsOK(f) /\ OnlyAsks(Downloads, f, p) /\ SetDownloads(f)
  BY <1>1, <1>6, <1>7, <1>8, <1>9, <1>10, <1>11, Zenon
<1> QED BY <1>1, <1>2, <1>3, <1>4, <1>12, StepOK, Zenon

LEMMA SubmitStep ==
  ASSUME DownloadInv, NEW b \in Submitted, SubmitBlock(b)
  PROVE  DownloadInv'
<1>1. /\ chain' = ProcessNewBlock(chain, b, TRUE) /\ phase' = phase /\ node' = node
      /\ mapBlocksInFlight' = mapBlocksInFlight
      /\ nPeersWithValidatedDownloads' = nPeersWithValidatedDownloads
      /\ nPreferredDownload' = nPreferredDownload /\ nSyncStarted' = nSyncStarted /\ handler' = handler
  BY Zenon DEF SubmitBlock
<1>2. LinkedIndex(chain') /\ chain.chainTx \subseteq chain'.chainTx
  BY <1>1, ProcessLinked, DownloadAssumption, Zenon DEF DownloadInv
<1>3. Downloads' = Downloads /\ Live' = Live
  BY <1>1, Zenon DEF Downloads, Live
<1>4. PeersOK'
  BY <1>1, <1>2, <1>3, Zenon DEF DownloadInv, PeersOK
<1>5. HandlerOK'
  BY <1>1, <1>3, Zenon DEF DownloadInv, HandlerOK
<1>6. Preferred(node') = Preferred(node) /\ Syncing(node') = Syncing(node)
  BY <1>1, Zenon
<1> QED BY <1>1, <1>2, <1>3, <1>4, <1>5, <1>6, Zenon DEF DownloadInv

LEMMA SendStep ==
  ASSUME DownloadInv, NEW p \in Peers, SendMessages(p)
  PROVE  DownloadInv'
<1> DEFINE b == node[p].fSyncStarted \/ StartsSync(p)
           t == [node[p] EXCEPT !.fSyncStarted = b]
           d == [Downloads EXCEPT !.node[p].fSyncStarted = @ \/ StartsSync(p)]
           e == IF ~TimedOut(p) /\ Asks(p) THEN RequestBlocks(d, p) ELSE d
<1>1. /\ Connected(p) /\ nSyncStarted' = nSyncStarted + (IF StartsSync(p) THEN 1 ELSE 0)
      /\ phase' = [phase EXCEPT ![p] = IF TimedOut(p) THEN "disconnect" ELSE @]
      /\ SetDownloads(e)
      /\ chain' = chain /\ nPreferredDownload' = nPreferredDownload /\ handler' = handler
  BY Zenon DEF SendMessages
<1>2. p \in Live /\ handler = None
  BY <1>1, ConnectedLive, Zenon
<1>3. /\ node \in [Peers -> CNodeState] /\ node[p] \in CNodeState /\ Downloads \in DownloadsType
      /\ DownloadsOK(Downloads)
  BY InvFacts, Zenon DEF DownloadInv
<1>4. d = [Downloads EXCEPT !.node[p] = t]
  BY Zenon DEF Downloads
<1>5. /\ t \in CNodeState /\ t.queue = node[p].queue /\ t.common = node[p].common
      /\ t.nBlocksInFlight = node[p].nBlocksInFlight
      /\ t.nBlocksInFlightValidHeaders = node[p].nBlocksInFlightValidHeaders
      /\ t.stalling = node[p].stalling /\ t.fPreferredDownload = node[p].fPreferredDownload
      /\ t.fSyncStarted = b
  <2>1. b \in BOOLEAN
    BY <1>3, Zenon DEF CNodeState
  <2> HIDE DEF b
  <2> QED BY <1>3, <2>1, Zenon DEF CNodeState
<1> HIDE DEF t
<1>6. d.node = [node EXCEPT ![p] = t] /\ d.map = mapBlocksInFlight
  BY <1>4, Zenon DEF Downloads
<1>7. d.node[p] = t /\ \A q \in Peers \ {p} : d.node[q] = node[q]
  BY <1>3, <1>6, Zenon
<1>8. DownloadsOK(d)
  <2>1. PeerOK(node[p], mapBlocksInFlight, p)
    BY <1>3, Fields, Zenon DEF DownloadsOK
  <2>2. /\ t.queue = Downloads.node[p].queue
        /\ t.nBlocksInFlight = Downloads.node[p].nBlocksInFlight
        /\ t.nBlocksInFlightValidHeaders = Downloads.node[p].nBlocksInFlightValidHeaders
        /\ t.stalling # None => t.queue # <<>>
    BY <1>5, <2>1, Fields, Zenon DEF PeerOK
  <2> HIDE DEF d
  <2> QED BY <1>3, <1>4, <1>5, <2>2, PeerChanged, Zenon
<1> HIDE DEF d
<1>9. DownloadsOK(e) /\ OnlyAsks(d, e, p)
  <2>1. d.node[p].common # None => d.node[p].common \in chain.chainTx
    BY <1>5, <1>7, Zenon DEF DownloadInv, PeersOK
  <2>2. DownloadsOK(RequestBlocks(d, p)) /\ OnlyAsks(d, RequestBlocks(d, p), p)
    BY <1>6, <1>8, <2>1, RequestBlocksOK, Zenon DEF DownloadInv
  <2> QED BY <1>8, <2>2, NothingAsked, Zenon
<1> HIDE DEF e
<1>10. DownloadsOK(Downloads)' /\ node' = e.node
  BY <1>1, <1>9, Applied, Zenon DEF SetDownloads
<1>11. PeersOK' /\ Preferred(node') = Preferred(node) /\ Syncing(node') = Syncing(d.node)
  <2>1. PeersOK /\ chain.chainTx \subseteq chain'.chainTx
    BY <1>1, Zenon DEF DownloadInv
  <2>2. phase' \in {phase, [phase EXCEPT ![p] = "disconnect"]}
    BY <1>1, <2>1, Zenon DEF PeersOK
  <2>3. SyncsOnly(d, p)
    BY <1>5, <1>7, Zenon DEF SyncsOnly
  <2> QED BY <1>2, <1>9, <1>10, <2>1, <2>2, <2>3, PeersKept, Zenon
<1>12. nSyncStarted' = Cardinality(Syncing(node'))
  <2>1. StartsSync(p) => p \notin Syncing(node)
    BY Zenon DEF StartsSync, Syncing
  <2>2. Syncing(d.node) = IF StartsSync(p) THEN Syncing(node) \cup {p} ELSE Syncing(node)
    BY <1>5, <1>7, Zenon DEF Syncing
  <2>3. Syncing(node) \in SUBSET Peers /\ nSyncStarted = Cardinality(Syncing(node))
    BY Zenon DEF Syncing, DownloadInv
  <2>4. /\ Cardinality(Syncing(node)) \in Nat
        /\ StartsSync(p) => Cardinality(Syncing(node) \cup {p}) = Cardinality(Syncing(node)) + 1
    BY <2>1, <2>3, FlagCount, Zenon
  <2> HIDE DEF StartsSync
  <2> QED BY <1>1, <1>11, <2>2, <2>3, <2>4
<1>13. HandlerOK'
  BY <1>1, <1>2, Zenon DEF HandlerOK
<1> QED BY <1>1, <1>10, <1>11, <1>12, <1>13, Zenon DEF DownloadInv

LEMMA TickStep ==
  ASSUME DownloadInv, Tick
  PROVE  DownloadInv'
<1> DEFINE Aged(s) == [s EXCEPT !.downloading = Older(@), !.stalling = Older(@)]
<1>1. /\ chain' = chain /\ phase' = phase /\ mapBlocksInFlight' = mapBlocksInFlight
      /\ nPeersWithValidatedDownloads' = nPeersWithValidatedDownloads
      /\ nPreferredDownload' = nPreferredDownload /\ nSyncStarted' = nSyncStarted /\ handler' = handler
      /\ node' = [p \in Peers |-> IF node[p].queue = <<>> THEN node[p] ELSE Aged(node[p])]
  BY Zenon DEF Tick
<1>2. node \in [Peers -> CNodeState] /\ Downloads \in DownloadsType
  BY InvFacts, Zenon
<1>3. /\ \A a \in Ages : Older(a) \in Ages \cup {None} /\ (a # None => Older(a) \in Ages)
      /\ Older(None) = None
  BY Zenon DEF Older
<1>4. ASSUME NEW s \in CNodeState
      PROVE  /\ Aged(s) \in CNodeState /\ Aged(s).queue = s.queue /\ Aged(s).common = s.common
             /\ Aged(s).nBlocksInFlight = s.nBlocksInFlight
             /\ Aged(s).nBlocksInFlightValidHeaders = s.nBlocksInFlightValidHeaders
             /\ Aged(s).fPreferredDownload = s.fPreferredDownload
             /\ Aged(s).fSyncStarted = s.fSyncStarted
  <2>1. Older(s.downloading) \in Ages /\ Older(s.stalling) \in Ages \cup {None}
    BY <1>3, Zenon DEF CNodeState, Older
  <2> HIDE DEF Ages, QueuedBlock
  <2> QED BY <2>1, Zenon DEF CNodeState
<1> HIDE DEF Aged
<1>5. ASSUME NEW p \in Peers
      PROVE  /\ node'[p] \in CNodeState /\ node'[p].queue = node[p].queue
             /\ node'[p].common = node[p].common
             /\ node'[p].nBlocksInFlight = node[p].nBlocksInFlight
             /\ node'[p].nBlocksInFlightValidHeaders = node[p].nBlocksInFlightValidHeaders
             /\ node'[p].fPreferredDownload = node[p].fPreferredDownload
             /\ node'[p].fSyncStarted = node[p].fSyncStarted
             /\ node[p].queue = <<>> => node'[p] = node[p]
  BY <1>1, <1>2, <1>4, Zenon
<1>6. DownloadsOK(Downloads)'
  <2>1. node' \in [Peers -> CNodeState]
    BY <1>1, <1>5, Zenon
  <2>2. Downloads' \in DownloadsType
    BY <1>1, <1>2, <2>1, Zenon DEF Downloads, DownloadsType
  <2>3. ASSUME NEW p \in Peers PROVE PeerOK(node'[p], mapBlocksInFlight', p)
    <3>1. PeerOK(node[p], mapBlocksInFlight, p)
      BY Fields, Zenon DEF DownloadInv, DownloadsOK
    <3> QED BY <1>1, <1>5, <3>1, Zenon DEF PeerOK
  <2>4. Busy(node') = Busy(node)
    BY <1>5, Zenon DEF Busy
  <2>5. nPeersWithValidatedDownloads = Cardinality(Busy(node))
    BY Fields, Zenon DEF DownloadInv, DownloadsOK
  <2> QED BY <1>1, <2>2, <2>3, <2>4, <2>5, Zenon DEF DownloadsOK, Downloads
<1>7. Live' = Live
  BY <1>1, Zenon DEF Live
<1>8. PeersOK'
  BY <1>1, <1>5, <1>7, Zenon DEF DownloadInv, PeersOK
<1>9. HandlerOK'
  BY <1>1, <1>7, Zenon DEF DownloadInv, HandlerOK
<1>10. Preferred(node') = Preferred(node) /\ Syncing(node') = Syncing(node)
  BY <1>5, Zenon DEF Preferred, Syncing
<1> QED BY <1>1, <1>6, <1>8, <1>9, <1>10, Zenon DEF DownloadInv

LEMMA DownloadStep == DownloadInv /\ [Next]_vars => DownloadInv'
<1> SUFFICES ASSUME DownloadInv, [Next]_vars PROVE DownloadInv'
  OBVIOUS
<1>1. CASE UNCHANGED vars
  <2>1. Downloads' = Downloads /\ PeersOK' /\ HandlerOK'
    BY <1>1, Zenon DEF vars, Downloads, DownloadInv, PeersOK, HandlerOK, Live
  <2> QED BY <1>1, <2>1, Zenon DEF vars, DownloadInv
<1>2. CASE \E p \in Peers : \/ InitializeNode(p) \/ Version(p) \/ Disconnect(p)
                            \/ FinalizeNode(p) \/ SendMessages(p)
  BY <1>2, PhaseStep, VersionStep, FinalizeStep, SendStep, Zenon
<1>3. CASE \E p \in Peers, b \in Blocks :
             \/ Inv(p, b) \/ Headers(p, b) \/ Block(p, b)
             \/ \E status \in {"invalid", "failed", "ok"} : BlockTxn(p, b, status)
             \/ \E status \in {"invalid", "failed", "missing", "complete"} : CmpctBlock(p, b, status)
  BY <1>3, InvStep, HeadersStep, BlockStep, BlockTxnStep, CmpctBlockStep, Zenon
<1>4. CASE ProcessRead
  BY <1>4, ReadStep, Zenon
<1>5. CASE \E b \in Submitted : SubmitBlock(b)
  BY <1>5, SubmitStep, Zenon
<1>6. CASE Tick
  BY <1>6, TickStep, Zenon
<1> QED BY <1>1, <1>2, <1>3, <1>4, <1>5, <1>6, Zenon DEF Next

LEMMA QueueLength ==
  ASSUME NEW q \in Seq(QueuedBlock), Distinct(q)
  PROVE  Len(q) = Cardinality(Hashes(q))
<1> DEFINE n == Len(q)
           f == [i \in 1 .. n |-> q[i].hash]
<1>1. n \in Nat /\ DOMAIN q = 1 .. n
  OBVIOUS
<1>2. f \in [1 .. n -> Hashes(q)]
  BY <1>1, Zenon DEF Hashes
<1>3. \A i, j \in 1 .. n : f[i] = f[j] => i = j
  BY <1>1, Zenon DEF Distinct
<1>4. \A h \in Hashes(q) : \E i \in 1 .. n : f[i] = h
  BY <1>1, Zenon DEF Hashes
<1> HIDE DEF f
<1>5. f \in Bijection(1 .. n, Hashes(q))
  BY <1>2, <1>3, <1>4, Zenon DEF Bijection, Injection, Surjection, IsInjective
<1>6. ExistsBijection(1 .. n, Hashes(q))
  BY <1>5, Zenon DEF ExistsBijection
<1>7. IsFiniteSet(1 .. n) /\ Cardinality(1 .. n) = n
  BY <1>1, FS_Interval
<1> QED BY <1>6, <1>7, FS_Bijection, Zenon

LEMMA InvImplies ==
  DownloadInv => /\ TypeOK /\ QueuesMatchMap /\ CountersExact
                 /\ StallerOwesABlock /\ NothingSkipped
<1> SUFFICES ASSUME DownloadInv
             PROVE  /\ TypeOK /\ QueuesMatchMap /\ CountersExact
                    /\ StallerOwesABlock /\ NothingSkipped
  OBVIOUS
<1>1. /\ node \in [Peers -> CNodeState] /\ mapBlocksInFlight \in [Blocks -> Peers \cup {None}]
      /\ Downloads \in DownloadsType
  BY InvFacts, Zenon
<1>2. \A p \in Peers : PeerOK(node[p], mapBlocksInFlight, p)
  BY Fields, Zenon DEF DownloadInv, DownloadsOK
<1>3. /\ nPeersWithValidatedDownloads = Cardinality(Busy(node))
      /\ nPreferredDownload = Cardinality(Preferred(node))
      /\ nSyncStarted = Cardinality(Syncing(node))
  BY Fields, Zenon DEF DownloadInv, DownloadsOK
<1>4. TypeOK
  <2>1. \A S \in SUBSET Peers : Cardinality(S) \in Nat
    BY DownloadAssumption, FS_Subset, FS_CardinalityType, Zenon
  <2>2. {nPeersWithValidatedDownloads, nPreferredDownload, nSyncStarted} \subseteq Int
    BY <1>3, <2>1 DEF Busy, Preferred, Syncing
  <2> QED BY <1>1, <2>2, Zenon DEF DownloadInv, TypeOK, PeersOK, HandlerOK, LinkedIndex
<1>5. QueuesMatchMap
  <2>1. SUFFICES ASSUME NEW p \in Peers
                 PROVE  /\ Hashes(node[p].queue) = {b \in Blocks : mapBlocksInFlight[b] = p}
                        /\ Len(node[p].queue) = Cardinality(Hashes(node[p].queue))
                        /\ node[p].queue # <<>> => p \in Live
    BY Zenon DEF QueuesMatchMap
  <2>2. node[p].queue \in Seq(QueuedBlock)
    BY <1>1, Zenon DEF CNodeState
  <2>3. Len(node[p].queue) = Cardinality(Hashes(node[p].queue))
    BY <1>2, <2>2, QueueLength, Zenon DEF PeerOK
  <2> QED BY <1>2, <2>3, Zenon DEF PeerOK, DownloadInv, PeersOK
<1>6. CountersExact
  <2>1. \A p \in Peers : p \notin Live => /\ node[p].queue = <<>> /\ ~node[p].fPreferredDownload
                                          /\ ~node[p].fSyncStarted
    BY Zenon DEF DownloadInv, PeersOK
  <2>2. Live \subseteq Peers
    BY Zenon DEF Live
  <2>3. {p \in Live : p \in {x \in Peers : node[x].queue # <<>>}} = Busy(node)
    BY <2>1, <2>2, Zenon DEF Busy
  <2>4. {p \in Live : p \in {x \in Peers : node[x].fPreferredDownload}} = Preferred(node)
    BY <2>1, <2>2, Zenon DEF Preferred
  <2>5. {p \in Live : p \in {x \in Peers : node[x].fSyncStarted}} = Syncing(node)
    BY <2>1, <2>2, Zenon DEF Syncing
  <2>6. \A p \in Peers : /\ node[p].nBlocksInFlight = Len(node[p].queue)
                         /\ node[p].nBlocksInFlightValidHeaders = Len(node[p].queue)
    BY <1>2, Zenon DEF PeerOK
  <2> QED BY <1>3, <2>3, <2>4, <2>5, <2>6, Zenon DEF CountersExact
<1>7. StallerOwesABlock
  BY <1>2, Zenon DEF StallerOwesABlock, PeerOK
<1>8. NothingSkipped
  BY Zenon DEF NothingSkipped, DownloadInv, PeersOK, LinkedIndex, IndexOK
<1> QED BY <1>4, <1>5, <1>6, <1>7, <1>8, Zenon

-----------------------------------------------------------------------------
(* The theorems. *)

\* The invariant the others follow from: the bookkeeping of net_processing.cpp:299-386 is
\* consistent, peers outside mapNodeState were asked for nothing, and the block index is linked.
THEOREM DownloadInvariant == Spec => []DownloadInv
BY InitInv, DownloadStep, PTL DEF Spec

\* Every field keeps its type, and a handler that waits for ProcessNewBlock holds
\* a peer that is still in mapNodeState: FinalizeNode respects its reference.
THEOREM DownloadTypes == Spec => []TypeOK
BY DownloadInvariant, InvImplies, PTL

\* For any block tree, peers and limits, mapBlocksInFlight and the queues vBlocksInFlight
\* say the same after any interleaving of BLOCK, CMPCTBLOCK, BLOCKTXN, HEADERS, SendMessages,
\* submitblock and FinalizeNode.
THEOREM InFlightConsistent == Spec => []QueuesMatchMap
BY DownloadInvariant, InvImplies, PTL

\* The counters nBlocksInFlight, nBlocksInFlightValidHeaders, nPeersWithValidatedDownloads,
\* nPreferredDownload and nSyncStarted are what they count, so the asserts of
\* FinalizeNode for the last peer hold.
THEOREM DownloadCounters == Spec => []CountersExact
BY DownloadInvariant, InvImplies, PTL

\* Only a peer that still owes a block has nStallingSince set and can be disconnected
\* for stalling.
THEOREM StallersOwe == Spec => []StallerOwesABlock
BY DownloadInvariant, InvImplies, PTL

\* FindNextBlocksToDownload never starts above a block that is missing.
THEOREM SearchSkipsNothing == Spec => []NothingSkipped
BY DownloadInvariant, InvImplies, PTL
=============================================================================
