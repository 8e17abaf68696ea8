--------------------------- MODULE BlockDownload ---------------------------
(***************************************************************************)
(* Block download of net_processing.cpp: which blocks are requested from   *)
(* which peer, the counters kept beside that, and the timeouts that take a *)
(* block away from a peer that does not deliver.  The message handler      *)
(* thread works on one message or one SendMessages call at a time; the     *)
(* socket thread finalizes disconnected peers and an RPC thread may submit *)
(* a block between two critical sections of a handler.                     *)
(*                                                                         *)
(* chain is an index value of BlockIndex; no block here is invalid.  A     *)
(* NodeId is never reused, so a peer that is gone stays gone.  Instead of  *)
(* absolute times the model keeps ages, up to the largest that matters.    *)
(***************************************************************************)
EXTENDS BlockIndex

CONSTANTS
  Peers,        \* NodeIds
  Honest,       \* peers that answer every request within its timeout
  Outbound,     \* peers that VERSION makes preferred for download
  Submitted,    \* blocks the user may submit
  None,         \* a null hash, a NodeId of -1, nStallingSince = 0
  BLOCK_DOWNLOAD_WINDOW,
  MAX_BLOCKS_IN_TRANSIT_PER_PEER,
  BLOCK_STALLING_TIMEOUT,
  BLOCK_DOWNLOAD_TIMEOUT_BASE,
  BLOCK_DOWNLOAD_TIMEOUT_PER_PEER,
  DirectFetchHeight,  \* a tip this high is recent enough for CanDirectFetch
  RecentHeight        \* a block this high is less than a day old

ASSUME DownloadAssumption ==
  /\ Submitted \subseteq Blocks \ {Genesis}
  /\ Honest \subseteq Peers /\ Outbound \subseteq Peers /\ IsFiniteSet(Peers)
  /\ None \notin Peers \cup Blocks
  /\ BLOCK_DOWNLOAD_WINDOW \in Nat /\ MAX_BLOCKS_IN_TRANSIT_PER_PEER \in Nat
  /\ {BLOCK_STALLING_TIMEOUT, BLOCK_DOWNLOAD_TIMEOUT_BASE,
      BLOCK_DOWNLOAD_TIMEOUT_PER_PEER} \subseteq Nat

VARIABLES
  chain,      \* the block index
  phase,      \* phase[p]: "new", "init", "connected", "disconnect" or "gone"
  node,       \* node[p]: the CNodeState of p
  mapBlocksInFlight,
  nPeersWithValidatedDownloads,
  nPreferredDownload,
  nSyncStarted,
  handler     \* the block the message handler is about to process, or None

vars == <<chain, phase, node, mapBlocksInFlight, nPeersWithValidatedDownloads,
          nPreferredDownload, nSyncStarted, handler>>

QueuedBlock == [hash : Blocks, partial : BOOLEAN]
MaxTimeout ==
  BLOCK_DOWNLOAD_TIMEOUT_BASE + BLOCK_DOWNLOAD_TIMEOUT_PER_PEER * (Cardinality(Peers) - 1)
Ages == (0 .. MaxTimeout + 1) \cup (0 .. BLOCK_STALLING_TIMEOUT + 1)
Live == {p \in Peers : phase[p] \in {"init", "connected", "disconnect"}}

CNodeState ==
  [best : Blocks \cup {None},       \* pindexBestKnownBlock
   unknown : Blocks \cup {None},    \* hashLastUnknownBlock
   common : Blocks \cup {None},     \* pindexLastCommonBlock
   queue : Seq(QueuedBlock),        \* vBlocksInFlight
   nBlocksInFlight : Int,
   nBlocksInFlightValidHeaders : Int,
   downloading : Ages,              \* now - nDownloadingSince
   stalling : Ages \cup {None},     \* now - nStallingSince
   fPreferredDownload : BOOLEAN,
   fSyncStarted : BOOLEAN]

NewNode ==
  [best |-> None, unknown |-> None, common |-> None, queue |-> <<>>,
   nBlocksInFlight |-> 0, nBlocksInFlightValidHeaders |-> 0,
   downloading |-> 0, stalling |-> None,
   fPreferredDownload |-> FALSE, fSyncStarted |-> FALSE]

Init ==
  /\ chain = InitialIndex
  /\ phase = [p \in Peers |-> "new"]
  /\ node = [p \in Peers |-> NewNode]
  /\ mapBlocksInFlight = [b \in Blocks |-> None]
  /\ nPeersWithValidatedDownloads = 0
  /\ nPreferredDownload = 0
  /\ nSyncStarted = 0
  /\ handler = None

-----------------------------------------------------------------------------
(* The download bookkeeping as a value d = [node, map, validated], changed *)
(* under cs_main.                                                          *)

Downloads ==
  [node |-> node, map |-> mapBlocksInFlight, validated |-> nPeersWithValidatedDownloads]

SetDownloads(d) ==
  /\ node' = d.node
  /\ mapBlocksInFlight' = d.map
  /\ nPeersWithValidatedDownloads' = d.validated

Hashes(queue) == {queue[i].hash : i \in DOMAIN queue}

\* The queue without the entry of b, which mapBlocksInFlight has an iterator to.
Without(queue, b) ==
  LET i == CHOOSE i \in DOMAIN queue : queue[i].hash = b
  IN  [j \in 1 .. Len(queue) - 1 |-> queue[IF j < i THEN j ELSE j + 1]]

\* Mutants: the counter of peers follows every block; the stalling mark stays.
MarkBlockAsReceivedEach(d, b) ==
  LET p == d.map[b]
  IN  IF p = None THEN d
      ELSE [node |-> [d.node EXCEPT
              ![p].queue = Without(@, b),
              ![p].nBlocksInFlight = @ - 1,
              ![p].nBlocksInFlightValidHeaders = @ - 1, ![p].stalling = None],
            map |-> [d.map EXCEPT ![b] = None], validated |-> d.validated - 1]

MarkBlockAsReceivedStalling(d, b) ==
  LET p == d.map[b]
  IN  IF p = None THEN d
      ELSE [node |-> [d.node EXCEPT
              ![p].queue = Without(@, b),
              ![p].nBlocksInFlight = @ - 1,
              ![p].nBlocksInFlightValidHeaders = @ - 1],
            map |-> [d.map EXCEPT ![b] = None],
            validated |-> d.validated -
              (IF d.node[p].nBlocksInFlightValidHeaders = 1 THEN 1 ELSE 0)]

\* Every caller of MarkBlockAsInFlight passes pindex, so every queued block has
\* validated headers.
MarkBlockAsReceived(d, b) ==
  LET p == d.map[b]
      s == d.node[p]
  IN  IF p = None THEN d
      ELSE [node |-> [d.node EXCEPT ![p] = [s EXCEPT
              !.queue = Without(@, b),
              !.downloading = IF Head(s.queue).hash = b THEN 0 ELSE @,
              !.nBlocksInFlight = @ - 1,
              !.nBlocksInFlightValidHeaders = @ - 1,
              !.stalling = None]],
            map |-> [d.map EXCEPT ![b] = None],
            validated |-> d.validated -
              (IF s.nBlocksInFlightValidHeaders = 1 THEN 1 ELSE 0)]

\* The short-circuit for a block in flight from p itself is for CMPCTBLOCK,
\* which then makes sure the entry has a partial block.
MarkBlockAsInFlight(d, p, b, fPartial) ==
  LET e == MarkBlockAsReceived(d, b)
      s == e.node[p]
      n == s.nBlocksInFlight + 1
  IN  IF d.map[b] = p
      THEN [d EXCEPT !.node[p].queue = [i \in DOMAIN @ |->
             IF @[i].hash = b THEN [@[i] EXCEPT !.partial = TRUE] ELSE @[i]]]
      ELSE [node |-> [e.node EXCEPT ![p] = [s EXCEPT
              !.queue = Append(@, [hash |-> b, partial |-> fPartial]),
              !.nBlocksInFlight = n,
              !.nBlocksInFlightValidHeaders = @ + 1,
              !.downloading = IF n = 1 THEN 0 ELSE @]],
            map |-> [e.map EXCEPT ![b] = p],
            validated |-> e.validated +
              (IF s.nBlocksInFlightValidHeaders = 0 THEN 1 ELSE 0)]

\* The first n blocks of a part S of one branch, and S from the lowest block up.
Lowest(S, n) == {b \in S : Cardinality({x \in S : Height[x] < Height[b]}) < n}

ByHeight(S) ==
  [i \in 1 .. Cardinality(S) |->
     CHOOSE b \in S : Cardinality({x \in S : Height[x] < Height[b]}) = i - 1]

\* MarkBlockAsInFlight for the blocks S of one branch, from the lowest up.  None of
\* them is in flight, so all that is left of the loop is to append and to count.
RequestAll(d, p, S) ==
  LET s == d.node[p]
      n == Cardinality(S)
  IN  IF S = {} THEN d
      ELSE [node |-> [d.node EXCEPT ![p] = [s EXCEPT
              !.queue = @ \o [i \in 1 .. n |-> [hash |-> ByHeight(S)[i], partial |-> FALSE]],
              !.nBlocksInFlight = @ + n,
              !.nBlocksInFlightValidHeaders = @ + n,
              !.downloading = IF s.nBlocksInFlight = 0 THEN 0 ELSE @]],
            map |-> [b \in Blocks |-> IF b \in S THEN p ELSE d.map[b]],
            validated |-> d.validated +
              (IF s.nBlocksInFlightValidHeaders = 0 THEN 1 ELSE 0)]

\* What is known of p's best block.  A hash is looked up in mapBlockIndex.
BetterOf(a, b) == IF a = None \/ ChainWork[b] >= ChainWork[a] THEN b ELSE a

ProcessBlockAvailability(s, index) ==
  IF s.unknown \in index
  THEN [s EXCEPT !.best = BetterOf(@, s.unknown), !.unknown = None]
  ELSE s

UpdateBlockAvailability(s, index, b) ==
  LET t == ProcessBlockAvailability(s, index)
  IN  IF b \in index THEN [t EXCEPT !.best = BetterOf(@, b)]
                     ELSE [t EXCEPT !.unknown = b]

CanDirectFetch == Height[chain.tip] >= DirectFetchHeight
IsInitialBlockDownload == Height[chain.tip] < RecentHeight

\* Mutant: a block that has data counts although one before it is missing.
LinkedHaveData(blocks) == blocks \cap (chain.haveData \cup Ancestry[chain.tip])

\* Blocks that move pindexLastCommonBlock.
Linked(blocks) == blocks \cap chain.chainTx \cap (chain.haveData \cup Ancestry[chain.tip])

\* FindNextBlocksToDownload for peer p with room for count more requests: the
\* blocks to request, the new pindexLastCommonBlock, and the peer that keeps the
\* window from moving.  s is p's state after ProcessBlockAvailability.
FindNextBlocksToDownload(p, s, count) ==
  LET height == IF Height[s.best] < Height[chain.tip] THEN Height[s.best] ELSE Height[chain.tip]
      guess  == CHOOSE b \in Ancestry[chain.tip] : Height[b] = height
      start  == FindFork(IF s.common = None THEN guess ELSE s.common, s.best)
      nWindowEnd == Height[start] + BLOCK_DOWNLOAD_WINDOW
      path   == {b \in Ancestry[s.best] :
                   Height[start] < Height[b] /\ Height[b] <= nWindowEnd + 1}
      have   == chain.haveData \cup Ancestry[chain.tip]
      missing == {b \in path \ have : mapBlocksInFlight[b] = None}
      vBlocks == {b \in Lowest(missing, count) : Height[b] <= nWindowEnd}
      scanned == {b \in path : Cardinality(vBlocks) < count
                                 \/ \E x \in vBlocks : Height[b] <= Height[x]}
      linked  == {start} \cup Linked(scanned)
      flying  == (scanned \ have) \ missing
      waitingfor == IF flying = {} THEN None
                    ELSE mapBlocksInFlight[CHOOSE b \in Lowest(flying, 1) : TRUE]
      blocked == vBlocks = {} /\ missing # {} /\ waitingfor # p
  IN  IF s.best = None \/ ChainWork[s.best] < ChainWork[chain.tip]
      THEN [vBlocks |-> {}, common |-> s.common, staller |-> None]
      ELSE [vBlocks |-> vBlocks,
            common |-> CHOOSE b \in linked : \A x \in linked : Height[x] <= Height[b],
            staller |-> IF blocked THEN waitingfor ELSE None]

-----------------------------------------------------------------------------
(* Connections. *)

Connected(p) == handler = None /\ phase[p] = "connected"

InitializeNode(p) ==
  /\ phase[p] = "new"
  /\ phase' = [phase EXCEPT ![p] = "init"]
  /\ UNCHANGED <<chain, node, mapBlocksInFlight, nPeersWithValidatedDownloads,
                 nPreferredDownload, nSyncStarted, handler>>

\* VERSION with UpdatePreferredDownload, then VERACK.
Version(p) ==
  /\ handler = None /\ phase[p] = "init"
  /\ phase' = [phase EXCEPT ![p] = "connected"]
  /\ node' = [node EXCEPT ![p].fPreferredDownload = p \in Outbound]
  /\ nPreferredDownload' = nPreferredDownload + (IF p \in Outbound THEN 1 ELSE 0)
  /\ UNCHANGED <<chain, mapBlocksInFlight, nPeersWithValidatedDownloads,
                 nSyncStarted, handler>>

\* Anything else that sets fDisconnect: a socket error, a ban, a command.
Disconnect(p) ==
  /\ p \notin Honest /\ phase[p] \in {"init", "connected"}
  /\ phase' = [phase EXCEPT ![p] = "disconnect"]
  /\ UNCHANGED <<chain, node, mapBlocksInFlight, nPeersWithValidatedDownloads,
                 nPreferredDownload, nSyncStarted, handler>>

\* Mutant: the blocks of the peer stay in flight.
ForgetKeepsBlocks(p) ==
  /\ node' = [node EXCEPT ![p] = NewNode]
  /\ nSyncStarted' = nSyncStarted - (IF node[p].fSyncStarted THEN 1 ELSE 0)
  /\ nPreferredDownload' = nPreferredDownload - (IF node[p].fPreferredDownload THEN 1 ELSE 0)
  /\ nPeersWithValidatedDownloads' = nPeersWithValidatedDownloads -
       (IF node[p].nBlocksInFlightValidHeaders # 0 THEN 1 ELSE 0)
  /\ UNCHANGED mapBlocksInFlight

Forget(p) ==
  /\ node' = [node EXCEPT ![p] = NewNode]
  /\ mapBlocksInFlight' = [b \in Blocks |-> IF b \in Hashes(node[p].queue) THEN None
                                            ELSE mapBlocksInFlight[b]]
  /\ nSyncStarted' = nSyncStarted - (IF node[p].fSyncStarted THEN 1 ELSE 0)
  /\ nPreferredDownload' = nPreferredDownload - (IF node[p].fPreferredDownload THEN 1 ELSE 0)
  /\ nPeersWithValidatedDownloads' = nPeersWithValidatedDownloads -
       (IF node[p].nBlocksInFlightValidHeaders # 0 THEN 1 ELSE 0)

\* Mutant: the reference of the message handler does not count.
FinalizeReferenced(p) ==
  /\ phase[p] = "disconnect"
  /\ phase' = [phase EXCEPT ![p] = "gone"]
  /\ Forget(p)
  /\ UNCHANGED <<chain, handler>>

\* The socket thread deletes a peer nobody holds a reference to.
FinalizeNode(p) ==
  /\ phase[p] = "disconnect" /\ (handler # None => handler.peer # p)
  /\ phase' = [phase EXCEPT ![p] = "gone"]
  /\ Forget(p)
  /\ UNCHANGED <<chain, handler>>

-----------------------------------------------------------------------------
(* Announcements. *)

\* INV of a block, or HEADERS with a header whose parent is unknown.
Inv(p, b) ==
  /\ Connected(p)
  /\ node' = [node EXCEPT ![p] = UpdateBlockAvailability(@, chain.index, b)]
  /\ UNCHANGED <<chain, phase, mapBlocksInFlight, nPeersWithValidatedDownloads,
                 nPreferredDownload, nSyncStarted, handler>>

\* The part of the HEADERS handler after ProcessNewBlockHeaders, in a chain c
\* that knows b: with CanDirectFetch the missing blocks of b's branch are
\* requested, earliest first, unless there are too many of them.
DirectFetch(c, d, p, b) ==
  LET e == [d EXCEPT !.node[p] = UpdateBlockAvailability(@, c.index, b)]
      branch  == Branch(c, b)
      missing == {x \in branch \ c.haveData : d.map[x] = None}
      fReached == Cardinality({x \in missing : Parent[x] \in branch})
                    <= MAX_BLOCKS_IN_TRANSIT_PER_PEER
      room == MAX_BLOCKS_IN_TRANSIT_PER_PEER - e.node[p].nBlocksInFlight
  IN  IF CanDirectFetch /\ ChainWork[c.tip] <= ChainWork[b] /\ fReached
      THEN RequestAll(e, p, Lowest(missing, room))
      ELSE e

\* HEADERS with a list of headers that ends in b and connects to the index.
Headers(p, b) ==
  LET c == [chain EXCEPT !.index = @ \cup Ancestry[b]]
  IN  /\ Connected(p) /\ b # Genesis
      /\ chain' = c
      /\ SetDownloads(DirectFetch(c, Downloads, p, b))
      /\ UNCHANGED <<phase, nPreferredDownload, nSyncStarted, handler>>

-----------------------------------------------------------------------------
(* Blocks. *)

\* ActivateBestChain run to its end; ChainState has its separate iterations.
ActivateBestChain(c) ==
  LET f == FindMostWorkChain(c)
  IN  IF f.mostWork \in {NoBlock, c.tip} THEN f.chain
      ELSE PruneBlockIndexCandidates([f.chain EXCEPT !.tip = f.mostWork])

ProcessNewBlock(c, b, fForceProcessing) ==
  IF HeaderAcceptable(c, b)
  THEN ActivateBestChain(AcceptBlock(c, b, fForceProcessing)[1])
  ELSE c

\* The first critical section of BLOCK.
Block(p, b) ==
  /\ Connected(p) /\ b # Genesis
  /\ SetDownloads(MarkBlockAsReceived(Downloads, b))
  /\ handler' = [peer |-> p, block |-> b, fForce |-> mapBlocksInFlight[b] # None,
                 fOptimistic |-> FALSE]
  /\ UNCHANGED <<chain, phase, nPreferredDownload, nSyncStarted>>

\* ProcessNewBlock for the block a handler has read.  After an optimistic
\* reconstruction the download from the other peer is cleared only now.
ProcessRead ==
  LET c == ProcessNewBlock(chain, handler.block, handler.fForce)
  IN  /\ handler # None
      /\ chain' = c
      /\ SetDownloads(IF handler.fOptimistic /\ IsValid(c, handler.block)
                      THEN MarkBlockAsReceived(Downloads, handler.block) ELSE Downloads)
      /\ handler' = None
      /\ UNCHANGED <<phase, nPreferredDownload, nSyncStarted>>

IsPartial(p, b) == \E i \in DOMAIN node[p].queue :
                     node[p].queue[i] = [hash |-> b, partial |-> TRUE]

\* An invalid message costs the whole ban score, and ProcessMessages disconnects
\* the peer before it returns.  Honest peers send no such message.
PhaseAfter(p, status) ==
  IF status = "invalid" THEN [phase EXCEPT ![p] = "disconnect"] ELSE phase

\* BLOCKTXN and what FillBlock makes of the transactions: "invalid", "failed"
\* (the block is asked for in full) or "ok".
BlockTxn(p, b, status) ==
  /\ Connected(p) /\ mapBlocksInFlight[b] = p /\ IsPartial(p, b)
  /\ p \in Honest => status # "invalid"
  /\ SetDownloads(IF status = "failed" THEN Downloads
                  ELSE MarkBlockAsReceived(Downloads, b))
  /\ handler' = IF status = "ok"
                THEN [peer |-> p, block |-> b, fForce |-> TRUE, fOptimistic |-> FALSE]
                ELSE None
  /\ phase' = PhaseAfter(p, status)
  /\ UNCHANGED <<chain, nPreferredDownload, nSyncStarted>>

\* CMPCTBLOCK with a header that connects.  status is what InitData says:
\* "invalid", "failed", "missing" (GETBLOCKTXN is sent) or "complete".
CmpctBlock(p, b, status) ==
  LET c == [chain EXCEPT !.index = @ \cup {b}]
      d == [Downloads EXCEPT !.node[p] = UpdateBlockAvailability(@, c.index, b)]
      owner == mapBlocksInFlight[b]
      fUseful == /\ b \notin c.haveData /\ ChainWork[b] > ChainWork[c.tip]
                 /\ owner # None \/ CanDirectFetch
      fNear == Height[b] <= Height[c.tip] + 2
      fMine == IF owner = None
               THEN d.node[p].nBlocksInFlight < MAX_BLOCKS_IN_TRANSIT_PER_PEER
               ELSE owner = p
      e == MarkBlockAsInFlight(d, p, b, TRUE)
      read == [peer |-> p, block |-> b, fForce |-> TRUE, fOptimistic |-> ~fMine]
      fRead == fUseful /\ fNear /\ status = "complete" /\ ~IsPartial(p, b)
  IN  /\ Connected(p) /\ b # Genesis /\ Parent[b] \in chain.index
      /\ p \in Honest => status # "invalid"
      /\ chain' = c
      /\ SetDownloads(
           CASE fUseful /\ fNear /\ fMine /\ ~IsPartial(p, b) ->
                  IF status \in {"invalid", "complete"} THEN MarkBlockAsReceived(e, b) ELSE e
             [] fUseful /\ ~fNear /\ owner = None -> DirectFetch(c, d, p, b)
             [] OTHER -> d)
      /\ handler' = IF fRead THEN read ELSE None
      /\ phase' = PhaseAfter(p, IF fUseful /\ fNear /\ fMine /\ ~IsPartial(p, b)
                              THEN status ELSE "ignored")
      /\ UNCHANGED <<nPreferredDownload, nSyncStarted>>

\* The submitblock command on an RPC thread.
SubmitBlock(b) ==
  /\ chain' = ProcessNewBlock(chain, b, TRUE)
  /\ UNCHANGED <<phase, node, mapBlocksInFlight, nPeersWithValidatedDownloads,
                 nPreferredDownload, nSyncStarted, handler>>

-----------------------------------------------------------------------------
(* SendMessages. *)

Fetches(p) == node[p].fPreferredDownload \/ nPreferredDownload = 0

\* "Start block sync": ask one peer for headers, or all of them near the tip.
StartsSync(p) ==
  /\ ~node[p].fSyncStarted
  /\ \/ nSyncStarted = 0 /\ Fetches(p)
     \/ \E b \in chain.index : Height[b] >= RecentHeight

\* Mutants: no peer is ever disconnected; only stalling peers are.
TimedOutNever(p) == FALSE

TimedOutStalling(p) ==
  node[p].stalling # None /\ node[p].stalling > BLOCK_STALLING_TIMEOUT

TimedOut(p) ==
  LET s == node[p]
      nOther == nPeersWithValidatedDownloads -
                  (IF s.nBlocksInFlightValidHeaders > 0 THEN 1 ELSE 0)
  IN  \/ s.stalling # None /\ s.stalling > BLOCK_STALLING_TIMEOUT
      \/ /\ s.queue # <<>>
         /\ s.downloading > BLOCK_DOWNLOAD_TIMEOUT_BASE
                              + BLOCK_DOWNLOAD_TIMEOUT_PER_PEER * nOther

\* The getdata part: request blocks from p and mark the peer that holds up the
\* window when p has nothing in flight.
RequestBlocks(d, p) ==
  LET s == ProcessBlockAvailability(d.node[p], chain.index)
      f == FindNextBlocksToDownload(p, s, MAX_BLOCKS_IN_TRANSIT_PER_PEER - s.nBlocksInFlight)
      e == RequestAll([d EXCEPT !.node[p] = [s EXCEPT !.common = f.common]], p, f.vBlocks)
  IN  IF e.node[p].nBlocksInFlight = 0 /\ f.staller # None
           /\ e.node[f.staller].stalling = None
      THEN [e EXCEPT !.node[f.staller].stalling = 0]
      ELSE e

Asks(p) == /\ Fetches(p) \/ ~IsInitialBlockDownload
           /\ node[p].nBlocksInFlight < MAX_BLOCKS_IN_TRANSIT_PER_PEER

SendMessages(p) ==
  LET d == [Downloads EXCEPT !.node[p].fSyncStarted = @ \/ StartsSync(p)]
  IN  /\ Connected(p)
      /\ nSyncStarted' = nSyncStarted + (IF StartsSync(p) THEN 1 ELSE 0)
      /\ phase' = [phase EXCEPT ![p] = IF TimedOut(p) THEN "disconnect" ELSE @]
      /\ SetDownloads(IF ~TimedOut(p) /\ Asks(p) THEN RequestBlocks(d, p) ELSE d)
      /\ UNCHANGED <<chain, nPreferredDownload, handler>>

\* Time passes, but not so much that a honest peer misses its timeout.
Older(a) == IF a = None \/ a + 1 \notin Ages THEN a ELSE a + 1

Tick ==
  /\ \A p \in Honest \cap Live : node[p].queue # <<>> =>
       /\ node[p].downloading < BLOCK_DOWNLOAD_TIMEOUT_BASE
       /\ node[p].stalling \in 0 .. BLOCK_STALLING_TIMEOUT =>
            node[p].stalling < BLOCK_STALLING_TIMEOUT
  /\ node' = [p \in Peers |-> IF node[p].queue = <<>> THEN node[p]
                ELSE [node[p] EXCEPT !.downloading = Older(@), !.stalling = Older(@)]]
  /\ UNCHANGED <<chain, phase, mapBlocksInFlight, nPeersWithValidatedDownloads,
                 nPreferredDownload, nSyncStarted, handler>>

-----------------------------------------------------------------------------
Next ==
  \/ \E p \in Peers : \/ InitializeNode(p) \/ Version(p) \/ Disconnect(p)
                      \/ FinalizeNode(p) \/ SendMessages(p)
  \/ \E p \in Peers, b \in Blocks :
       \/ Inv(p, b) \/ Headers(p, b) \/ Block(p, b)
       \/ \E status \in {"invalid", "failed", "ok"} : BlockTxn(p, b, status)
       \/ \E status \in {"invalid", "failed", "missing", "complete"} : CmpctBlock(p, b, status)
  \/ ProcessRead
  \/ \E b \in Submitted : SubmitBlock(b)
  \/ Tick

Spec == Init /\ [][Next]_vars

\* The handler thread passes over all peers again and again, taking one message
\* of each and calling SendMessages, so each gets its turn infinitely often; the
\* socket thread cleans up, time passes, and honest peers connect, announce
\* their best chain and answer what they are asked.
Answer(p, b) ==
  mapBlocksInFlight[b] = p /\ (BlockTxn(p, b, "ok") \/ (~IsPartial(p, b) /\ Block(p, b)))

BestBlocks == {b \in Blocks : \A x \in Blocks : ChainWork[x] <= ChainWork[b]}

Announce(p) == \E b \in BestBlocks : Headers(p, b)

\* When <<A>>_vars is enabled, for the three actions under strong fairness.
CanSend(p) ==
  /\ Connected(p)
  /\ TimedOut(p) \/ StartsSync(p) \/ (Asks(p) /\ RequestBlocks(Downloads, p) # Downloads)
CanAnnounce(p) == Connected(p) /\ \E b \in BestBlocks :
                    b \notin chain.index \/ DirectFetch(chain, Downloads, p, b) # Downloads
CanAnswer(p) == Connected(p) /\ \E b \in Blocks : mapBlocksInFlight[b] = p

Fairness ==
  /\ []<>(handler = None)
  /\ WF_vars(Tick)
  /\ \A p \in Peers :
       /\ WF_vars(FinalizeNode(p))
       /\ []<>CanSend(p) => []<><<SendMessages(p)>>_vars
  /\ \A p \in Honest :
       /\ WF_vars(InitializeNode(p)) /\ SF_vars(Version(p))
       /\ []<>CanAnnounce(p) => []<><<Announce(p)>>_vars
       /\ []<>CanAnswer(p) => []<><<\E b \in Blocks : Answer(p, b)>>_vars

FairSpec == Spec /\ Fairness

-----------------------------------------------------------------------------
(* Properties. *)

TypeOK ==
  /\ IndexOK(chain)
  /\ phase \in [Peers -> {"new", "init", "connected", "disconnect", "gone"}]
  /\ node \in [Peers -> CNodeState]
  /\ mapBlocksInFlight \in [Blocks -> Peers \cup {None}]
  /\ {nPeersWithValidatedDownloads, nPreferredDownload, nSyncStarted} \subseteq Int
  /\ handler # None => handler.block \in Blocks /\ handler.peer \in Live

\* mapBlocksInFlight and the queues of the peers say the same: the iterator kept
\* for a block points into the queue of the peer kept for it, that peer is in
\* mapNodeState, and no block is queued twice, whichever of BLOCK, CMPCTBLOCK,
\* BLOCKTXN, HEADERS, SendMessages and FinalizeNode came last.
QueuesMatchMap ==
  \A p \in Peers :
    /\ Hashes(node[p].queue) = {b \in Blocks : mapBlocksInFlight[b] = p}
    /\ Len(node[p].queue) = Cardinality(Hashes(node[p].queue))
    /\ node[p].queue # <<>> => p \in Live

\* The counters are what they count, so the asserts FinalizeNode makes when the
\* last peer leaves hold and timeouts are computed from the real number of peers.
CountersExact ==
  LET Count(S) == Cardinality({p \in Live : p \in S})
  IN  /\ \A p \in Peers :
           /\ node[p].nBlocksInFlight = Len(node[p].queue)
           /\ node[p].nBlocksInFlightValidHeaders = Len(node[p].queue)
      /\ nPeersWithValidatedDownloads = Count({p \in Peers : node[p].queue # <<>>})
      /\ nPreferredDownload = Count({p \in Peers : node[p].fPreferredDownload})
      /\ nSyncStarted = Count({p \in Peers : node[p].fSyncStarted})

\* A peer that is marked as stalling, and will be disconnected for it, still owes
\* a block: every block that is received or given to another peer clears the mark.
StallerOwesABlock == \A p \in Peers : node[p].stalling # None => node[p].queue # <<>>

\* Everything up to pindexLastCommonBlock has been downloaded, so a search that
\* starts there skips no missing block.
NothingSkipped ==
  \A p \in Peers : node[p].common # None => Ancestry[node[p].common] \subseteq chain.haveData

\* A block does not stay in flight from an unresponsive peer for ever: the
\* peer is disconnected for stalling or by the download timeout, or another delivers.
RequestsEnd ==
  \A p \in Peers \ Honest, b \in Blocks \ {Genesis} :
    mapBlocksInFlight[b] = p ~> mapBlocksInFlight[b] # p

\* With one honest outbound peer the node ends on the best chain, although other
\* peers announce blocks, are asked for them and never deliver.
SyncCompletes == <>[](chain.tip \in BestBlocks)
=============================================================================
