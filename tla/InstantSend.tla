----------------------------- MODULE InstantSend -----------------------------
(***************************************************************************)
(* CInstantSendManager (llmq/quorums_instantsend.cpp) on one masternode:   *)
(* the database of InstantSend locks (islocks), the transactions it tracks *)
(* because they are not locked yet, the worker thread that processes       *)
(* islocks and retries, and the calls of validation.cpp and ChainLocks     *)
(* that feed it.                                                           *)
(*                                                                         *)
(* Block processing and AcceptToMemoryPool hold cs_main from their first   *)
(* step to their last; `calls' is what is left to do of such a section:    *)
(*   now      the calls that come next, in order                           *)
(*   base     the block whose chain the tip is disconnected down to        *)
(*   target   the block ActivateBestChainStep connects up to               *)
(*   freed, late   what is reported after the last connection: conflict    *)
(*            removals of the pool, then the transactions of the blocks    *)
(* The worker takes cs, mempool.cs and cs_main one at a time, so its steps *)
(* fall between those of the section unless they need cs_main themselves.  *)
(*                                                                         *)
(* An islock is known by its transaction: the quorums sign one islock per  *)
(* transaction and none that conflict (SigningService), so the databases   *)
(* is_i, is_tx and is_in are one set.  Chain synchronisation is complete   *)
(* and the InstantSend spork is on.                                        *)
(***************************************************************************)
EXTENDS BlockIndex, Functions

CONSTANTS
  Txs,                  \* transactions; no coinbase
  Inputs,               \* outpoints <<transaction, n>> of every transaction
  Funding,              \* transactions confirmed long before
  BlockTxs,             \* vtx of every block without the coinbase
  Islocks,              \* transactions the quorums lock
  CLSigs,               \* blocks the quorums chainlock
  None,                 \* no vote
  nInstantSendConfirmationsRequired

Outpoints == UNION {Inputs[t] : t \in Txs}
Parents(t) == {o[1] : o \in Inputs[t]}
Ids == Txs \cup UNION {Parents(t) : t \in Txs}
Conflict(t, u) == t # u /\ Inputs[t] \cap Inputs[u] # {}

\* The transactions GetTransaction is asked for.
LookedUp == Islocks \cup (UNION {Parents(t) : t \in Txs} \cap Txs)

ASSUME InstantSendAssumption ==
  /\ DOMAIN Inputs = Txs
  /\ BlockTxs \in [Blocks -> Seq(Txs)]
  /\ Islocks \subseteq Txs
  /\ CLSigs \subseteq Blocks
  /\ None \notin Txs

ASSUME OneLockPerInput == \A t, u \in Islocks : ~Conflict(t, u)

TxsOf(b) == Range(BlockTxs[b])
ChainTxs(b) == UNION {TxsOf(a) : a \in Ancestry[b]}
MinedIn(t, b) == {a \in Ancestry[b] : t \in TxsOf(a)}

\* A transaction is mined at most once on a chain: its inputs are spent then, and
\* ConnectBlock refuses it (CCoinsViewCache::HaveInputs).
ASSUME MinedOnce ==
  \A b \in Blocks : \A a, c \in Ancestry[b] : a # c => TxsOf(a) \cap TxsOf(c) = {}

VARIABLES
  chain,      \* [tip, failed, txIndex, chainLock, notified, notifying]: the last
              \* two are the ChainLock notified last and the one being notified
  pool,       \* the transactions of mempool
  db,         \* [islocks, mined]: islocks by transaction, is_m records
              \* <<height, islock>>
  track,      \* [info, byInputs, retry]: nonLockedTxs, nonLockedTxsByInputs,
              \* pendingRetryTxs
  votes,      \* the transaction this node has voted for, per input
  pending,    \* pendingInstantSendLocks
  worker,     \* the worker thread
  calls,      \* the rest of the running section of cs_main, see above
  ghost       \* history, see below

vars == <<chain, pool, db, track, votes, pending, worker, calls, ghost>>

(***************************************************************************)
(* The history variable names the transactions for which an event fell     *)
(* into a gap between two critical sections:                               *)
(*   overtaken   a lock of it, of a parent or of a conflicting transaction *)
(*               was stored while its own validation was under way, or the *)
(*               ChainLock of its block was handled then; or a lock of a   *)
(*               parent was stored whose entry had lost the link to it     *)
(*   stale       islocks whose is_m records differ from the active chain   *)
(***************************************************************************)
NoInfo == [tx |-> FALSE, mined |-> NoBlock, children |-> {}]
Untracked == [info |-> [q \in Ids |-> NoInfo], byInputs |-> {}, retry |-> {}]
Resting == [pc |-> "idle", locks |-> {}, lock |-> None, mined |-> NoBlock,
            txs |-> {}, retry |-> {}]

NoCalls == [now |-> <<>>, base |-> NoBlock, target |-> NoBlock, freed |-> <<>>, late |-> <<>>]

\* All ancestors of a transaction.
Above[t \in Txs] == Parents(t) \cup UNION {Above[q] : q \in Parents(t) \cap Txs}

HasChainLock(b) ==
  b # NoBlock /\ chain.chainLock # NoBlock /\ b \in Ancestry[chain.chainLock]

Init ==
  /\ chain = [tip |-> Genesis, failed |-> {}, txIndex |-> [t \in LookedUp |-> NoBlock],
              chainLock |-> NoBlock, notified |-> NoBlock, notifying |-> NoBlock]
  /\ pool = {}
  /\ db = [islocks |-> {}, mined |-> {}]
  /\ track = Untracked
  /\ votes = [o \in Outpoints |-> None]
  /\ pending = {}
  /\ worker = Resting
  /\ calls = NoCalls
  /\ ghost = [overtaken |-> {}, stale |-> {}]

-----------------------------------------------------------------------------
(* Transactions that are not locked. *)

\* nonLockedTxs is a function of all transactions; NoInfo stands for no entry.  An
\* entry without its transaction and without children is erased, so none is NoInfo.
AddNonLockedTx(m, t, pindexMined) ==
  LET new == m.info[t] = NoInfo
      linked == IF m.info[t].tx THEN {} ELSE Parents(t)
  IN  [info     |-> [q \in Ids |->
                       [tx       |-> q = t \/ m.info[q].tx,
                        mined    |-> IF q = t THEN pindexMined ELSE m.info[q].mined,
                        children |-> m.info[q].children \cup {u \in {t} : q \in linked}]],
       byInputs |-> m.byInputs \cup {e \in Inputs[t] \X {t} : new},
       retry    |-> m.retry]

\* The entries go, and with them the links from their parents; an entry that only held
\* children goes with the last of them.  Every entry of their inputs is erased from
\* nonLockedTxsByInputs, those of other transactions included.
RemoveNonLockedTxs(m, txs, retried) ==
  LET known == {t \in txs : m.info[t].tx}
  IN  [info     |-> [q \in Ids |->
                       IF q \in txs THEN NoInfo
                       ELSE [m.info[q] EXCEPT !.children = @ \ {t \in known : q \in Parents(t)}]],
       byInputs |-> {e \in m.byInputs : \A t \in known : e[1] \notin Inputs[t]},
       retry    |-> m.retry \cup retried]

\* Mutant: children of a parent that came later than they did are not retried.
RemoveNonLockedTxKnownOnly(m, t, retryChildren) ==
  RemoveNonLockedTxs(m, {t}, IF retryChildren /\ m.info[t].tx THEN m.info[t].children ELSE {})

RemoveNonLockedTx(m, t, retryChildren) ==
  RemoveNonLockedTxs(m, {t}, IF retryChildren THEN m.info[t].children ELSE {})

\* RemoveConflictedTx: the request id it erases is made from the whole input, not
\* from its outpoint, and is therefore never found.
RemoveConflictedTxs(txs) ==
  track' = RemoveNonLockedTxs(track, txs, {})

-----------------------------------------------------------------------------
(* The database. *)

ConflictingLocks(t) == {l \in db.islocks : Conflict(l, t)}
IsLocked(t) == t \in db.islocks

\* The is_m records of t, and whether they are those of the chain that ends in b.
MinedRecords(d, t) == {r \in d.mined : r[2] = t}
MinedExact(d, t, b) == MinedRecords(d, t) = {<<Height[a], t>> : a \in MinedIn(t, b)}

RemoveConfirmedInstantSendLocks(d, nUntilHeight) ==
  LET confirmed == {r \in d.mined : r[1] =< nUntilHeight}
  IN  [islocks |-> {t \in d.islocks : \A r \in confirmed : r[2] # t},
       mined   |-> d.mined \ confirmed]

\* The islock of t and those of transactions that spend t through islocked
\* transactions: they are in every set that t is in and that spending stays in.
Chained(t) ==
  {u \in db.islocks :
     \A S \in SUBSET db.islocks :
       (/\ t \in S
        /\ \A x \in db.islocks : Parents(x) \cap S # {} => x \in S) => u \in S}

\* The is_m records stay.
RemoveChainedInstantSendLocks(txs) ==
  [db EXCEPT !.islocks = @ \ UNION {Chained(t) : t \in txs}]

-----------------------------------------------------------------------------
(* Voting. *)

CanLockInput(o) ==
  LET q == o[1] IN
  \/ IsLocked(q)
  \/ q \in Funding
  \/ /\ q \notin pool
     /\ chain.txIndex[q] # NoBlock
     /\ \/ Height[chain.tip] - Height[chain.txIndex[q]] + 1 >= nInstantSendConfirmationsRequired
        \/ HasChainLock(chain.txIndex[q])

CheckCanLock(t) == Inputs[t] # {} /\ \A o \in Inputs[t] : CanLockInput(o)

MayVote(t) ==
  /\ ConflictingLocks(t) = {}
  /\ CheckCanLock(t)
  /\ \A o \in Inputs[t] : votes[o] \in {None, t}

\* The votes after ProcessTx.
ProcessTx(t) == [o \in Outpoints |-> IF MayVote(t) /\ o \in Inputs[t] THEN t ELSE votes[o]]

-----------------------------------------------------------------------------
(* Sections of cs_main. *)

\* What a section calls: op names the function or the part of it.
Op(name, t) == [op |-> name, tx |-> t, pindex |-> NoBlock, inBlock |-> FALSE]
SyncTransaction(t, pindex, inBlock) ==
  [op |-> "sync", tx |-> t, pindex |-> pindex, inBlock |-> inBlock]
IsDisconnect(c) == c.pindex # NoBlock /\ ~c.inBlock

\* The reports follow the last connection.
Reporting == calls.now = <<>> /\ calls.base = NoBlock /\ calls.target = NoBlock
Current ==
  IF calls.now # <<>> THEN Head(calls.now)
  ELSE IF calls.freed # <<>> THEN Head(calls.freed) ELSE Head(calls.late)

Running(name) ==
  /\ calls.now # <<>> \/ (Reporting /\ (calls.freed # <<>> \/ calls.late # <<>>))
  /\ Current.op = name

\* The current call is replaced by ops.
Then(ops) ==
  calls' = IF calls.now # <<>> THEN [calls EXCEPT !.now = ops \o Tail(@)]
           ELSE IF calls.freed # <<>> THEN [calls EXCEPT !.now = ops, !.freed = Tail(@)]
           ELSE [calls EXCEPT !.now = ops, !.late = Tail(@)]

Pending == Range(calls.now) \cup Range(calls.freed) \cup Range(calls.late)

\* Transactions between their checks and the end of SyncTransaction.
UnderWay == {c.tx : c \in {x \in Pending : x.op # "resurrect"}}

\* The orders in which a set may be gone through.
Orders(txs) == UNION {Bijection(1 .. n, txs) : n \in 0 .. Cardinality(txs)}

WithDescendants(txs) == {t \in pool : t \in txs \/ Above[t] \cap txs # {}}

\* Mutant: islocks are not asked.
AcceptableWithoutLocks(t) ==
  LET spent == UNION {Inputs[u] : u \in pool \cup ChainTxs(chain.tip)}
  IN  /\ t \notin pool \cup ChainTxs(chain.tip)
      /\ Inputs[t] \cap spent = {}
      /\ Parents(t) \subseteq Funding \cup pool \cup ChainTxs(chain.tip)

\* What AcceptToMemoryPoolWorker checks that matters here; it asks for conflicting
\* islocks first, long before the transaction enters the pool.
Acceptable(t) ==
  LET spent == UNION {Inputs[u] : u \in pool \cup ChainTxs(chain.tip)}
  IN  /\ t \notin pool \cup ChainTxs(chain.tip)
      /\ ConflictingLocks(t) = {}
      /\ Inputs[t] \cap spent = {}
      /\ Parents(t) \subseteq Funding \cup pool \cup ChainTxs(chain.tip)

AcceptToMemoryPool(t) ==
  /\ calls = NoCalls
  /\ Acceptable(t)
  /\ calls' = [NoCalls EXCEPT !.now = <<Op("insert", t)>>]
  /\ ghost' = [ghost EXCEPT !.overtaken = @ \ {t}]
  /\ UNCHANGED <<chain, pool, db, track, votes, pending, worker>>

Insert ==
  /\ Running("insert")
  /\ pool' = pool \cup {Current.tx}
  /\ Then(<<SyncTransaction(Current.tx, NoBlock, FALSE)>>)
  /\ UNCHANGED <<chain, db, track, votes, pending, worker, ghost>>

DownTo(b) == IF Descends(b, chain.tip) THEN NoBlock ELSE b

\* ActivateBestChainStep returns at the first block with more work than the tip it
\* started from: b is that block.
ActivateStep(b) ==
  /\ calls = NoCalls
  /\ Ancestry[b] \cap chain.failed = {}
  /\ ChainWork[b] > ChainWork[chain.tip]
  /\ ChainWork[Parent[b]] =< ChainWork[chain.tip]
  /\ calls' = [NoCalls EXCEPT !.base = DownTo(b), !.target = b]
  /\ UNCHANGED <<chain, pool, db, track, votes, pending, worker, ghost>>

\* DisconnectTip puts the transactions back into the pool, then reports them with
\* the previous block.
DisconnectTip ==
  LET b == chain.tip
      vtx == BlockTxs[b]
  IN  /\ calls.now = <<>> /\ calls.base # NoBlock
      /\ b # Genesis
      /\ chain' = [chain EXCEPT !.tip = Parent[b]]
      /\ calls' = [calls EXCEPT
                     !.base = IF Descends(@, Parent[b]) THEN NoBlock ELSE @,
                     !.now = [i \in DOMAIN vtx |-> Op("resurrect", vtx[i])]
                               \o [i \in DOMAIN vtx |-> SyncTransaction(vtx[i], Parent[b], FALSE)]]
      /\ UNCHANGED <<pool, db, track, votes, pending, worker, ghost>>

\* AcceptToMemoryPool may refuse for other reasons (fees, limits); a transaction
\* that is refused leaves with its descendants.
Resurrect ==
  /\ Running("resurrect")
  /\ LET t == Current.tx
     IN  \/ /\ Acceptable(t)
            /\ Then(<<Op("insert", t)>>)
            /\ ghost' = [ghost EXCEPT !.overtaken = @ \ {t}]
            /\ UNCHANGED pool
         \/ /\ pool' = pool \ WithDescendants({t})
            /\ Then(<<>>)
            /\ UNCHANGED ghost
  /\ UNCHANGED <<chain, db, track, votes, pending, worker>>

\* ConnectTip of the next block towards the target: a block with a transaction that
\* conflicts with an islock is invalid, unless it is chainlocked; then the islock is
\* given up.  The step ends with an invalid block or with the target.
ConnectTip(b) ==
  LET bad == UNION {ConflictingLocks(t) : t \in TxsOf(b)}
      spent == UNION {Inputs[t] : t \in TxsOf(b)}
      gone == WithDescendants({t \in pool \ TxsOf(b) : Inputs[t] \cap spent # {}})
      vtx == BlockTxs[b]
  IN  /\ calls.now = <<>> /\ calls.base = NoBlock /\ calls.target # NoBlock
      /\ b \in Ancestry[calls.target] \ {Genesis} /\ Parent[b] = chain.tip
      /\ IF bad # {} /\ ~HasChainLock(b)
         THEN /\ chain' = [chain EXCEPT !.failed = @ \cup {b}]
              /\ calls' = [calls EXCEPT !.target = NoBlock]
              /\ UNCHANGED <<pool, db, ghost>>
         ELSE /\ chain' = [chain EXCEPT !.tip = b,
                             !.txIndex = [t \in LookedUp |-> IF t \in TxsOf(b) THEN b ELSE @[t]]]
              /\ pool' = pool \ (TxsOf(b) \cup gone)
              /\ db' = RemoveChainedInstantSendLocks(bad)
              /\ \E removed \in Orders(gone) :
                   calls' = [calls EXCEPT
                     !.target = IF b = @ THEN NoBlock ELSE @,
                     !.freed = @ \o [i \in DOMAIN removed |-> SyncTransaction(removed[i], NoBlock, FALSE)],
                     !.late = @ \o [i \in DOMAIN vtx |-> SyncTransaction(vtx[i], b, TRUE)]]
              /\ ghost' = [ghost EXCEPT !.overtaken = @ \ TxsOf(b), !.stale = @ \cap db'.islocks]
      /\ UNCHANGED <<track, votes, pending, worker>>

\* Mutant: a disconnection is reported with the block itself.
MinedRecordOfBlock(c) == <<Height[c.pindex], c.tx>>

\* The is_m record SyncTransaction writes or erases; a disconnection is reported
\* with the previous block.
MinedRecord(c) == <<Height[c.pindex] + (IF c.inBlock THEN 0 ELSE 1), c.tx>>

\* CInstantSendManager::SyncTransaction up to the decision whether to track.
SyncTransactionRead ==
  /\ Running("sync")
  /\ LET c == Current
         locked == IsLocked(c.tx)
     IN  IF IsDisconnect(c) /\ c.tx \notin pool
         THEN /\ track' = RemoveNonLockedTx(track, c.tx, FALSE)
              /\ ghost' = [ghost EXCEPT !.stale = @ \cup ({c.tx} \cap db.islocks)]
              /\ Then(<<>>)
              /\ UNCHANGED db
         ELSE /\ db' = IF ~locked \/ c.pindex = NoBlock THEN db
                       ELSE IF c.inBlock THEN [db EXCEPT !.mined = @ \cup {MinedRecord(c)}]
                       ELSE [db EXCEPT !.mined = @ \ {MinedRecord(c)}]
              /\ Then(<<[c EXCEPT !.op = IF locked \/ HasChainLock(c.pindex) THEN "remove"
                                         ELSE "process"]>>)
              /\ UNCHANGED <<track, ghost>>
  /\ UNCHANGED <<chain, pool, votes, pending, worker>>

SyncTransactionProcess ==
  /\ Running("process")
  /\ votes' = ProcessTx(Current.tx)
  /\ Then(<<[Current EXCEPT !.op = "add"]>>)
  /\ UNCHANGED <<chain, pool, db, track, pending, worker, ghost>>

\* Mutant: a disconnected transaction keeps a block.
SyncTransactionAddMined ==
  /\ Running("add")
  /\ track' = AddNonLockedTx(track, Current.tx, Current.pindex)
  /\ Then(<<>>)
  /\ UNCHANGED <<chain, pool, db, votes, pending, worker, ghost>>

SyncTransactionAdd ==
  /\ Running("add")
  /\ LET c == Current
     IN  track' = AddNonLockedTx(track, c.tx, IF IsDisconnect(c) THEN NoBlock ELSE c.pindex)
  /\ Then(<<>>)
  /\ UNCHANGED <<chain, pool, db, votes, pending, worker, ghost>>

SyncTransactionRemove ==
  /\ Running("remove")
  /\ track' = RemoveNonLockedTx(track, Current.tx, TRUE)
  /\ Then(<<>>)
  /\ UNCHANGED <<chain, pool, db, votes, pending, worker, ghost>>

Section ==
  \/ Insert \/ Resurrect \/ DisconnectTip \/ (\E b \in Blocks : ConnectTip(b)) \/ SyncTransactionRead
  \/ SyncTransactionProcess \/ SyncTransactionAdd \/ SyncTransactionRemove

-----------------------------------------------------------------------------
(* ChainLocks. *)

\* ProcessNewChainLock
ProcessNewChainLock(b) ==
  /\ chain.chainLock = NoBlock \/ (b # chain.chainLock /\ chain.chainLock \in Ancestry[b])
  /\ chain' = [chain EXCEPT !.chainLock = b]
  /\ UNCHANGED <<pool, db, track, votes, pending, worker, calls, ghost>>

\* EnforceBestChainLock: the siblings of the locked branch are invalidated, and if
\* the locked block is marked invalid its failure flags are cleared.
EnforceBestChainLock ==
  LET lock == chain.chainLock
      siblings == {b \in Blocks \ (Ancestry[lock] \cup {Genesis}) :
                     Parent[b] \in {Parent[x] : x \in Ancestry[lock] \ Ancestry[chain.tip]}}
      dismissed == Ancestry[lock] \cap chain.failed # {}
  IN  /\ calls = NoCalls
      /\ lock # NoBlock /\ lock \notin Ancestry[chain.tip]
      /\ chain' = [chain EXCEPT !.failed =
                     {b \in @ \cup siblings :
                        dismissed => ~Descends(b, lock) /\ ~Descends(lock, b)}]
      /\ calls' = [NoCalls EXCEPT !.base = DownTo(lock)]
      /\ UNCHANGED <<pool, db, track, votes, pending, worker, ghost>>

\* The children of what is removed are retried, except those that were removed
\* before their parents, which the order of toRemove decides.
HandleFullyConfirmedBlock(b) ==
  LET confirmed == {t \in Txs :
                      track.info[t].mined # NoBlock /\ track.info[t].mined \in Ancestry[b]}
      children == UNION {track.info[t].children : t \in confirmed}
  IN  /\ db' = RemoveConfirmedInstantSendLocks(db, Height[b])
      /\ \E early \in SUBSET (children \cap confirmed) :
           track' = RemoveNonLockedTxs(track, confirmed, children \ early)
      /\ ghost' = [overtaken |-> ghost.overtaken \cup (UnderWay \cap ChainTxs(b)),
                   stale |-> ghost.stale \cap db'.islocks]

\* The end of EnforceBestChainLock: under cs_main it decides to notify, without it
\* NotifyChainLock follows.
DecideToNotify ==
  /\ calls = NoCalls
  /\ chain.notifying = NoBlock
  /\ chain.chainLock \notin {NoBlock, chain.notified}
  /\ chain.chainLock \in Ancestry[chain.tip]
  /\ chain' = [chain EXCEPT !.notified = chain.chainLock, !.notifying = chain.chainLock]
  /\ UNCHANGED <<pool, db, track, votes, pending, worker, calls, ghost>>

NotifyChainLock ==
  /\ chain.notifying # NoBlock
  /\ HandleFullyConfirmedBlock(chain.notifying)
  /\ chain' = [chain EXCEPT !.notifying = NoBlock]
  /\ UNCHANGED <<pool, votes, pending, worker, calls>>

-----------------------------------------------------------------------------
(* The worker thread and what it is given. *)

ProcessMessageInstantSendLock(t) ==
  /\ t \notin db.islocks \cup pending
  /\ pending' = pending \cup {t}
  /\ UNCHANGED <<chain, pool, db, track, votes, worker, calls, ghost>>

At(pc) == worker.pc = pc

ProcessPendingInstantSendLocks ==
  /\ At("idle") /\ pending # {}
  /\ worker' = [Resting EXCEPT !.pc = "next", !.locks = pending]
  /\ pending' = {}
  /\ UNCHANGED <<chain, pool, db, track, votes, calls, ghost>>

\* The worker is done with its islock.
Done == [worker EXCEPT !.pc = "next", !.locks = @ \ {worker.lock}, !.lock = None,
                       !.mined = NoBlock, !.txs = {}]

\* The first part of ProcessInstantSendLock: GetTransaction, under cs_main, finds
\* the transaction in the pool or the block the index has it in.
LookUp(t) ==
  LET hashBlock == IF t \in pool THEN NoBlock ELSE chain.txIndex[t]
  IN  /\ At("next") /\ t \in worker.locks
      /\ calls = NoCalls
      /\ worker' = IF HasChainLock(hashBlock) THEN [worker EXCEPT !.locks = @ \ {t}]
                   ELSE [worker EXCEPT !.pc = "store", !.lock = t, !.mined = hashBlock]
      /\ UNCHANGED <<chain, pool, db, track, votes, pending, calls, ghost>>

\* Its section under cs.
Store ==
  LET t == worker.lock
      d == [db EXCEPT !.islocks = @ \cup {t},
                      !.mined = IF worker.mined = NoBlock THEN @
                                ELSE @ \cup {<<Height[worker.mined], t>>}]
      near == {u \in UnderWay : u = t \/ Conflict(u, t) \/ t \in Parents(u)}
      lost == {u \in pool : t \in Parents(u)} \ track.info[t].children
      reported == \E c \in Pending : /\ c.op = "sync" /\ c.tx = t /\ c.pindex # NoBlock
                                     /\ MinedRecords(d, t) \subseteq {MinedRecord(c)}
  IN  /\ At("store")
      /\ IF t \in db.islocks
         THEN worker' = Done /\ UNCHANGED <<db, track, ghost>>
         ELSE /\ db' = d
              /\ track' = RemoveNonLockedTx(track, t, TRUE)
              /\ ghost' = [ghost EXCEPT !.overtaken = @ \cup near \cup lost,
                             !.stale = IF reported \/ MinedExact(d, t, chain.tip) THEN @ \ {t}
                                       ELSE @ \cup {t}]
              /\ worker' = [worker EXCEPT !.pc = "mempool", !.mined = NoBlock]
      /\ UNCHANGED <<chain, pool, votes, pending, calls>>

\* Mutant: without a conflict in the pool the blocks are not looked at.
RemoveMempoolConflictsOnly ==
  LET toDelete == {u \in pool : Conflict(u, worker.lock)}
  IN  /\ At("mempool")
      /\ pool' = pool \ WithDescendants(toDelete)
      /\ worker' = IF toDelete = {} THEN Done
                   ELSE [worker EXCEPT !.pc = "untrack", !.txs = toDelete]
      /\ UNCHANGED <<chain, db, track, votes, pending, calls, ghost>>

RemoveMempoolConflictsForLock ==
  LET toDelete == {u \in pool : Conflict(u, worker.lock)}
  IN  /\ At("mempool")
      /\ pool' = pool \ WithDescendants(toDelete)
      /\ worker' = [worker EXCEPT !.pc = IF toDelete = {} THEN "collect" ELSE "untrack",
                                  !.txs = toDelete]
      /\ UNCHANGED <<chain, db, track, votes, pending, calls, ghost>>

RemoveMempoolConflictsTracking ==
  /\ At("untrack")
  /\ RemoveConflictedTxs(worker.txs)
  /\ worker' = [worker EXCEPT !.pc = "collect", !.txs = {}]
  /\ UNCHANGED <<chain, pool, db, votes, pending, calls, ghost>>

\* ResolveBlockConflicts: the conflicting transactions and their blocks.
MinedConflicts(t) ==
  {<<track.info[e[2]].mined, e[2]>> :
     e \in {x \in track.byInputs :
              x[1] \in Inputs[t] /\ x[2] # t /\ track.info[x[2]].tx
                /\ track.info[x[2]].mined # NoBlock}}

\* Mutant: the islock is given up to any mined conflict.
CollectAndGiveUp ==
  LET found == MinedConflicts(worker.lock)
  IN  /\ At("collect")
      /\ worker' = IF found = {} THEN Done ELSE [worker EXCEPT !.pc = "prune", !.txs = found]
      /\ UNCHANGED <<chain, pool, db, track, votes, pending, calls, ghost>>

CollectBlockConflicts ==
  LET found == MinedConflicts(worker.lock)
  IN  /\ At("collect")
      /\ worker' = IF found = {} THEN Done
                   ELSE [worker EXCEPT !.txs = found,
                           !.pc = IF \E f \in found : HasChainLock(f[1]) THEN "prune" ELSE "resolve"]
      /\ UNCHANGED <<chain, pool, db, track, votes, pending, calls, ghost>>

\* RemoveChainLockConflictingLock asks for the height of the tip first.
WaitForTipHeight ==
  /\ At("prune")
  /\ calls = NoCalls
  /\ worker' = [worker EXCEPT !.pc = "pruning"]
  /\ UNCHANGED <<chain, pool, db, track, votes, pending, calls, ghost>>

RemoveChainLockConflictingLock ==
  /\ At("pruning")
  /\ db' = RemoveChainedInstantSendLocks({worker.lock})
  /\ ghost' = [ghost EXCEPT !.stale = @ \cap db'.islocks]
  /\ worker' = Done
  /\ UNCHANGED <<chain, pool, track, votes, pending, calls>>

ResolveBlock ==
  /\ At("resolve")
  /\ \E f \in worker.txs :
       LET here == {x \in worker.txs : x[1] = f[1]}
       IN  /\ RemoveConflictedTxs({x[2] : x \in here})
           /\ worker' = [worker EXCEPT !.pc = "invalidate", !.mined = f[1], !.txs = @ \ here]
  /\ UNCHANGED <<chain, pool, db, votes, pending, calls, ghost>>

InvalidateConflictingBlock ==
  LET b == worker.mined
  IN  /\ At("invalidate")
      /\ calls = NoCalls
      /\ chain' = [chain EXCEPT !.failed = @ \cup {b}]
      /\ calls' = [NoCalls EXCEPT !.base = IF Descends(chain.tip, b) THEN Parent[b] ELSE NoBlock]
      /\ worker' = [worker EXCEPT !.pc = "activate"]
      /\ UNCHANGED <<pool, db, track, votes, pending, ghost>>

\* The worker has invalidated the block and goes on; ActivateBestChain follows as
\* steps of ActivateStep.
Invalidated ==
  /\ At("activate")
  /\ calls = NoCalls
  /\ worker' = IF worker.txs = {} THEN Done ELSE [worker EXCEPT !.pc = "resolve"]
  /\ UNCHANGED <<chain, pool, db, track, votes, pending, calls, ghost>>

Retrying(txs) == IF txs = {} THEN Resting ELSE [Resting EXCEPT !.pc = "retry", !.retry = txs]

\* After the islocks, the worker takes what is to be retried.
ProcessPendingRetryLockTxs ==
  /\ \/ At("idle") /\ track.retry # {}
     \/ At("next") /\ worker.locks = {}
  /\ worker' = Retrying(track.retry)
  /\ track' = [track EXCEPT !.retry = {}]
  /\ UNCHANGED <<chain, pool, db, votes, pending, calls, ghost>>

\* CheckCanLock reads the transaction index and the chain under cs_main, unless
\* the parents are locked or in the pool.
RetryTx(t) ==
  /\ At("retry") /\ t \in worker.retry
  /\ Parents(t) \subseteq db.islocks \cup pool \/ calls = NoCalls
  /\ worker' = Retrying(worker.retry \ {t})
  /\ votes' = IF track.info[t].tx /\ ~IsLocked(t) THEN ProcessTx(t) ELSE votes
  /\ UNCHANGED <<chain, pool, db, track, pending, calls, ghost>>

Work ==
  \/ ProcessPendingInstantSendLocks \/ Store \/ RemoveMempoolConflictsForLock
  \/ RemoveMempoolConflictsTracking \/ CollectBlockConflicts \/ ResolveBlock
  \/ WaitForTipHeight \/ RemoveChainLockConflictingLock \/ InvalidateConflictingBlock \/ Invalidated
  \/ ProcessPendingRetryLockTxs
  \/ \E t \in Txs : LookUp(t) \/ RetryTx(t)

-----------------------------------------------------------------------------
\* The process dies and starts again on a block it had flushed.  The databases
\* stay, the pool and everything else of this module is lost.
Restart(b) ==
  /\ b \in Ancestry[chain.tip]
  /\ chain' = [chain EXCEPT !.tip = b, !.chainLock = NoBlock,
                            !.notified = NoBlock, !.notifying = NoBlock]
  /\ pool' = {} /\ track' = Untracked /\ pending' = {} /\ worker' = Resting /\ calls' = NoCalls
  /\ ghost' = [overtaken |-> {},
               stale |-> ghost.stale \cup {t \in db.islocks : ~MinedExact(db, t, b)}]
  /\ UNCHANGED <<db, votes>>

Next ==
  \/ Section \/ Work
  \/ \E t \in Txs : AcceptToMemoryPool(t)
  \/ \E t \in Islocks : ProcessMessageInstantSendLock(t)
  \/ \E b \in Blocks : ActivateStep(b) \/ Restart(b)
  \/ \E b \in CLSigs : ProcessNewChainLock(b)
  \/ EnforceBestChainLock \/ DecideToNotify \/ NotifyChainLock

Spec == Init /\ [][Next]_vars

-----------------------------------------------------------------------------
\* WriteInstantSendLockMined and RemoveInstantSendLockMined: the database knows the
\* height at which every locked transaction is mined, whatever order the lock, the
\* blocks and their disconnections come in; RemoveConfirmedInstantSendLocks relies
\* on it.
MinedHeightsExact ==
  \A t \in db.islocks \ (ghost.stale \cup UnderWay) : MinedExact(db, t, chain.tip)

\* A lock is only given up for a ChainLock: its own transaction is in the locked
\* chain, or one that conflicts with it or with a transaction it builds on.
GivenUpToChainLock ==
  [][\A t \in db.islocks \ (db'.islocks \cup ghost.stale) :
       /\ chain.chainLock # NoBlock
       /\ \/ t \in ChainTxs(chain.chainLock)
          \/ \E u \in ChainTxs(chain.chainLock) : \E a \in {t} \cup (Above[t] \cap Txs) :
               Conflict(a, u)]_vars

\* The pool holds no transaction that conflicts with an islock (validation.cpp:986,
\* RemoveMempoolConflictsForLock), once the worker has handled the islock.
PoolFollowsLocks ==
  \A t \in pool \ ghost.overtaken : \A l \in ConflictingLocks(t) : At("mempool") /\ worker.lock = l

Handling(l) ==
  worker.lock = l /\ worker.pc \in {"mempool", "untrack", "collect", "prune", "pruning",
                                       "resolve", "invalidate", "activate"}

\* ResolveBlockConflicts: no block of the active chain holds a transaction that
\* conflicts with an islock, as far as nonLockedTxsByInputs shows it.
IndexedConflictsResolved ==
  \A l \in db.islocks :
    \A f \in MinedConflicts(l) :
      f[2] \in UnderWay \cup ghost.overtaken \/ Handling(l)

\* quorums_instantsend.cpp:1261, "collect all non-locked TXs which conflict with the
\* given ISLOCK": nonLockedTxsByInputs names every tracked transaction that is mined
\* and conflicts with the islock.
CollectsAllConflicts ==
  At("collect") =>
    \A t \in Txs :
      track.info[t].tx /\ track.info[t].mined # NoBlock /\ Conflict(t, worker.lock)
        => <<track.info[t].mined, t>> \in MinedConflicts(worker.lock)

\* SyncTransaction: a tracked transaction is not locked, and pindexMined, which
\* ResolveBlockConflicts invalidates and HandleFullyConfirmedBlock compares, is the
\* block of the active chain it is in.
TrackingExact ==
  \A t \in Txs \ UnderWay :
    track.info[t].tx =>
      /\ ~IsLocked(t) \/ t \in ghost.overtaken
      /\ MinedIn(t, chain.tip) = {track.info[t].mined} \ {NoBlock}

\* ProcessInstantSendLock, "This will also add children TXs to pendingRetryTxs": once
\* all parents of a transaction are locked, the node has voted for it or for another
\* transaction that spends one of its inputs, however the transaction and the locks of
\* its parents came.
NoForgottenChild ==
  calls = NoCalls /\ At("idle") /\ track.retry = {} =>
    \A t \in pool \ ghost.overtaken :
      /\ track.info[t].tx /\ ConflictingLocks(t) = {}
      /\ Parents(t) \subseteq db.islocks \cup Funding
      => \/ \A o \in Inputs[t] : votes[o] = t
         \/ \E o \in Inputs[t] : votes[o] \notin {None, t}
=============================================================================
