------------------------------- MODULE Mempool -------------------------------
(***************************************************************************)
(* The transaction memory pool: CTxMemPool of txmempool.cpp, and the code  *)
(* of validation.cpp that fills it (AcceptToMemoryPoolWorker) and keeps it *)
(* in step with the active chain (ConnectTip, DisconnectTip,               *)
(* ActivateBestChainStep, InvalidateBlock).  All of it runs under cs_main, *)
(* so each entry point is one step.                                        *)
(*                                                                         *)
(* A pool value p is a record:                                             *)
(*   entry    mapTx and mapLinks: for every transaction in the pool its    *)
(*            modified fee, the count and the fees of the packages of its  *)
(*            ancestors (nA, feeA) and descendants (nD, feeD), itself      *)
(*            included, and the links to its in-pool parents and children  *)
(*   nextTx   mapNextTx, from a spent outpoint to the transaction          *)
(*   serials  mempoolCoinSerials, from a joinsplit serial to the           *)
(*            transaction                                                  *)
(*   deltas   the fee part of mapDeltas                                    *)
(*   stranded history, not in the code: an entry has lost an input or a    *)
(*            serial to a step that left it in the pool                    *)
(*                                                                         *)
(* All transactions have the same size, so the memory in use is the number *)
(* of entries.  An outpoint is <<source, n>>: output n of a transaction or *)
(* of the coinbase of a block.  The blocks are valid on their branches.    *)
(***************************************************************************)
EXTENDS BlockIndex, FiniteSetsExt, SequencesExt

CONSTANTS
  Txs,                   \* transactions that are not a coinbase
  Inputs,                \* outpoints a transaction spends ({} for a joinsplit)
  nOutputs,              \* outputs of every transaction and coinbase
  Serials,               \* sequence of the serials of a joinsplit
  Fee, LockTime,         \* nFees and nLockTime (a height)
  Replaceable,           \* transactions with an input below the final sequence
  BlockTxs,              \* vtx of every block without the coinbase
  Funding,               \* outpoints of transactions confirmed long before
  Deltas,                \* what PrioritiseTransaction may add
  MaxMempool,            \* -maxmempool, in transactions
  LimitAncestors, LimitDescendants, MaxDescendantsToVisit,
  minRelayTxFee, COINBASE_MATURITY

VARIABLES
  pool,                  \* mempool
  tip,                   \* chainActive.Tip() and the best block of pcoinsTip
  failed                 \* blocks with a failure flag

vars == <<pool, tip, failed>>

Outputs(t) == {<<t, n>> : n \in 1..nOutputs}
SerialSet(t) == ToSet(Serials[t])
EmptyPool ==
  [entry |-> <<>>, nextTx |-> <<>>, serials |-> <<>>, deltas |-> <<>>, stranded |-> FALSE]

In(p) == DOMAIN p.entry

\* std::map::erase.  Merging with the empty function changes nothing, but makes TLC
\* compute the result at once.
Erase(f, keys) == Restrict(f, DOMAIN f \ keys) @@ <<>>

-----------------------------------------------------------------------------
(* The chain: pcoinsTip and the Lelantus state as of block b. *)

ChainTxs(b) == UNION {ToSet(BlockTxs[x]) : x \in Ancestry[b]}

Unspent(b) ==
  (Funding \cup UNION {Outputs(x) : x \in Ancestry[b] \cup ChainTxs(b)})
    \ UNION {Inputs[t] : t \in ChainTxs(b)}

UsedSerials(b) == UNION {SerialSet(t) : t \in ChainTxs(b)}

\* CCoinsViewMemPool::GetCoin: a transaction of the pool provides its outputs
\* whether or not another one spends them.
HaveCoin(p, coins, o) == o[1] \in In(p) \/ o \in coins

\* CheckFinalTx with the height of chainActive.
Final(t, height) == LockTime[t] < height + 1

\* The coinbase test of CheckTxInputs and removeForReorg, for the block after b.
Mature(o, b) == o[1] \in Blocks => Height[b] + 1 - Height[o[1]] >= COINBASE_MATURITY

-----------------------------------------------------------------------------
(* The links and the package counters of CTxMemPool. *)

RECURSIVE Ancestors(_, _), Descendants(_, _)

\* CalculateMemPoolAncestors with the links, S included.
Ancestors(p, S) ==
  LET more == UNION {p.entry[t].parents : t \in S} \ S
  IN  IF more = {} THEN S ELSE Ancestors(p, S \cup more)

\* CalculateDescendants, S included.
Descendants(p, S) ==
  LET more == UNION {p.entry[t].children : t \in S} \ S
  IN  IF more = {} THEN S ELSE Descendants(p, S \cup more)

Fees(p, S) == MapThenSumSet(LAMBDA t : p.entry[t].fee, S)

DeltaOf(p, t) == IF t \in DOMAIN p.deltas THEN p.deltas[t] ELSE 0
ModifiedFee(p, t) == Fee[t] + DeltaOf(p, t)

\* UpdateDescendantState and UpdateAncestorState of every entry of S.
UpdateDescendantState(p, S, n, fee) ==
  [p EXCEPT !.entry =
     [t \in S |-> [p.entry[t] EXCEPT !.nD = @ + n, !.feeD = @ + fee]] @@ @]

UpdateAncestorState(p, S, n, fee) ==
  [p EXCEPT !.entry =
     [t \in S |-> [p.entry[t] EXCEPT !.nA = @ + n, !.feeA = @ + fee]] @@ @]

\* Mutant: the parents do not hear of the child.
LinkParentOnly(p, parents, t) ==
  [p EXCEPT !.entry = (t :> [p.entry[t] EXCEPT !.parents = @ \cup parents]) @@ @]

\* UpdateChild and UpdateParent.
Link(p, parents, t) ==
  [p EXCEPT !.entry =
     (t :> [p.entry[t] EXCEPT !.parents = @ \cup parents]) @@
     [x \in parents |-> [p.entry[x] EXCEPT !.children = @ \cup {t}]] @@ @]

MemPoolParents(p, t) == {o[1] : o \in Inputs[t]} \cap In(p)

\* addUnchecked.  It assumes the entry has no children in the pool.
Insert(p, t, fee) ==
  [p EXCEPT !.entry = @ @@ (t :> [fee |-> fee, nA |-> 1, feeA |-> fee, nD |-> 1,
                                   feeD |-> fee, parents |-> {}, children |-> {}]),
            !.nextTx = @ @@ [o \in Inputs[t] |-> t]]

AddAncestors(p, t, setAncestors) ==
  UpdateDescendantState(
    UpdateAncestorState(p, {t}, Cardinality(setAncestors), Fees(p, setAncestors)),
    setAncestors, 1, p.entry[t].fee)

addUnchecked(p, t, setAncestors) ==
  AddAncestors(Link(Insert(p, t, ModifiedFee(p, t)), MemPoolParents(p, t), t), t, setAncestors)

-----------------------------------------------------------------------------
(* Removal. *)

\* UpdateForRemoveFromMempool for an entry t that stays: its package of
\* descendants loses the removed ones, its package of ancestors only when
\* updateDescendants says that descendants may stay.
Remaining(p, t, stage, below, above) ==
  [p.entry[t] EXCEPT !.nD = @ - Cardinality(below), !.feeD = @ - Fees(p, below),
                     !.nA = @ - Cardinality(above), !.feeA = @ - Fees(p, above),
                     !.parents = @ \ stage, !.children = @ \ stage]

UpdateForRemoveFromMempool(p, stage, updateDescendants) ==
  [t \in In(p) \ stage |->
     Remaining(p, t, stage, stage \cap Descendants(p, {t}),
               IF updateDescendants THEN stage \cap Ancestors(p, {t}) ELSE {})]

\* RemoveStaged with removeUnchecked of every entry of the stage.
RemoveStaged(p, stage, updateDescendants) ==
  [p EXCEPT !.entry = UpdateForRemoveFromMempool(p, stage, updateDescendants) @@ <<>>,
            !.nextTx = Erase(@, UNION {Inputs[t] : t \in stage}),
            !.serials = Erase(@, UNION {SerialSet(t) : t \in stage})]

\* removeRecursive of a transaction, or of the coinbase of a block: when it is
\* not in the pool, what spends its outputs is removed.
removeRecursive(p, source) ==
  RemoveStaged(p,
    Descendants(p, IF source \in In(p) THEN {source}
                   ELSE {p.nextTx[o] : o \in Outputs(source) \cap DOMAIN p.nextTx}),
    FALSE)

SpendsCoinbase(t) == \E o \in Inputs[t] : o[1] \in Blocks

\* Mutant: only the spends of a coinbase are looked at.
removeForReorgCoinbaseOnly(p, b) ==
  RemoveStaged(p, Descendants(p,
    {t \in In(p) : /\ SpendsCoinbase(t)
                   /\ \E o \in Inputs[t] :
                        o[1] \notin In(p) /\ (o \notin Unspent(b) \/ ~Mature(o, b))}), FALSE)

\* removeForReorg once the chain is at b.
removeForReorg(p, b) ==
  RemoveStaged(p, Descendants(p,
    {t \in In(p) :
       \/ ~Final(t, Height[b])
       \/ /\ SpendsCoinbase(t)
          /\ \E o \in Inputs[t] :
               o[1] \notin In(p) /\ (o \notin Unspent(b) \/ ~Mature(o, b))}), FALSE)

\* Expire, for the entries that were already in the pool and are old by now.
Expire(p, old) == RemoveStaged(p, Descendants(p, old \cap In(p)), FALSE)

\* CompareTxMemPoolEntryByDescendantScore.  The entry time breaks its ties; here
\* an arbitrary choice does.
Score(e) ==
  IF e.feeD > e.fee * e.nD THEN [fee |-> e.feeD, size |-> e.nD]
                           ELSE [fee |-> e.fee, size |-> 1]

ScoreLess(a, b) == a.fee * b.size < a.size * b.fee

Cheapest(p) ==
  CHOOSE t \in In(p) : \A x \in In(p) : ~ScoreLess(Score(p.entry[x]), Score(p.entry[t]))

RECURSIVE TrimToSize(_)
TrimToSize(p) ==
  IF Cardinality(In(p)) =< MaxMempool THEN p
  ELSE TrimToSize(RemoveStaged(p, Descendants(p, {Cheapest(p)}), FALSE))

LimitMempoolSize(p, old) == TrimToSize(Expire(p, old))

-----------------------------------------------------------------------------
(* AcceptToMemoryPoolWorker, with coins = Unspent of the block whose outputs *)
(* pcoinsTip holds, and height = chainActive.Height().                       *)

Conflicts(p, t) == {p.nextTx[o] : o \in Inputs[t] \cap DOMAIN p.nextTx}

\* CalculateMemPoolAncestors before the entry is in the pool.
SetAncestors(p, t) == Ancestors(p, MemPoolParents(p, t))

WithinLimits(p, setAncestors) ==
  /\ Cardinality(setAncestors) + 1 =< LimitAncestors
  /\ \A a \in setAncestors : p.entry[a].nD + 1 =< LimitDescendants

\* The rules for a transaction that replaces the entries setConflicts.
Replaces(p, t, setConflicts) ==
  /\ \A c \in setConflicts : ModifiedFee(p, t) > p.entry[c].fee
  /\ MapThenSumSet(LAMBDA c : p.entry[c].nD, setConflicts) =< MaxDescendantsToVisit
  /\ \A o \in Inputs[t] :
       o[1] \in In(p) => \E c \in setConflicts : \E i \in Inputs[c] : i[1] = o[1]
  /\ ModifiedFee(p, t) >= Fees(p, Descendants(p, setConflicts)) + minRelayTxFee

\* Every early return before the pool is changed, for the coins of block b.
Acceptable(p, b, height, t) ==
  /\ SerialSet(t) \cap (UsedSerials(b) \cup DOMAIN p.serials) = {}
  /\ Final(t, height)
  /\ t \notin In(p)
  /\ Conflicts(p, t) \subseteq Replaceable
  /\ Outputs(t) \cap Unspent(b) = {}
  /\ \A o \in Inputs[t] : HaveCoin(p, Unspent(b), o)
  /\ WithinLimits(p, SetAncestors(p, t))
  /\ SetAncestors(p, t) \cap Conflicts(p, t) = {}
  /\ Conflicts(p, t) # {} => Replaces(p, t, Conflicts(p, t))
  /\ \A o \in Inputs[t] : Mature(o, b)

\* Mutant: the serials are marked even if the transaction was trimmed.
MarkSerialsTrimmed(p, t) == [p EXCEPT !.serials = [s \in SerialSet(t) |-> t] @@ @]

MarkSerials(p, t) ==
  IF t \in In(p) THEN [p EXCEPT !.serials = [s \in SerialSet(t) |-> t] @@ @] ELSE p

\* The part that changes the pool.  The call succeeds when t is in the result.
Accept(p, t, old) ==
  MarkSerials(
    LimitMempoolSize(
      addUnchecked(RemoveStaged(p, Descendants(p, Conflicts(p, t)), FALSE), t,
                   SetAncestors(p, t)),
      old),
    t)

-----------------------------------------------------------------------------
(* Disconnecting and connecting a block. *)

\* One turn of DisconnectTip's loop over vtx; r.hashes is vHashUpdate.  The coins
\* are those of b's parent already, chainActive still ends in b.
Resurrected(r, q, t) ==
  IF t \in In(q) THEN [pool |-> q, hashes |-> Append(r.hashes, t)]
                 ELSE [pool |-> removeRecursive(q, t), hashes |-> r.hashes]

Resurrect(r, b, t, old) ==
  IF Acceptable(r.pool, Parent[b], Height[b], t)
  THEN Resurrected(r, Accept(r.pool, t, old), t)
  ELSE [pool |-> removeRecursive(r.pool, t), hashes |-> r.hashes]

\* UpdateForDescendants: the descendants that were not in the block.
UpdateForDescendants(p, t, below) ==
  UpdateDescendantState(
    UpdateAncestorState(p, below, 1, p.entry[t].fee),
    {t}, Cardinality(below), Fees(p, below))

Spenders(p, source) == {p.nextTx[o] : o \in Outputs(source) \cap DOMAIN p.nextTx}

LinkChildren(p, t, children) == FoldSet(LAMBDA c, q : Link(q, {t}, c), p, children)

\* Mutant: the descendants in the pool are linked but not counted.
UpdateTransactionLinksOnly(p, t, hashes) ==
  IF t \in In(p) THEN LinkChildren(p, t, Spenders(p, t) \ hashes) ELSE p

\* The body of UpdateTransactionsFromBlock for one transaction.
UpdateTransaction(p, t, hashes) ==
  IF t \notin In(p) THEN p
  ELSE LET q == LinkChildren(p, t, Spenders(p, t) \ hashes)
       IN  UpdateForDescendants(q, t, Descendants(q, {t}) \ (hashes \cup {t}))

UpdateTransactionsFromBlock(p, vHashUpdate) ==
  FoldRight(LAMBDA t, q : UpdateTransaction(q, t, ToSet(vHashUpdate)), vHashUpdate, p)

\* A transaction was accepted and trimmed again in this loop, and something in
\* the pool spends it.
Strand(r) ==
  [r.pool EXCEPT !.stranded = @ \/ \E t \in ToSet(r.hashes) \ In(r.pool) : Spenders(r.pool, t) # {}]

\* Mutant: the block's transactions are taken in reverse order.
DisconnectTipReversed(p, b, old) ==
  LET r == FoldLeft(LAMBDA s, t : Resurrect(s, b, t, old),
                    [pool |-> removeRecursive(p, b), hashes |-> <<>>], Reverse(BlockTxs[b]))
  IN  UpdateTransactionsFromBlock(Strand(r), r.hashes)

\* The mempool part of DisconnectTip; the coinbase comes first in vtx.
DisconnectTip(p, b, old) ==
  LET r == FoldLeft(LAMBDA s, t : Resurrect(s, b, t, old),
                    [pool |-> removeRecursive(p, b), hashes |-> <<>>], BlockTxs[b])
  IN  UpdateTransactionsFromBlock(Strand(r), r.hashes)

RECURSIVE Rewind(_, _, _, _)
Rewind(p, b, fork, old) ==
  IF b = fork THEN p ELSE Rewind(DisconnectTip(p, b, old), Parent[b], fork, old)

\* The transaction that holds the first serial of t found in mempoolCoinSerials.
FirstHolder(p, t) ==
  {p.serials[Serials[t][i]] : i \in
     {j \in DOMAIN Serials[t] : /\ Serials[t][j] \in DOMAIN p.serials
                                /\ \A k \in 1..(j - 1) : Serials[t][k] \notin DOMAIN p.serials}}

\* RemoveConflictingPrivacyTransactionsFromMempool for one joinsplit: one holder
\* is removed, all its serials are erased, and other holders are left behind.
EraseSerials(p, t) ==
  [p EXCEPT !.serials = Erase(@, SerialSet(t)),
            !.stranded = @ \/ \E s \in SerialSet(t) \cap DOMAIN p.serials : p.serials[s] # t]

RemoveConflictingPrivacy(p, t) ==
  EraseSerials(
    FoldSet(LAMBDA c, q : removeRecursive(q, c), p, (FirstHolder(p, t) \ {t}) \cap In(p)), t)

\* removeConflicts.
RemoveConflict(p, t, o) ==
  IF o \in DOMAIN p.nextTx /\ p.nextTx[o] # t
  THEN [removeRecursive(p, p.nextTx[o]) EXCEPT !.deltas = Erase(@, {p.nextTx[o]})]
  ELSE p

removeConflicts(p, t) == FoldSet(LAMBDA o, q : RemoveConflict(q, t, o), p, Inputs[t])

\* removeForBlock for one transaction.
removeForBlock(p, t) ==
  [removeConflicts(IF t \in In(p) THEN RemoveStaged(p, {t}, TRUE) ELSE p, t)
     EXCEPT !.deltas = Erase(@, {t})]

\* The mempool part of ConnectTip.
ConnectTip(p, b) ==
  FoldLeft(removeForBlock, FoldLeft(RemoveConflictingPrivacy, p, BlockTxs[b]), BlockTxs[b])

\* The blocks above fork up to b, from the lowest.
Path(fork, b) ==
  SetToSortSeq(Ancestry[b] \ Ancestry[fork], LAMBDA x, y : Height[x] < Height[y])

Advance(p, fork, b) == FoldLeft(ConnectTip, p, Path(fork, b))
-----------------------------------------------------------------------------
Init == pool = EmptyPool /\ tip = Genesis /\ failed = {}

\* AcceptToMemoryPool for a transaction from a peer or the wallet.
AcceptToMemoryPool(t, old) ==
  /\ Acceptable(pool, tip, Height[tip], t)
  /\ pool' = Accept(pool, t, old)
  /\ UNCHANGED <<tip, failed>>

\* ActivateBestChainStep returns at the first block b with more work than the
\* old tip; the caller asks again while there is a better one.
ActivateStep(b, old) ==
  /\ Ancestry[b] \cap failed = {}
  /\ ChainWork[b] > ChainWork[tip]
  /\ \A x \in Ancestry[b] \ {b} : ChainWork[x] =< ChainWork[tip]
  /\ \E fork \in {FindFork(tip, b)} :
     \E p \in {Rewind(pool, tip, fork, old)} :
     \E q \in {Advance(p, fork, b)} :
       pool' = IF fork = tip THEN q ELSE LimitMempoolSize(removeForReorg(q, b), old)
  /\ tip' = b
  /\ UNCHANGED failed

\* InvalidateBlock of a block of the active chain.  Here the pool is limited
\* before the entries that a shorter chain forbids are removed.
Invalidate(b, old) ==
  /\ b # Genesis /\ Descends(tip, b)
  /\ \E p \in {Rewind(pool, tip, Parent[b], old)} :
       pool' = removeForReorg(LimitMempoolSize(p, old), Parent[b])
  /\ tip' = Parent[b]
  /\ failed' = failed \cup {x \in Blocks : Descends(x, b)}

\* UpdateFeeDelta of the entry, its ancestors and its descendants.
AddFee(p, t, nFeeDelta) ==
  UpdateAncestorState(
    UpdateDescendantState([p EXCEPT !.entry[t].fee = @ + nFeeDelta],
                          Ancestors(p, {t}), 0, nFeeDelta),
    Descendants(p, {t}), 0, nFeeDelta)

\* PrioritiseTransaction; bound: once per transaction while its delta is kept.
PrioritiseTransaction(t, nFeeDelta) ==
  /\ t \notin DOMAIN pool.deltas
  /\ LET p == [pool EXCEPT !.deltas = @ @@ (t :> nFeeDelta)]
     IN  pool' = IF t \in In(pool) THEN AddFee(p, t, nFeeDelta) ELSE p
  /\ UNCHANGED <<tip, failed>>

Next ==
  \/ \E t \in Txs, old \in SUBSET In(pool) : AcceptToMemoryPool(t, old)
  \/ \E b \in Blocks, old \in SUBSET In(pool) : ActivateStep(b, old)
  \/ \E b \in Blocks, old \in SUBSET In(pool) : Invalidate(b, old)
  \/ \E t \in DOMAIN Deltas : PrioritiseTransaction(t, Deltas[t])

Spec == Init /\ [][Next]_vars

-----------------------------------------------------------------------------
\* CTxMemPool::check: mapNextTx holds exactly the inputs of the entries, each
\* once, so no two entries spend one output; and mapLinks holds exactly the
\* parents and children these inputs say, however the entries came and went.
LinksMatchInputs ==
  /\ \A t \in In(pool) : \A o \in Inputs[t] : o \in DOMAIN pool.nextTx /\ pool.nextTx[o] = t
  /\ \A o \in DOMAIN pool.nextTx : pool.nextTx[o] \in In(pool) /\ o \in Inputs[pool.nextTx[o]]
  /\ ~pool.stranded =>
       \A t \in In(pool) :
         /\ pool.entry[t].parents = MemPoolParents(pool, t)
         /\ pool.entry[t].children = Spenders(pool, t)

\* CTxMemPool::check: the cached count and fees of every ancestor and descendant
\* package are those of the transactions reached by the links, with the deltas of
\* prioritisetransaction included.
PackagesExact ==
  \A t \in In(pool) :
    LET above == Ancestors(pool, {t})
        below == Descendants(pool, {t})
    IN  /\ pool.entry[t].fee = ModifiedFee(pool, t)
        /\ pool.entry[t].nA = Cardinality(above) /\ pool.entry[t].feeA = Fees(pool, above)
        /\ pool.entry[t].nD = Cardinality(below) /\ pool.entry[t].feeD = Fees(pool, below)

\* What a block at height Height[b] + 1 requires of a transaction.
Minable(p, b, t) ==
  /\ Final(t, Height[b])
  /\ \A o \in Inputs[t] : HaveCoin(p, Unspent(b), o) /\ Mature(o, b)
  /\ SerialSet(t) \cap UsedSerials(b) = {}

\* As long as nothing was stranded, every entry of the pool can be mined on the
\* active chain together with its ancestors in the pool: after a reorganisation
\* none is left that is not final, spends an immature or vanished coinbase, or
\* conflicts with the new branch.
PoolMinable == ~pool.stranded => \A t \in In(pool) : Minable(pool, tip, t)

\* mempoolCoinSerials holds exactly the serials of the joinsplits in the pool, so
\* no two of them spend one coin.
SerialsMatchEntries ==
  /\ \A s \in DOMAIN pool.serials :
       pool.serials[s] \in In(pool) /\ s \in SerialSet(pool.serials[s])
  /\ ~pool.stranded =>
       \A t \in In(pool) : \A s \in SerialSet(t) :
         s \in DOMAIN pool.serials /\ pool.serials[s] = t

\* DisconnectTip puts back what a reorganisation takes out of the chain: when the
\* pool has room for all of it, a transaction is lost only if it cannot be mined
\* on the new chain, or its package would break the limits.
ConfirmedNotLost ==
  [][LET undone == ChainTxs(tip) \ ChainTxs(tip')
     IN  ~pool.stranded' /\ Cardinality(In(pool)) + Cardinality(undone) =< MaxMempool
         => \A t \in undone :
              \/ t \in In(pool')
              \/ ~Minable(pool', tip', t)
              \/ ~WithinLimits(pool', SetAncestors(pool', t))]_vars
=============================================================================
