-------------------------------- MODULE EvoDb --------------------------------
(***************************************************************************)
(* The masternode and quorum database (evo/evodb.cpp, CDBTransaction in    *)
(* dbwrapper.h) beside the coin database, as validation.cpp drives the     *)
(* two.  Every block connected or disconnected edits both: the coins       *)
(* through a cache (pcoinsTip), the evo records through a transaction over *)
(* a root transaction over LevelDB.  FlushStateToDisk writes both out, one *)
(* after the other, and the process may die, or a write may fail, anywhere *)
(* between.                                                                *)
(*                                                                         *)
(* Abstractions.  The evo records one block writes (list diff, snapshot,   *)
(* mined commitments) are one key, the block itself; coins are known by    *)
(* the best block of their database only; whether a flush is due (cache    *)
(* size, timers) is a free choice; reading a block's data never fails.     *)
(***************************************************************************)
EXTENDS Naturals

CONSTANTS
  Blocks,         \* blocks, Genesis among them
  Genesis,
  Parent,         \* Parent[b]: pprev of a block other than Genesis
  Height,         \* Height[b]: nHeight
  Ancestors,      \* Ancestors[b]: the blocks from Genesis to b
  DIP0003Height,  \* from this height blocks write evo records
  BestBlock,      \* the key EVODB_BEST_BLOCK
  Record,         \* the evo records of a block
  None            \* absent

ASSUME EvoDbAssumption ==
  /\ Genesis \in Blocks
  /\ Parent \in [Blocks \ {Genesis} -> Blocks]
  /\ Height \in [Blocks -> Nat]
  /\ Height[Genesis] = 0
  /\ \A b \in Blocks \ {Genesis} : Height[b] = Height[Parent[b]] + 1
  /\ Ancestors \in [Blocks -> SUBSET Blocks]
  /\ Ancestors[Genesis] = {Genesis}
  /\ \A b \in Blocks \ {Genesis} :
       /\ Ancestors[b] = Ancestors[Parent[b]] \cup {b}
       /\ b \notin Ancestors[Parent[b]]
  /\ \A b \in Blocks : \A a \in Ancestors[b] : Height[a] <= Height[b]
  /\ DIP0003Height \in Nat /\ DIP0003Height > 1
  /\ BestBlock \notin Blocks
  /\ None \notin Blocks /\ Record # None

Keys == Blocks \cup {BestBlock}
Values == Blocks \cup {Record}

Evo(b) == Height[b] >= DIP0003Height

VARIABLES
  tip,        \* chainActive.Tip()
  coinsTip,   \* pcoinsTip->GetBestBlock()
  coinsDB,    \* the best block of the coin database on disk
  cur,        \* curDBTransaction
  root,       \* rootDBTransaction
  rootBatch,  \* what the root transaction handed to LevelDB
  db,         \* evodb on disk
  pc,         \* where the holder of cs_main is, or what became of the process
  target,     \* the tip once the current step is done; None in Shutdown()
  fRequestShutdown,
  torn        \* a crash or failed write fell between the two databases

vars == <<tip, coinsTip, coinsDB, cur, root, rootBatch, db, pc, target,
          fRequestShutdown, torn>>
disk == <<coinsDB, db>>

----------------------------------------------------------------------------
(* CDBTransaction: the writes and deletes not yet passed to the parent.    *)

Writes == [Keys -> Values \cup {None}]

\* No key is both written and deleted.
Transaction ==
  {tx \in [writes : Writes, deletes : SUBSET Keys] :
     \A k \in tx.deletes : tx.writes[k] = None}

Clean == [writes |-> [k \in Keys |-> None], deletes |-> {}]

Write(tx, k, v) ==
  [writes |-> [tx.writes EXCEPT ![k] = v], deletes |-> tx.deletes \ {k}]

Erase(tx, k) ==
  [writes |-> [tx.writes EXCEPT ![k] = None], deletes |-> tx.deletes \cup {k}]

Read(tx, parent) ==
  [k \in Keys |-> IF k \in tx.deletes THEN None
                  ELSE IF tx.writes[k] # None THEN tx.writes[k]
                  ELSE parent[k]]

Commit(tx, to) ==
  [writes  |-> [k \in Keys |-> IF tx.writes[k] # None THEN tx.writes[k]
                               ELSE IF k \in tx.deletes THEN None
                               ELSE to.writes[k]],
   deletes |-> {k \in to.deletes \cup tx.deletes : tx.writes[k] = None}]

\* What CEvoDB::Read returns: through both transactions down to the disk.
View == Read(cur, Read(root, db))

----------------------------------------------------------------------------
\* The variables have their types, and no transaction both writes and deletes a
\* key (CDBTransaction::Write and Erase).
TypeOK ==
  /\ tip \in Blocks /\ coinsTip \in Blocks
  /\ coinsDB \in Blocks \cup {None}
  /\ cur \in Transaction /\ root \in Transaction /\ rootBatch \in Transaction
  /\ db \in Writes
  /\ pc \in {"idle", "scope", "coins", "evo", "down", "assert", "reindex"}
  /\ target \in Blocks \cup {None}
  /\ pc = "scope" => target # None
  /\ fRequestShutdown \in BOOLEAN /\ torn \in BOOLEAN

\* A first start: both databases empty, the genesis block connected.
Init ==
  /\ tip = Genesis /\ coinsTip = Genesis /\ target = Genesis
  /\ coinsDB = None
  /\ cur = Clean /\ root = Clean /\ rootBatch = Clean
  /\ db = [k \in Keys |-> None]
  /\ pc = "idle"
  /\ fRequestShutdown = FALSE /\ torn = FALSE

----------------------------------------------------------------------------
(* Connecting and disconnecting a block, inside a scoped transaction.      *)

\* The assert of CEvoDB::VerifyBestBlock.
VerifyBestBlock(hash) == View[BestBlock] \in {None, hash}

Abort ==
  /\ fRequestShutdown' = TRUE
  /\ UNCHANGED <<tip, coinsTip, cur, root, rootBatch, disk, pc, target, torn>>

\* An assert ends the process: the one of VerifyBestBlock ("assert"), or
\* another ("down").
Dies(how) ==
  /\ pc' = how
  /\ torn' = (torn \/ pc = "evo")
  /\ UNCHANGED <<tip, coinsTip, cur, root, rootBatch, disk, target,
                 fRequestShutdown>>

\* The scoped transaction is open, `tx` its contents, `to` the tip it leads to.
Scope(tx, to) ==
  /\ cur' = tx
  /\ target' = to
  /\ pc' = "scope"
  /\ UNCHANGED <<tip, coinsTip, root, rootBatch, disk, fRequestShutdown, torn>>

\* ConnectTip up to the return of ConnectBlock.
ConnectTip(b) ==
  /\ pc = "idle" /\ ~fRequestShutdown
  /\ b # Genesis /\ Parent[b] = tip
  /\ IF cur # Clean \/ coinsTip # tip THEN Dies("down")
     ELSE IF ~VerifyBestBlock(tip) THEN Dies("assert")
     ELSE IF Evo(b) /\ View[BestBlock] = None THEN Abort
     ELSE Scope(Write(IF Evo(b) THEN Write(cur, b, Record) ELSE cur,
                      BestBlock, b), b)

\* Mutant: the records of the block stay.
DisconnectKeepsRecords ==
  /\ pc = "idle" /\ tip # Genesis
  /\ IF cur # Clean \/ coinsTip # tip THEN Dies("down")
     ELSE IF ~VerifyBestBlock(tip) THEN Dies("assert")
     ELSE IF Evo(tip) /\ View[BestBlock] = None THEN Abort
     ELSE Scope(Write(cur, BestBlock, Parent[tip]), Parent[tip])

\* DisconnectTip up to the return of DisconnectBlock; also reached from
\* InvalidateBlock, which does not ask whether a shutdown is under way.
DisconnectTip ==
  /\ pc = "idle" /\ tip # Genesis
  /\ IF cur # Clean \/ coinsTip # tip THEN Dies("down")
     ELSE IF ~VerifyBestBlock(tip) THEN Dies("assert")
     ELSE IF Evo(tip) /\ View[BestBlock] = None THEN Abort
     ELSE Scope(Write(Erase(cur, tip), BestBlock, Parent[tip]), Parent[tip])

\* The scope is left without Commit: the block failed its checks, or it was
\* only being tried (TestBlockValidity, VerifyDB).
Rollback ==
  /\ pc = "scope"
  /\ cur' = Clean
  /\ pc' = "idle"
  /\ UNCHANGED <<tip, coinsTip, root, rootBatch, disk, target, fRequestShutdown, torn>>

\* view.Flush() and dbTx->Commit(), then FlushStateToDisk(IF_NEEDED) and, if
\* nothing is due, UpdateTip.
CommitScope ==
  /\ pc = "scope"
  /\ coinsTip' = target
  /\ root' = Commit(cur, root)
  /\ cur' = Clean
  /\ \/ pc' = "coins" /\ tip' = tip
     \/ pc' = "idle" /\ tip' = target
  /\ UNCHANGED <<rootBatch, disk, target, fRequestShutdown, torn>>

----------------------------------------------------------------------------
(* FlushStateToDisk: the coin database first, then evodb.                  *)

\* A full flush outside block processing: periodic, or gettxoutsetinfo.
FlushStateToDisk ==
  /\ pc = "idle"
  /\ pc' = "coins"
  /\ target' = tip
  /\ UNCHANGED <<tip, coinsTip, cur, root, rootBatch, disk, fRequestShutdown, torn>>

StartShutdown ==
  /\ pc = "idle" /\ ~fRequestShutdown
  /\ fRequestShutdown' = TRUE
  /\ UNCHANGED <<tip, coinsTip, cur, root, rootBatch, disk, pc, target, torn>>

\* Shutdown() flushes once more before it deletes the databases.
Shutdown ==
  /\ pc = "idle" /\ fRequestShutdown
  /\ pc' = "coins"
  /\ target' = None
  /\ UNCHANGED <<tip, coinsTip, cur, root, rootBatch, disk, fRequestShutdown, torn>>

\* The caller of FlushStateToDisk goes on: UpdateTip, nothing, or the exit.
Flushed == pc' = IF target = None THEN "down" ELSE "idle"

\* Mutant: evodb is not committed after the coins.
FlushWithoutEvo ==
  /\ pc = "coins"
  /\ coinsDB' = coinsTip
  /\ tip' = IF target = None THEN tip ELSE target
  /\ Flushed
  /\ UNCHANGED <<coinsTip, cur, root, rootBatch, db, target, fRequestShutdown, torn>>

FlushCoins ==
  /\ pc = "coins"
  /\ coinsDB' = coinsTip
  /\ pc' = "evo"
  /\ UNCHANGED <<tip, coinsTip, cur, root, rootBatch, db, target,
                 fRequestShutdown, torn>>

\* pcoinsTip->Flush() throws: AbortNode, and the tip is not updated.
FlushCoinsFails ==
  /\ pc = "coins"
  /\ Flushed
  /\ fRequestShutdown' = TRUE
  /\ UNCHANGED <<tip, coinsTip, cur, root, rootBatch, disk, target, torn>>

\* Mutants: the caller updates the tip even on the way out; the erased keys are not
\* in the batch.
CommitRootThenTip ==
  /\ pc = "evo"
  /\ db' = Read(Commit(root, rootBatch), db)
  /\ rootBatch' = Clean
  /\ root' = Clean
  /\ tip' = target
  /\ Flushed
  /\ UNCHANGED <<coinsTip, coinsDB, cur, target, fRequestShutdown, torn>>

CommitRootWritesOnly ==
  /\ pc = "evo"
  /\ db' = Read([Commit(root, rootBatch) EXCEPT !.deletes = {}], db)
  /\ rootBatch' = Clean
  /\ root' = Clean
  /\ tip' = IF target = None THEN tip ELSE target
  /\ Flushed
  /\ UNCHANGED <<coinsTip, coinsDB, cur, target, fRequestShutdown, torn>>

CommitRootTransaction ==
  /\ pc = "evo"
  /\ db' = Read(Commit(root, rootBatch), db)
  /\ rootBatch' = Clean
  /\ root' = Clean
  /\ tip' = IF target = None THEN tip ELSE target
  /\ Flushed
  /\ UNCHANGED <<coinsTip, coinsDB, cur, target, fRequestShutdown, torn>>

\* db.WriteBatch throws: the root transaction is already empty, the batch is
\* not cleared, and AbortNode is called.
CommitRootFails ==
  /\ pc = "evo"
  /\ rootBatch' = Commit(root, rootBatch)
  /\ root' = Clean
  /\ fRequestShutdown' = TRUE
  /\ torn' = TRUE
  /\ Flushed
  /\ UNCHANGED <<tip, coinsTip, disk, cur, target>>

----------------------------------------------------------------------------
(* Crash and restart.                                                      *)

Crash ==
  /\ pc \notin {"down", "assert", "reindex"}
  /\ Dies("down")

\* AppInit2 on the databases as they are: load the tip from the coins, migrate
\* evodb if it has no best block, then VerifyDB takes the last blocks apart.
Start ==
  /\ pc \in {"down", "assert"}
  /\ tip' = IF coinsDB = None THEN Genesis ELSE coinsDB
  /\ coinsTip' = tip' /\ target' = tip'
  /\ cur' = Clean /\ rootBatch' = Clean
  /\ root' = IF coinsDB # None /\ db[BestBlock] = None /\ Height[coinsDB] <= 1
             THEN Write(Clean, BestBlock, coinsDB)
             ELSE Clean
  /\ pc' = IF \/ coinsDB = None /\ \E k \in Keys : db[k] # None
              \/ coinsDB # None /\ db[BestBlock] = None /\ Height[coinsDB] > 1
           THEN "reindex"
           ELSE IF coinsDB \notin {None, Genesis}
                   /\ db[BestBlock] \notin {None, coinsDB}
           THEN "assert"
           ELSE "idle"
  /\ fRequestShutdown' = FALSE
  /\ UNCHANGED <<disk, torn>>

\* The operator's way out: both databases are wiped.
Reindex ==
  /\ pc \in {"assert", "reindex"}
  /\ coinsDB' = None
  /\ db' = [k \in Keys |-> None]
  /\ tip' = Genesis /\ coinsTip' = Genesis /\ target' = Genesis
  /\ cur' = Clean /\ root' = Clean /\ rootBatch' = Clean
  /\ pc' = "idle"
  /\ fRequestShutdown' = FALSE /\ torn' = FALSE

----------------------------------------------------------------------------
BlockStep ==
  \/ \E b \in Blocks : ConnectTip(b)
  \/ DisconnectTip \/ Rollback \/ CommitScope

DiskStep ==
  \/ FlushStateToDisk \/ StartShutdown \/ Shutdown
  \/ FlushCoins \/ FlushCoinsFails \/ CommitRootTransaction

Next == BlockStep \/ DiskStep \/ CommitRootFails \/ Crash \/ Start \/ Reindex

Spec == Init /\ [][Next]_vars

----------------------------------------------------------------------------
(* Properties.                                                             *)

\* The records a store holding best block `b` must have: those of b's chain.
RecordsOf(b) == IF b = None THEN {} ELSE {a \in Ancestors[b] : Evo(a)}

Consistent(store) == {b \in Blocks : store[b] # None} = RecordsOf(store[BestBlock])

\* Whatever is connected, undone, rolled back, flushed, retried after a failed
\* write or lost in a crash, evodb on disk holds the records of exactly the
\* chain that ends in its own best block: CommitRootTransaction and the scoped
\* transactions over it are all or nothing.
EvoDbAtomic == Consistent(db)

\* What the next CommitRootTransaction makes of the disk, without the open scope
\* and with it.
Staged == Read(Commit(root, rootBatch), db)
StagedWithScope == Read(Commit(Commit(cur, root), rootBatch), db)

\* Why EvoDbAtomic holds: of a running node, what is on its way to the disk is the
\* records of the chain at the coin cache's best block, and with the open scope
\* those of the block it leads to.  The one exception is a node started at genesis
\* over an evodb that is further on: it has nothing to write, and VerifyBestBlock
\* stops it at its first block.
OnItsWay ==
  /\ pc \in {"idle", "scope", "coins", "evo"} =>
       /\ Consistent(Staged)
       /\ \/ Staged[BestBlock] = coinsTip
          \/ Staged[BestBlock] = None /\ coinsTip = Genesis
          \/ /\ pc # "scope" /\ coinsTip = Genesis
             /\ root = Clean /\ rootBatch = Clean
             /\ db[BestBlock] \notin {None, Genesis}
  /\ pc = "scope" => /\ Consistent(StagedWithScope)
                     /\ StagedWithScope[BestBlock] = target

\* The inductive invariant of the commit path (CommitScope, CommitRootTransaction).
IndInv == TypeOK /\ EvoDbAtomic /\ OnItsWay

\* Between two blocks of a node that is not shutting down, the active chain, the
\* coins and evodb (read through its transactions) stand at the same block, and
\* evodb has exactly that chain's records, whatever crashed outside the window
\* between the two writes of FlushStateToDisk.
StoresAgree ==
  pc = "idle" /\ ~fRequestShutdown /\ ~torn =>
    /\ coinsTip = tip
    /\ View[BestBlock] \in {tip} \cup (IF Height[tip] = 0 THEN {None} ELSE {})
    /\ Consistent(View)

\* The two databases on disk stand at one block; evodb may still have none at genesis.
SameBlock(best, b) == best = b \/ (best = None /\ b = Genesis)

\* Why StoresAgree and RestartSucceeds hold: the tip, the coin cache and the scope
\* move together, and until the writes are torn apart nothing is left in a batch
\* (CommitRootTransaction), evodb is staged at the coin cache's block and each flush
\* ends with the databases at one block.
MoveTogether ==
  /\ pc \in {"idle", "coins", "evo"} => cur = Clean
  /\ pc = "scope" \/ (pc = "idle" /\ ~fRequestShutdown) => coinsTip = tip
  /\ pc \in {"coins", "evo"} => target \in {None, coinsTip} \/ fRequestShutdown
  /\ pc = "evo" => coinsDB = coinsTip
  /\ ~torn =>
       /\ pc \notin {"assert", "reindex"}
       /\ pc # "evo" => SameBlock(db[BestBlock], coinsDB)
       /\ pc # "down" => rootBatch = Clean /\ SameBlock(Staged[BestBlock], coinsTip)

\* VerifyBestBlock and the evodb check of AppInit2: a restart finds the two databases
\* at the same block, and neither the assert nor "Error upgrading evo database" stops
\* the node, unless the last write of evodb was cut off from that of the coins.
RestartSucceeds == pc \in {"assert", "reindex"} => torn
=============================================================================
