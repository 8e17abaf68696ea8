----------------------------- MODULE EvoDbProofs -----------------------------
(***************************************************************************)
(* Proofs about EvoDb, for any block tree.  The layers are compared key by *)
(* key; consistency of a store is then a fact about the chains alone.      *)
(***************************************************************************)
EXTENDS EvoDb, TLAPS

----------------------------------------------------------------------------
(* CDBTransaction. *)

\* Clean, Write, Erase, Read and Commit of CDBTransaction keep to their types: none
\* makes a transaction that both writes and deletes a key.
LEMMA TransactionTypes ==
  /\ Clean \in Transaction
  /\ \A tx \in Transaction, k \in Keys :
       /\ \A v \in Values : Write(tx, k, v) \in Transaction
       /\ Erase(tx, k) \in Transaction
  /\ \A tx \in Transaction, to \in Transaction : Commit(tx, to) \in Transaction
  /\ \A tx \in Transaction, s \in Writes : Read(tx, s) \in Writes
<1>1. Clean \in Transaction
  BY DEF Clean, Transaction, Writes
<1>2. ASSUME NEW tx \in Transaction, NEW k \in Keys, NEW v \in Values
      PROVE  Write(tx, k, v) \in Transaction
  BY DEF Write, Transaction, Writes
<1>3. ASSUME NEW tx \in Transaction, NEW k \in Keys
      PROVE  Erase(tx, k) \in Transaction
  BY DEF Erase, Transaction, Writes
<1>4. ASSUME NEW tx \in Transaction, NEW to \in Transaction
      PROVE  Commit(tx, to) \in Transaction
  BY DEF Commit, Transaction, Writes
<1>5. ASSUME NEW tx \in Transaction, NEW s \in Writes
      PROVE  Read(tx, s) \in Writes
  BY DEF Read, Transaction, Writes
<1> QED BY <1>1, <1>2, <1>3, <1>4, <1>5

\* Commit passes on what Read would have shown: reading after a commit is reading
\* through both transactions before it.
LEMMA CommitKeepsView ==
  ASSUME NEW tx \in Transaction, NEW to \in Transaction, NEW s \in Writes
  PROVE  Read(Commit(tx, to), s) = Read(tx, Read(to, s))
  BY DEF Read, Commit, Transaction, Writes

\* A clean transaction hides nothing.
LEMMA ReadClean == \A s \in Writes : Read(Clean, s) = s
  BY DEF Read, Clean, Writes
----------------------------------------------------------------------------
(* Chains. *)

\* The blocks of a chain that write records: none up to height 1, and one more or
\* one less for each block connected or disconnected.
LEMMA ChainRecords ==
  /\ RecordsOf(None) = {}
  /\ \A b \in Blocks : Height[b] <= 1 => RecordsOf(b) = {}
  /\ \A b \in Blocks \ {Genesis} :
       /\ RecordsOf(b) = RecordsOf(Parent[b]) \cup {a \in {b} : Evo(a)}
       /\ RecordsOf(Parent[b]) = RecordsOf(b) \ {b}
<1>1. RecordsOf(None) = {}
  BY DEF RecordsOf
<1>2. ASSUME NEW b \in Blocks, Height[b] <= 1 PROVE RecordsOf(b) = {}
  <2>1. b # None /\ Ancestors[b] \subseteq Blocks
    BY EvoDbAssumption
  <2>2. ASSUME NEW a \in Ancestors[b] PROVE ~Evo(a)
    <3>1. Height[a] <= Height[b] /\ Height[a] \in Nat /\ Height[b] \in Nat
      BY <2>1, EvoDbAssumption
    <3> QED BY <1>2, <3>1, EvoDbAssumption DEF Evo
  <2> QED BY <2>1, <2>2 DEF RecordsOf
<1>3. ASSUME NEW b \in Blocks \ {Genesis}
      PROVE  /\ RecordsOf(b) = RecordsOf(Parent[b]) \cup {a \in {b} : Evo(a)}
             /\ RecordsOf(Parent[b]) = RecordsOf(b) \ {b}
  <2>1. b # None /\ Parent[b] # None /\ Parent[b] \in Blocks
    BY EvoDbAssumption
  <2>2. Ancestors[b] = Ancestors[Parent[b]] \cup {b} /\ b \notin Ancestors[Parent[b]]
    BY EvoDbAssumption
  <2> QED BY <2>1, <2>2 DEF RecordsOf
<1> QED BY <1>1, <1>2, <1>3

\* A consistent store stays consistent when a block and its best block are added ...
LEMMA ConnectConsistent ==
  ASSUME NEW s \in Writes, NEW t \in Writes, NEW b \in Blocks \ {Genesis}, Consistent(s),
         s[BestBlock] = Parent[b] \/ (s[BestBlock] = None /\ Parent[b] = Genesis),
         t[BestBlock] = b,
         \A a \in Blocks : t[a] = IF a = b /\ Evo(b) THEN Record ELSE s[a]
  PROVE  Consistent(t)
<1>1. RecordsOf(s[BestBlock]) = RecordsOf(Parent[b])
  <2>1. RecordsOf(Genesis) = {} /\ RecordsOf(None) = {}
    BY ChainRecords, EvoDbAssumption
  <2> QED BY <2>1
<1>2. {a \in Blocks : t[a] # None} = {a \in Blocks : s[a] # None} \cup {a \in {b} : Evo(a)}
  BY EvoDbAssumption
<1> QED BY <1>1, <1>2, ChainRecords DEF Consistent

\* ... or taken away.
LEMMA DisconnectConsistent ==
  ASSUME NEW s \in Writes, NEW t \in Writes, NEW b \in Blocks \ {Genesis}, Consistent(s),
         s[BestBlock] = b, t[BestBlock] = Parent[b],
         \A a \in Blocks : t[a] = IF a = b THEN None ELSE s[a]
  PROVE  Consistent(t)
<1>1. {a \in Blocks : t[a] # None} = {a \in Blocks : s[a] # None} \ {b}
  OBVIOUS
<1> QED BY <1>1, ChainRecords DEF Consistent

----------------------------------------------------------------------------
(* Type correctness. *)

LEMMA TypeInit == Init => TypeOK
<1> SUFFICES ASSUME Init PROVE TypeOK
  OBVIOUS
<1> QED BY TransactionTypes, EvoDbAssumption DEF Init, TypeOK, Writes

\* The ways ConnectTip and DisconnectTip can go: an assert, AbortNode, an open scope.
LEMMA OutcomeTypes ==
  ASSUME TypeOK
  PROVE  /\ Dies("down") \/ Dies("assert") \/ Abort => TypeOK'
         /\ \A tx \in Transaction, to \in Blocks : Scope(tx, to) => TypeOK'
<1>1. CASE Dies("down")
  BY <1>1 DEF Dies, TypeOK, disk
<1>2. CASE Dies("assert")
  BY <1>2 DEF Dies, TypeOK, disk
<1>3. CASE Abort
  BY <1>3 DEF Abort, TypeOK, disk
<1>4. ASSUME NEW tx \in Transaction, NEW to \in Blocks, Scope(tx, to) PROVE TypeOK'
  <2>1. to # None
    BY EvoDbAssumption
  <2> QED BY <1>4, <2>1 DEF Scope, TypeOK, disk
<1> QED BY <1>1, <1>2, <1>3, <1>4

\* Each handler of validation.cpp and evodb.cpp keeps the types.
LEMMA TypeStep == TypeOK /\ [Next]_vars => TypeOK'
<1> SUFFICES ASSUME TypeOK, [Next]_vars PROVE TypeOK'
  OBVIOUS
<1> USE DEF TypeOK, disk
<1>1. Clean \in Transaction
  BY TransactionTypes
<1>2. BestBlock \in Keys /\ Blocks \subseteq Keys /\ Blocks \subseteq Values
      /\ Record \in Values
  BY DEF Keys, Values
<1>3. ASSUME NEW b \in Blocks, ConnectTip(b) PROVE TypeOK'
  <2> DEFINE w == IF Evo(b) THEN Write(cur, b, Record) ELSE cur
             tx == Write(w, BestBlock, b)
  <2>1. w \in Transaction
    BY <1>2, TransactionTypes
  <2>2. tx \in Transaction
    <3> HIDE DEF w
    <3> QED BY <1>2, <2>1, TransactionTypes
  <2>3. Dies("down") \/ Dies("assert") \/ Abort \/ Scope(tx, b)
    BY <1>3 DEF ConnectTip
  <2> HIDE DEF tx
  <2> QED BY <2>2, <2>3, OutcomeTypes
<1>4. CASE DisconnectTip
  <2> DEFINE tx == Write(Erase(cur, tip), BestBlock, Parent[tip])
  <2>1. Parent[tip] \in Blocks
    BY <1>4, EvoDbAssumption DEF DisconnectTip
  <2>2. Erase(cur, tip) \in Transaction
    BY <1>2, TransactionTypes
  <2>3. tx \in Transaction
    BY <1>2, <2>1, <2>2, TransactionTypes
  <2>4. Dies("down") \/ Dies("assert") \/ Abort \/ Scope(tx, Parent[tip])
    BY <1>4 DEF DisconnectTip
  <2> HIDE DEF tx
  <2> QED BY <2>1, <2>3, <2>4, OutcomeTypes
<1>5. CASE Rollback
  BY <1>1, <1>5 DEF Rollback
<1>6. CASE CommitScope
  BY <1>1, <1>6, TransactionTypes DEF CommitScope
<1>7. CASE FlushStateToDisk \/ StartShutdown \/ Shutdown \/ FlushCoins \/ FlushCoinsFails
  BY <1>7 DEF FlushStateToDisk, StartShutdown, Shutdown, FlushCoins, FlushCoinsFails, Flushed
<1>8. CASE CommitRootTransaction
  BY <1>1, <1>8, TransactionTypes DEF CommitRootTransaction, Flushed
<1>9. CASE CommitRootFails
  BY <1>1, <1>9, TransactionTypes DEF CommitRootFails, Flushed
<1>10. CASE Crash
  BY <1>10 DEF Crash, Dies
<1>11. CASE Start
  <2>1. coinsDB # None => Write(Clean, BestBlock, coinsDB) \in Transaction
    BY <1>1, <1>2, TransactionTypes
  <2>2. root' \in Transaction
    BY <1>1, <1>11, <2>1 DEF Start
  <2> QED BY <1>1, <1>11, <2>2, EvoDbAssumption DEF Start
<1>12. CASE Reindex
  BY <1>1, <1>12, EvoDbAssumption DEF Reindex, Writes
<1>13. CASE UNCHANGED vars
  BY <1>13 DEF vars
<1> QED
  BY <1>3, <1>4, <1>5, <1>6, <1>7, <1>8, <1>9, <1>10, <1>11, <1>12, <1>13
  DEF Next, BlockStep, DiskStep

\* CEvoDB and its transactions, driven by validation.cpp, keep their types.
THEOREM TypeCorrect == Spec => []TypeOK
  BY TypeInit, TypeStep, PTL DEF Spec

----------------------------------------------------------------------------
(* Atomicity. *)

\* The two commits on the way to the disk change nothing that a reader sees.
LEMMA StagedLayers ==
  ASSUME TypeOK
  PROVE  /\ Staged = Read(root, Read(rootBatch, db))
         /\ StagedWithScope = Read(cur, Staged)
         /\ Staged \in Writes /\ StagedWithScope \in Writes
<1> DEFINE batch == Read(rootBatch, db)
           s == Read(root, batch)
<1>1. /\ cur \in Transaction /\ root \in Transaction /\ rootBatch \in Transaction
      /\ db \in Writes /\ batch \in Writes /\ Commit(cur, root) \in Transaction
  BY TransactionTypes DEF TypeOK
<1>2. s \in Writes /\ Read(cur, s) \in Writes
  <2> HIDE DEF batch
  <2>1. s \in Writes
    BY <1>1, TransactionTypes
  <2> HIDE DEF s
  <2> QED BY <1>1, <2>1, TransactionTypes
<1>3. Staged = s
  BY <1>1, CommitKeepsView DEF Staged
<1>4. StagedWithScope = Read(Commit(cur, root), batch)
  BY <1>1, CommitKeepsView DEF StagedWithScope
<1>5. Read(Commit(cur, root), batch) = Read(cur, s)
  <2> HIDE DEF batch
  <2> QED BY <1>1, CommitKeepsView
<1> QED BY <1>2, <1>3, <1>4, <1>5

\* A step that touches neither the layers nor the coin cache's best block.
LEMMA LayersUnchanged ==
  ASSUME IndInv, UNCHANGED <<coinsTip, cur, root, rootBatch, db>>,
         pc' = "scope" => pc = "scope" /\ target' = target,
         pc' \in {"idle", "coins", "evo"} => pc \in {"idle", "coins", "evo"}
  PROVE  EvoDbAtomic' /\ OnItsWay'
<1>1. Staged' = Staged /\ StagedWithScope' = StagedWithScope
  BY DEF Staged, StagedWithScope
<1> QED BY <1>1 DEF IndInv, EvoDbAtomic, OnItsWay, Consistent

\* ConnectBlock writes the block's records and makes it the best block.
LEMMA ConnectAtomic ==
  ASSUME IndInv, TypeOK', NEW b \in Blocks, ConnectTip(b)
  PROVE  EvoDbAtomic' /\ OnItsWay'
<1> DEFINE tx == Write(IF Evo(b) THEN Write(cur, b, Record) ELSE cur, BestBlock, b)
<1>1. CASE Dies("down") \/ Dies("assert") \/ Abort
  <2>1. pc = "idle"
    BY DEF ConnectTip
  <2> QED BY <1>1, <2>1, LayersUnchanged DEF Dies, Abort, disk
<1>2. CASE Scope(tx, b) /\ pc = "idle" /\ cur = Clean /\ coinsTip = tip
           /\ VerifyBestBlock(tip) /\ b # Genesis /\ Parent[b] = tip
  <2>1. /\ cur' = tx /\ target' = b /\ pc' = "scope"
        /\ UNCHANGED <<coinsTip, root, rootBatch, db>>
    <3> HIDE DEF tx
    <3> QED BY <1>2 DEF Scope, disk
  <2>2. Staged' = Staged /\ EvoDbAtomic'
    BY <2>1 DEF Staged, IndInv, EvoDbAtomic, Consistent
  <2>3. /\ Staged \in Writes /\ StagedWithScope' \in Writes
        /\ StagedWithScope' = Read(tx, Staged)
    <3> HIDE DEF tx
    <3>1. Staged \in Writes
      BY StagedLayers DEF IndInv
    <3>2. (StagedWithScope = Read(cur, Staged) /\ StagedWithScope \in Writes)'
      BY StagedLayers, PTL
    <3> QED BY <2>1, <2>2, <3>1, <3>2
  <2>4. Staged[BestBlock] = Parent[b] \/ (Staged[BestBlock] = None /\ Parent[b] = Genesis)
    <3>1. ASSUME coinsTip = Genesis, root = Clean, db[BestBlock] \notin {None, Genesis}
          PROVE  FALSE
      <4>1. View = db
        BY <1>2, <3>1, ReadClean DEF View, IndInv, TypeOK
      <4> QED BY <1>2, <3>1, <4>1 DEF VerifyBestBlock
    <3> QED BY <1>2, <3>1 DEF IndInv, OnItsWay
  <2>5. BestBlock \in Keys /\ Blocks \subseteq Keys /\ BestBlock \notin Blocks
        /\ b # None /\ Record # None
    BY EvoDbAssumption DEF Keys
  <2>6. /\ tx.deletes = {} /\ tx.writes[BestBlock] = b
        /\ \A a \in Blocks : tx.writes[a] = IF a = b /\ Evo(b) THEN Record ELSE None
    BY <1>2, <2>5 DEF Write, Clean
  <2>7. /\ StagedWithScope'[BestBlock] = b
        /\ \A a \in Blocks : StagedWithScope'[a] =
             IF a = b /\ Evo(b) THEN Record ELSE Staged[a]
    <3> HIDE DEF tx
    <3> QED BY <2>3, <2>5, <2>6 DEF Read
  <2>8. Consistent(Staged)
    BY <1>2 DEF IndInv, OnItsWay
  <2>9. Consistent(StagedWithScope')
    <3> DEFINE t == StagedWithScope'
    <3>1. t \in Writes /\ t[BestBlock] = b
          /\ \A a \in Blocks : t[a] = IF a = b /\ Evo(b) THEN Record ELSE Staged[a]
      BY <2>3, <2>7
    <3> HIDE DEF t
    <3>2. Consistent(t)
      BY <1>2, <2>3, <2>4, <2>8, <3>1, ConnectConsistent
    <3> QED BY <3>2 DEF t
  <2>10. Consistent(Staged)' /\ Consistent(StagedWithScope)'
    BY <2>2, <2>8, <2>9 DEF Consistent
  <2>11. Staged'[BestBlock] = coinsTip' \/ (Staged'[BestBlock] = None /\ coinsTip' = Genesis)
    BY <1>2, <2>1, <2>2, <2>4
  <2> QED BY <2>1, <2>2, <2>7, <2>10, <2>11 DEF OnItsWay
<1> QED BY <1>1, <1>2 DEF ConnectTip

\* DisconnectBlock erases the block's records and makes its parent the best block.
LEMMA DisconnectAtomic ==
  ASSUME IndInv, TypeOK', DisconnectTip
  PROVE  EvoDbAtomic' /\ OnItsWay'
<1> DEFINE tx == Write(Erase(cur, tip), BestBlock, Parent[tip])
<1>1. CASE Dies("down") \/ Dies("assert") \/ Abort
  <2>1. pc = "idle"
    BY DEF DisconnectTip
  <2> QED BY <1>1, <2>1, LayersUnchanged DEF Dies, Abort, disk
<1>2. CASE Scope(tx, Parent[tip]) /\ pc = "idle" /\ cur = Clean /\ coinsTip = tip
           /\ tip # Genesis
  <2>1. /\ cur' = tx /\ target' = Parent[tip] /\ pc' = "scope"
        /\ UNCHANGED <<coinsTip, root, rootBatch, db>>
    <3> HIDE DEF tx
    <3> QED BY <1>2 DEF Scope, disk
  <2>2. Staged' = Staged /\ EvoDbAtomic'
    BY <2>1 DEF Staged, IndInv, EvoDbAtomic, Consistent
  <2>3. /\ Staged \in Writes /\ StagedWithScope' \in Writes
        /\ StagedWithScope' = Read(tx, Staged)
    <3> HIDE DEF tx
    <3>1. Staged \in Writes
      BY StagedLayers DEF IndInv
    <3>2. (StagedWithScope = Read(cur, Staged) /\ StagedWithScope \in Writes)'
      BY StagedLayers, PTL
    <3> QED BY <2>1, <2>2, <3>1, <3>2
  <2>4. Staged[BestBlock] = tip /\ Consistent(Staged)
    BY <1>2 DEF IndInv, OnItsWay
  <2>5. BestBlock \in Keys /\ Blocks \subseteq Keys /\ BestBlock \notin Blocks
        /\ tip \in Blocks \ {Genesis} /\ Parent[tip] # None
    BY <1>2, EvoDbAssumption DEF Keys, IndInv, TypeOK
  <2>6. /\ tx.deletes = {tip} /\ tx.writes[BestBlock] = Parent[tip]
        /\ \A a \in Blocks : tx.writes[a] = None
    BY <1>2, <2>5 DEF Write, Erase, Clean
  <2>7. /\ StagedWithScope'[BestBlock] = Parent[tip]
        /\ \A a \in Blocks : StagedWithScope'[a] = IF a = tip THEN None ELSE Staged[a]
    <3> HIDE DEF tx
    <3> QED BY <2>3, <2>5, <2>6 DEF Read
  <2>8. Consistent(StagedWithScope')
    <3> DEFINE t == StagedWithScope'
    <3>1. t \in Writes /\ t[BestBlock] = Parent[tip]
          /\ \A a \in Blocks : t[a] = IF a = tip THEN None ELSE Staged[a]
      BY <2>3, <2>7
    <3> HIDE DEF t
    <3>2. Consistent(t)
      BY <2>3, <2>4, <2>5, <3>1, DisconnectConsistent
    <3> QED BY <3>2 DEF t
  <2>9. Consistent(Staged)' /\ Consistent(StagedWithScope)'
    BY <2>2, <2>4, <2>8 DEF Consistent
  <2>10. Staged'[BestBlock] = coinsTip'
    BY <1>2, <2>1, <2>2, <2>4
  <2> QED BY <2>1, <2>2, <2>7, <2>9, <2>10 DEF OnItsWay
<1> QED BY <1>1, <1>2 DEF DisconnectTip

\* Commit and Rollback of the scoped transaction.
LEMMA ScopeAtomic ==
  ASSUME IndInv, Rollback \/ CommitScope
  PROVE  EvoDbAtomic' /\ OnItsWay'
<1>1. CASE Rollback
  <2>1. Staged' = Staged /\ UNCHANGED <<coinsTip, db>> /\ pc = "scope" /\ pc' = "idle"
    BY <1>1 DEF Rollback, disk, Staged
  <2> QED BY <2>1 DEF IndInv, EvoDbAtomic, OnItsWay, Consistent
<1>2. CASE CommitScope
  <2>1. Staged' = StagedWithScope /\ db' = db
    BY <1>2 DEF CommitScope, disk, Staged, StagedWithScope
  <2>2. pc = "scope" /\ pc' \in {"idle", "coins"} /\ coinsTip' = target
    BY <1>2 DEF CommitScope
  <2> QED BY <2>1, <2>2 DEF IndInv, EvoDbAtomic, OnItsWay, Consistent
<1> QED BY <1>1, <1>2

\* CommitRootTransaction puts on disk what was staged; when it fails, what was staged
\* still is.
LEMMA CommitRootAtomic ==
  ASSUME IndInv, CommitRootTransaction \/ CommitRootFails
  PROVE  EvoDbAtomic' /\ OnItsWay'
<1> DEFINE c == Commit(root, rootBatch)
<1>1. /\ Clean \in Transaction /\ c \in Transaction /\ db \in Writes
      /\ Staged \in Writes /\ Staged = Read(c, db)
  <2>1. c \in Transaction /\ Clean \in Transaction
    BY TransactionTypes DEF IndInv, TypeOK
  <2> QED BY <2>1, StagedLayers DEF IndInv, TypeOK, Staged
<1> HIDE DEF c
<1>2. /\ Read(Commit(Clean, Clean), Staged) = Staged
      /\ Read(Commit(Clean, c), db) = Staged
  <2>1. Read(Commit(Clean, Clean), Staged) = Read(Clean, Read(Clean, Staged))
    BY <1>1, CommitKeepsView
  <2>2. Read(Commit(Clean, c), db) = Read(Clean, Staged)
    BY <1>1, CommitKeepsView
  <2> QED BY <1>1, <2>1, <2>2, ReadClean
<1>3. Consistent(Staged) /\ pc = "evo" /\ coinsTip' = coinsTip /\ pc' \in {"idle", "down"}
  BY DEF IndInv, OnItsWay, CommitRootTransaction, CommitRootFails, Flushed
<1>4. \/ Staged[BestBlock] = coinsTip
      \/ Staged[BestBlock] = None /\ coinsTip = Genesis
      \/ /\ coinsTip = Genesis /\ root = Clean /\ rootBatch = Clean
         /\ db[BestBlock] \notin {None, Genesis}
  BY <1>3 DEF IndInv, OnItsWay
<1>5. CASE CommitRootTransaction
  <2>1. db' = Staged /\ root' = Clean /\ rootBatch' = Clean
    BY <1>5 DEF CommitRootTransaction, Staged
  <2>2. Staged' = Staged
    BY <1>2, <2>1 DEF Staged
  <2>3. (coinsTip = Genesis /\ root = Clean /\ rootBatch = Clean) => Staged = db
    <3>1. Read(Commit(Clean, Clean), db) = db
      BY <1>1, CommitKeepsView, ReadClean
    <3> QED BY <3>1 DEF Staged
  <2> QED BY <1>3, <1>4, <2>1, <2>2, <2>3 DEF EvoDbAtomic, OnItsWay, Consistent
<1>6. CASE CommitRootFails
  <2>1. db' = db /\ root' = Clean /\ rootBatch' = c
    BY <1>6 DEF CommitRootFails, disk, c
  <2>2. Staged' = Staged
    BY <1>2, <2>1 DEF Staged
  <2>3. (root = Clean /\ rootBatch = Clean) => c = Clean
    BY DEF c, Clean, Commit
  <2> QED BY <1>3, <1>4, <2>1, <2>2, <2>3 DEF IndInv, EvoDbAtomic, OnItsWay, Consistent
<1> QED BY <1>5, <1>6

\* A restart begins with nothing staged but a first best block.
LEMMA StartAtomic ==
  ASSUME IndInv, Start
  PROVE  EvoDbAtomic' /\ OnItsWay'
<1>1. /\ Clean \in Transaction /\ db \in Writes /\ db' = db /\ cur' = Clean
      /\ rootBatch' = Clean /\ pc' \in {"idle", "assert", "reindex"}
  BY TransactionTypes DEF Start, disk, IndInv, TypeOK
<1>2. EvoDbAtomic'
  BY <1>1 DEF IndInv, EvoDbAtomic, Consistent
<1>3. SUFFICES ASSUME pc' = "idle" PROVE OnItsWay'
  BY <1>1, <1>2 DEF OnItsWay
<1>4. CASE root' = Clean
  <2>1. Staged' = db
    <3>1. Read(Commit(Clean, Clean), db) = db
      BY <1>1, CommitKeepsView, ReadClean
    <3> QED BY <1>1, <1>4, <3>1 DEF Staged
  <2>2. Consistent(Staged)'
    BY <2>1 DEF IndInv, EvoDbAtomic, Consistent
  <2>3. BestBlock \in Keys /\ Blocks \subseteq Keys /\ Genesis \in Blocks /\ Genesis # None
        /\ Height[Genesis] = 0
    BY EvoDbAssumption DEF Keys
  <2>4. CASE coinsDB = None
    <3>1. coinsTip' = Genesis /\ db[BestBlock] = None
      BY <1>3, <2>3, <2>4 DEF Start
    <3> QED BY <1>3, <2>1, <2>2, <3>1 DEF OnItsWay
  <2>5. CASE coinsDB # None
    <3>1. coinsTip' = coinsDB /\ db[BestBlock] # None
      <4>1. Height[coinsDB] \in Nat /\ coinsDB \in Blocks /\ coinsDB # None
        BY <2>5, EvoDbAssumption DEF IndInv, TypeOK
      <4>2. ASSUME db[BestBlock] = None PROVE FALSE
        <5>1. Height[coinsDB] <= 1
          BY <1>3, <2>5, <4>1, <4>2 DEF Start
        <5>2. root' = Write(Clean, BestBlock, coinsDB)
          BY <2>5, <4>2, <5>1 DEF Start
        <5> QED BY <1>4, <2>3, <4>1, <5>2 DEF Write, Clean
      <4> QED BY <2>5, <4>2 DEF Start
    <3>2. coinsDB = Genesis \/ db[BestBlock] = coinsDB
      BY <1>3, <2>5, <3>1 DEF Start
    <3> QED BY <1>1, <1>3, <1>4, <2>1, <2>2, <3>1, <3>2 DEF OnItsWay
  <2> QED BY <2>4, <2>5
<1>5. CASE root' # Clean
  <2>1. /\ coinsDB \in Blocks /\ db[BestBlock] = None /\ Height[coinsDB] <= 1
        /\ root' = Write(Clean, BestBlock, coinsDB) /\ coinsTip' = coinsDB
    BY <1>5 DEF Start, IndInv, TypeOK
  <2> DEFINE w == Write(Clean, BestBlock, coinsDB)
  <2>2. /\ BestBlock \in Keys /\ Blocks \subseteq Keys /\ BestBlock \notin Blocks
        /\ coinsDB # None /\ coinsDB \in Values
    BY <2>1, EvoDbAssumption DEF Keys, Values
  <2>3. /\ w \in Transaction /\ w.deletes = {} /\ w.writes[BestBlock] = coinsDB
        /\ \A a \in Blocks : w.writes[a] = None
    <3>1. w \in Transaction
      BY <1>1, <2>2, TransactionTypes
    <3>2. w.deletes = {} /\ w.writes[BestBlock] = coinsDB
          /\ \A a \in Blocks : w.writes[a] = None
      BY <2>2 DEF Write, Clean
    <3> QED BY <3>1, <3>2
  <2>4. Staged' = Read(w, db)
    <3> HIDE DEF w
    <3>1. Read(Commit(w, Clean), db) = Read(w, db)
      BY <1>1, <2>3, CommitKeepsView, ReadClean
    <3> QED BY <1>1, <2>1, <3>1 DEF Staged, w
  <2>5. Staged'[BestBlock] = coinsDB /\ \A a \in Blocks : Staged'[a] = db[a]
    <3> HIDE DEF w
    <3> QED BY <2>2, <2>3, <2>4 DEF Read
  <2>6. RecordsOf(coinsDB) = {} /\ RecordsOf(None) = {}
    BY <2>1, ChainRecords
  <2>7. Consistent(Staged)'
    BY <2>1, <2>5, <2>6 DEF IndInv, EvoDbAtomic, Consistent
  <2> QED BY <1>3, <2>1, <2>5, <2>7 DEF OnItsWay
<1> QED BY <1>4, <1>5

\* Two empty databases are consistent.
LEMMA EmptyStores ==
  ASSUME db = [k \in Keys |-> None], root = Clean, rootBatch = Clean, coinsTip = Genesis,
         pc = "idle"
  PROVE  EvoDbAtomic /\ OnItsWay
<1>1. Clean \in Transaction /\ db \in Writes /\ BestBlock \in Keys /\ Blocks \subseteq Keys
  BY TransactionTypes DEF Writes, Keys
<1>2. Staged = db
  BY <1>1, CommitKeepsView, ReadClean DEF Staged
<1>3. \A k \in Keys : db[k] = None
  OBVIOUS
<1>4. Consistent(db)
  BY <1>1, <1>3, ChainRecords DEF Consistent
<1> QED BY <1>1, <1>2, <1>3, <1>4 DEF EvoDbAtomic, OnItsWay

\* Every step of the node, of the disk and of the operator keeps IndInv.
THEOREM IndInvHolds == Spec => []IndInv
<1>1. Init => IndInv
  BY TypeInit, EmptyStores DEF Init, IndInv
<1>2. IndInv /\ [Next]_vars => IndInv'
  <2> SUFFICES ASSUME IndInv, [Next]_vars PROVE EvoDbAtomic' /\ OnItsWay'
    BY TypeStep DEF IndInv
  <2>1. TypeOK'
    BY TypeStep DEF IndInv
  <2>2. CASE \E b \in Blocks : ConnectTip(b)
    BY <2>1, <2>2, ConnectAtomic
  <2>3. CASE DisconnectTip
    BY <2>1, <2>3, DisconnectAtomic
  <2>4. CASE Rollback \/ CommitScope
    BY <2>4, ScopeAtomic
  <2>5. CASE FlushStateToDisk \/ Shutdown
    BY <2>5, LayersUnchanged DEF FlushStateToDisk, Shutdown, disk
  <2>6. CASE StartShutdown
    BY <2>6, LayersUnchanged DEF StartShutdown, disk
  <2>7. CASE FlushCoins
    BY <2>7, LayersUnchanged DEF FlushCoins
  <2>8. CASE FlushCoinsFails
    BY <2>8, LayersUnchanged DEF FlushCoinsFails, Flushed, disk
  <2>9. CASE CommitRootTransaction \/ CommitRootFails
    BY <2>9, CommitRootAtomic
  <2>10. CASE Crash
    BY <2>10, LayersUnchanged DEF Crash, Dies, disk
  <2>11. CASE Start
    BY <2>11, StartAtomic
  <2>12. CASE Reindex
    <3>1. (/\ db = [k \in Keys |-> None] /\ root = Clean /\ rootBatch = Clean
           /\ coinsTip = Genesis /\ pc = "idle")'
      BY <2>12 DEF Reindex
    <3> QED BY <3>1, EmptyStores, PTL
  <2>13. CASE UNCHANGED vars
    BY <2>13, LayersUnchanged DEF vars
  <2> QED
    BY <2>2, <2>3, <2>4, <2>5, <2>6, <2>7, <2>8, <2>9, <2>10, <2>11, <2>12, <2>13
    DEF Next, BlockStep, DiskStep
<1> QED
  BY <1>1, <1>2, PTL DEF Spec

\* CommitRootTransaction and the scoped transactions are all or nothing, for any block
\* tree: at every moment evodb on disk holds the records of exactly one chain.
THEOREM EvoDbOnDiskIsAtomic == Spec => []EvoDbAtomic
<1>1. IndInv => EvoDbAtomic
  BY DEF IndInv
<1> QED
  BY <1>1, IndInvHolds, PTL

----------------------------------------------------------------------------
(* The two databases. *)

\* Between blocks, and with no batch left over, CEvoDB::Read shows what is staged.
LEMMA ViewIsStaged ==
  ASSUME TypeOK, cur = Clean, rootBatch = Clean
  PROVE  View = Staged
<1>1. root \in Transaction /\ db \in Writes
  BY DEF TypeOK
<1>2. Read(root, db) \in Writes
  BY <1>1, TransactionTypes
<1>3. Staged = Read(root, db)
  BY <1>1, StagedLayers, ReadClean
<1> QED BY <1>2, <1>3, ReadClean DEF View

\* What is staged depends on the layers below the scope only.
LEMMA StagedUnchanged ==
  ASSUME UNCHANGED <<root, rootBatch, db>>
  PROVE  Staged' = Staged
  BY DEF Staged

\* ConnectTip and DisconnectTip: no assert fails unless the databases were torn apart,
\* and the scope opens on the block the coins stand at.
LEMMA BlockTogether ==
  ASSUME IndInv, MoveTogether, DisconnectTip \/ \E b \in Blocks : ConnectTip(b)
  PROVE  MoveTogether'
<1>1. pc = "idle" /\ cur = Clean
  BY DEF ConnectTip, DisconnectTip, MoveTogether
<1>2. UNCHANGED <<tip, coinsTip, coinsDB, root, rootBatch, db>> /\ Staged' = Staged
  BY StagedUnchanged DEF ConnectTip, DisconnectTip, Dies, Abort, Scope, disk
<1>3. \/ Dies("down")
      \/ Dies("assert") /\ coinsTip = tip /\ ~VerifyBestBlock(tip)
      \/ Abort
      \/ pc' = "scope" /\ torn' = torn /\ coinsTip = tip
  BY DEF ConnectTip, DisconnectTip, Scope
<1>4. CASE Dies("down")
  BY <1>1, <1>2, <1>4 DEF Dies, MoveTogether, SameBlock
<1>5. CASE Dies("assert") /\ coinsTip = tip /\ ~VerifyBestBlock(tip)
  <2>1. ASSUME ~torn PROVE FALSE
    <3>1. View = Staged /\ SameBlock(Staged[BestBlock], coinsTip)
      BY <1>1, <2>1, ViewIsStaged DEF IndInv, MoveTogether
    <3> QED BY <1>5, <3>1 DEF VerifyBestBlock, SameBlock
  <2> QED BY <1>1, <1>2, <1>5, <2>1 DEF Dies, MoveTogether, SameBlock
<1>6. CASE Abort
  BY <1>1, <1>2, <1>6 DEF Abort, MoveTogether, SameBlock
<1>7. CASE pc' = "scope" /\ torn' = torn /\ coinsTip = tip
  BY <1>1, <1>2, <1>7 DEF MoveTogether, SameBlock
<1> QED BY <1>3, <1>4, <1>5, <1>6, <1>7

\* Start: databases at one block satisfy the checks of AppInit2.
LEMMA StartTogether ==
  ASSUME IndInv, MoveTogether, Start
  PROVE  MoveTogether'
<1>1. /\ UNCHANGED <<coinsDB, db, torn>> /\ cur' = Clean /\ rootBatch' = Clean
      /\ coinsTip' = tip' /\ pc \in {"down", "assert"} /\ pc' \in {"idle", "assert", "reindex"}
      /\ tip' = IF coinsDB = None THEN Genesis ELSE coinsDB
  BY DEF Start, disk
<1>2. SUFFICES ASSUME ~torn
               PROVE  pc' = "idle" /\ SameBlock(Staged'[BestBlock], coinsTip')
  BY <1>1 DEF MoveTogether, SameBlock
<1>3. SameBlock(db[BestBlock], coinsDB)
  BY <1>2 DEF MoveTogether, Start
<1>4. /\ Genesis # None /\ Height[Genesis] = 0 /\ Keys = Blocks \cup {BestBlock}
      /\ Genesis \in Blocks /\ BestBlock \notin Blocks /\ db \in Writes
      /\ Clean \in Transaction
  BY EvoDbAssumption, TransactionTypes DEF Keys, IndInv, TypeOK
<1>5. CASE coinsDB = None
  <2>1. db[BestBlock] = None
    BY <1>3, <1>4, <1>5 DEF SameBlock
  <2>2. \A k \in Keys : db[k] = None
    BY <1>4, <2>1, ChainRecords DEF IndInv, EvoDbAtomic, Consistent
  <2>3. pc' = "idle" /\ root' = Clean
    BY <1>5, <2>2 DEF Start
  <2>4. Staged' = db
    <3>1. Read(Commit(Clean, Clean), db) = db
      BY <1>4, CommitKeepsView, ReadClean
    <3> QED BY <1>1, <2>3, <3>1 DEF Staged
  <2> QED BY <1>1, <1>5, <2>1, <2>3, <2>4 DEF SameBlock
<1>6. CASE coinsDB # None /\ db[BestBlock] = None
  <2>1. coinsDB = Genesis
    BY <1>3, <1>6 DEF SameBlock
  <2>2. pc' = "idle" /\ root' = Write(Clean, BestBlock, Genesis)
    BY <1>4, <1>6, <2>1 DEF Start
  <2> DEFINE w == Write(Clean, BestBlock, Genesis)
  <2>3. w \in Transaction /\ w.writes[BestBlock] = Genesis /\ w.deletes = {}
    <3>1. w \in Transaction
      BY <1>4, TransactionTypes DEF Values
    <3> QED BY <1>4, <3>1 DEF Write, Clean
  <2>4. Staged' = Read(w, db)
    <3> HIDE DEF w
    <3>1. Read(Commit(w, Clean), db) = Read(w, db)
      BY <1>4, <2>3, CommitKeepsView, ReadClean
    <3> QED BY <1>1, <2>2, <3>1 DEF Staged, w
  <2>5. Staged'[BestBlock] = Genesis
    <3> HIDE DEF w
    <3> QED BY <1>4, <2>3, <2>4 DEF Read
  <2> QED BY <1>1, <1>4, <2>1, <2>2, <2>5 DEF SameBlock
<1>7. CASE coinsDB # None /\ db[BestBlock] # None
  <2>1. db[BestBlock] = coinsDB
    BY <1>3, <1>7 DEF SameBlock
  <2>2. pc' = "idle" /\ root' = Clean
    BY <1>7, <2>1 DEF Start
  <2>3. Staged' = db
    <3>1. Read(Commit(Clean, Clean), db) = db
      BY <1>4, CommitKeepsView, ReadClean
    <3> QED BY <1>1, <2>2, <3>1 DEF Staged
  <2> QED BY <1>1, <1>7, <2>1, <2>2, <2>3 DEF SameBlock
<1> QED BY <1>5, <1>6, <1>7

\* The flushes and commits: what is torn apart by a failure or a crash is marked so,
\* and a completed pair of writes leaves the databases at one block.
LEMMA DiskTogether ==
  ASSUME IndInv, MoveTogether,
         Rollback \/ CommitScope \/ CommitRootTransaction \/ CommitRootFails
  PROVE  MoveTogether'
<1>1. CASE Rollback
  BY <1>1, StagedUnchanged DEF Rollback, disk, MoveTogether, SameBlock
<1>2. CASE CommitScope
  <2>1. Staged' = StagedWithScope /\ pc = "scope"
    BY <1>2 DEF CommitScope, disk, Staged, StagedWithScope
  <2>2. Staged'[BestBlock] = target
    BY <2>1 DEF IndInv, OnItsWay
  <2> QED BY <1>2, <2>2 DEF CommitScope, disk, MoveTogether, SameBlock
<1>3. CASE CommitRootTransaction
  <2>1. /\ db' = Staged /\ root' = Clean /\ rootBatch' = Clean
        /\ Clean \in Transaction /\ Staged \in Writes
    BY <1>3, StagedLayers, TransactionTypes DEF CommitRootTransaction, Staged, IndInv
  <2>2. Staged' = Staged
    <3>1. Read(Commit(Clean, Clean), Staged) = Staged
      BY <2>1, CommitKeepsView, ReadClean
    <3> QED BY <2>1, <3>1 DEF Staged
  <2> QED BY <1>3, <2>1, <2>2 DEF CommitRootTransaction, Flushed, MoveTogether, SameBlock
<1>4. CASE CommitRootFails
  BY <1>4 DEF CommitRootFails, Flushed, disk, MoveTogether
<1> QED BY <1>1, <1>2, <1>3, <1>4

\* Empty databases stand at one block.
LEMMA EmptyTogether ==
  ASSUME db = [k \in Keys |-> None], cur = Clean, root = Clean, rootBatch = Clean,
         coinsTip = Genesis, tip = Genesis, coinsDB = None, pc = "idle"
  PROVE  MoveTogether
<1>1. Clean \in Transaction /\ db \in Writes /\ BestBlock \in Keys
  BY TransactionTypes DEF Writes, Keys
<1>2. Staged = db
  BY <1>1, CommitKeepsView, ReadClean DEF Staged
<1> QED BY <1>1, <1>2 DEF MoveTogether, SameBlock

\* Every step of the node, of the disk and of the operator keeps MoveTogether.
THEOREM MoveTogetherHolds == Spec => []MoveTogether
<1>1. Init => MoveTogether
  BY EmptyTogether DEF Init
<1>2. IndInv /\ MoveTogether /\ [Next]_vars => MoveTogether'
  <2> SUFFICES ASSUME IndInv, MoveTogether, [Next]_vars PROVE MoveTogether'
    OBVIOUS
  <2>1. CASE DisconnectTip \/ \E b \in Blocks : ConnectTip(b)
    BY <2>1, BlockTogether
  <2>2. CASE Rollback \/ CommitScope \/ CommitRootTransaction \/ CommitRootFails
    BY <2>2, DiskTogether
  <2>3. CASE FlushStateToDisk \/ StartShutdown \/ Shutdown
    BY <2>3, StagedUnchanged
    DEF FlushStateToDisk, StartShutdown, Shutdown, disk, MoveTogether, SameBlock
  <2>4. CASE FlushCoins
    BY <2>4, StagedUnchanged DEF FlushCoins, MoveTogether, SameBlock
  <2>5. CASE FlushCoinsFails
    BY <2>5, StagedUnchanged DEF FlushCoinsFails, Flushed, disk, MoveTogether, SameBlock
  <2>6. CASE Crash
    BY <2>6 DEF Crash, Dies, disk, MoveTogether, SameBlock
  <2>7. CASE Start
    BY <2>7, StartTogether
  <2>8. CASE Reindex
    <3>1. (/\ db = [k \in Keys |-> None] /\ cur = Clean /\ root = Clean /\ rootBatch = Clean
           /\ coinsTip = Genesis /\ tip = Genesis /\ coinsDB = None /\ pc = "idle")'
      BY <2>8 DEF Reindex
    <3> QED BY <3>1, EmptyTogether, PTL
  <2>9. CASE UNCHANGED vars
    BY <2>9, StagedUnchanged DEF vars, MoveTogether, SameBlock
  <2> QED
    BY <2>1, <2>2, <2>3, <2>4, <2>5, <2>6, <2>7, <2>8, <2>9 DEF Next, BlockStep, DiskStep
<1> QED
  BY <1>1, <1>2, IndInvHolds, PTL DEF Spec

\* For any block tree, tip, coins and evodb stand at one block between two blocks, as
\* long as no crash or failure fell between the two writes of FlushStateToDisk.
THEOREM DatabasesAgree == Spec => []StoresAgree
<1>1. IndInv /\ MoveTogether => StoresAgree
  <2> SUFFICES ASSUME IndInv, MoveTogether, pc = "idle", ~fRequestShutdown, ~torn
               PROVE  /\ coinsTip = tip
                      /\ View[BestBlock] \in {tip} \cup (IF Height[tip] = 0 THEN {None} ELSE {})
                      /\ Consistent(View)
    BY DEF StoresAgree
  <2>1. coinsTip = tip /\ SameBlock(Staged[BestBlock], coinsTip)
    BY DEF MoveTogether
  <2>2. View = Staged
    BY ViewIsStaged DEF IndInv, MoveTogether
  <2>3. Consistent(View)
    BY <2>2 DEF IndInv, OnItsWay
  <2> QED BY <2>1, <2>2, <2>3, EvoDbAssumption DEF SameBlock
<1> QED
  BY <1>1, IndInvHolds, MoveTogetherHolds, PTL

\* VerifyBestBlock and the checks of AppInit2 stop a node only when the two writes of
\* FlushStateToDisk were torn apart, for any block tree.
THEOREM RestartsSucceed == Spec => []RestartSucceeds
<1>1. MoveTogether => RestartSucceeds
  BY DEF MoveTogether, RestartSucceeds
<1> QED
  BY <1>1, MoveTogetherHolds, PTL
=============================================================================
