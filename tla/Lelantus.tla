------------------------------ MODULE Lelantus ------------------------------
(***************************************************************************)
(* The Lelantus state of lelantus.cpp: which coins were minted in which    *)
(* coin group, which serials are used, and the first and last block of     *)
(* every group's anonymity set.  CLelantusState lives in memory only; it   *)
(* follows the active chain through ConnectBlockLelantus and               *)
(* DisconnectTipLelantus, and is rebuilt from the block index when the     *)
(* node starts.  Everything runs under cs_main.                            *)
(*                                                                         *)
(* A coin stands for its public value and for its serial number.  All the  *)
(* mints of a block join one group, so the map lelantusMintedPubCoins of a *)
(* block index entry is one group id and one set of coins; a set hash is   *)
(* the sequence of what was written into the hasher.                       *)
(***************************************************************************)
EXTENDS BlockIndex, SequencesExt

CONSTANTS
  Bodies,              \* what the blocks may hold: functions from Blocks to records
                       \*   mints   coins minted by the block
                       \*   spends  [coin, group] of every joinsplit input
  Forged,              \* serials whose proof verifies though no coin has them
  Disallowed,          \* blocks CSporkManager::IsBlockAllowed turns down
  maxCoinInGroup, startGroupSize,
  nMaxLelantusInputPerBlock,
  nLelantusFixesStartBlock

\* The genesis block has its coinbase transaction only (chainparams.cpp).
ASSUME LelantusAssumption == \A x \in Bodies : x[Genesis].spends = {}

VARIABLES
  body,                \* the contents of the blocks, chosen once
  tip,                 \* chainActive.Tip()
  index,               \* the Lelantus fields of every CBlockIndex
  state,               \* lelantusState
  failed,              \* blocks with BLOCK_FAILED_VALID
  leaked,              \* a block was rejected after lelantusState took part of it
  tainted,             \* the blocks connected since, whose index entries rest on it
  aborted              \* an assert, an exception or a null read ended the process

vars == <<body, tip, index, state, failed, leaked, tainted, aborted>>

Highest(S) == CHOOSE x \in S : \A y \in S : Height[x] >= Height[y]
Lowest(S)  == CHOOSE x \in S : \A y \in S : Height[x] =< Height[y]

\* The blocks from first up to b.
Stretch(first, b) == {x \in Ancestry[b] : Height[x] >= Height[first]}

\* Counters kept in a std::map: a missing key reads as zero.
At(f, k) == IF k \in DOMAIN f THEN f[k] ELSE 0
Plus(f, g) == [k \in DOMAIN f \cup DOMAIN g |-> At(f, k) + At(g, k)]
Without(f, S) == Restrict(f, DOMAIN f \ S)

-----------------------------------------------------------------------------
\* CLelantusState after Reset().
EmptyState ==
  [coinGroups |-> <<>>, latestCoinId |-> 0,
   mintedPubCoins |-> <<>>, usedCoinSerials |-> <<>>, mintMetaInfo |-> <<>>,
   spendMetaInfo |-> <<>>, extendedMintMetaInfo |-> <<>>, surgeCondition |-> FALSE]

\* The Lelantus fields of a new CBlockIndex.
NoEntry ==
  [group |-> 0, coins |-> {}, spent |-> {}, setHash |-> [id |-> 0, hash |-> <<>>]]

Group == [firstBlock |-> NoBlock, lastBlock |-> NoBlock, nCoins |-> 0]

CountCoinInBlock(idx, b, id) == IF idx[b].group = id THEN Cardinality(idx[b].coins) ELSE 0

\* Mutant: a new range of groups starts with no coins of the group before it.
CheckSurgeConditionNoOverlap(s) ==
  LET Step(a, id) ==
        LET serials == a.serials + At(s.spendMetaInfo, id)
            mints == a.mints + s.mintMetaInfo[id]
            extended == At(s.extendedMintMetaInfo, id + 1)
        IN  CASE a.surge \/ serials > mints -> [a EXCEPT !.surge = TRUE]
              [] serials <= mints - extended -> [serials |-> 0, mints |-> 0, surge |-> FALSE]
              [] OTHER -> [serials |-> serials, mints |-> mints, surge |-> FALSE]
  IN  FoldLeft(Step, [serials |-> 0, mints |-> 0, surge |-> FALSE],
               SetToSortSeq(DOMAIN s.mintMetaInfo, <)).surge

\* Containers::CheckSurgeCondition: is there a range of groups with more serials
\* than mints?  The coins a group lends to the next open that group's range.  The
\* counters are size_t: a difference below zero is a huge number.
CheckSurgeCondition(s) ==
  LET Step(a, id) ==
        LET serials == a.serials + At(s.spendMetaInfo, id)
            mints == a.mints + s.mintMetaInfo[id]
            extended == At(s.extendedMintMetaInfo, id + 1)
        IN  CASE a.surge \/ serials > mints -> [a EXCEPT !.surge = TRUE]
              [] mints < extended \/ serials <= mints - extended ->
                   [serials |-> 0, mints |-> extended, surge |-> FALSE]
              [] OTHER -> [serials |-> serials, mints |-> mints, surge |-> FALSE]
  IN  FoldLeft(Step, [serials |-> 0, mints |-> 0, surge |-> FALSE],
               SetToSortSeq(DOMAIN s.mintMetaInfo, <)).surge

\* Every mutator of Containers ends with CheckSurgeCondition.
Checked(s) == [s EXCEPT !.surgeCondition = CheckSurgeCondition(s)]

\* Containers::AddMint for the coins of one block; insert keeps an older entry.
AddMint(s, coins, id, b) ==
  Checked([s EXCEPT
    !.mintedPubCoins = @ @@ [c \in coins |-> [group |-> id, height |-> Height[b]]],
    !.mintMetaInfo = Plus(@, id :> Cardinality(coins))])

RemoveMint(s, coins, id) ==
  Checked([s EXCEPT !.mintedPubCoins = Without(@, coins),
                    !.mintMetaInfo = Plus(@, id :> (0 - Cardinality(coins)))])

PerGroup(spends) ==
  [id \in {p.group : p \in spends} |-> Cardinality({p \in spends : p.group = id})]

\* Containers::AddSpend for several serials.
AddSpend(s, spends) ==
  Checked([s EXCEPT
    !.usedCoinSerials = [c \in DOMAIN @ \cup {p.coin : p \in spends} |->
        IF \E p \in spends : p.coin = c THEN (CHOOSE p \in spends : p.coin = c).group ELSE @[c]],
    !.spendMetaInfo = Plus(@, PerGroup(spends))])

\* Mutant: the serial stays in usedCoinSerials.
RemoveSpendCountOnly(s, spends) ==
  Checked([s EXCEPT !.spendMetaInfo =
    Plus(@, [id \in DOMAIN PerGroup(spends) |-> 0 - PerGroup(spends)[id]])])

RemoveSpend(s, spends) ==
  Checked([s EXCEPT
    !.usedCoinSerials = Without(@, {p.coin : p \in spends}),
    !.spendMetaInfo =
        Plus(@, [id \in DOMAIN PerGroup(spends) |-> 0 - PerGroup(spends)[id]])])

-----------------------------------------------------------------------------
\* The blocks of the active chain with coins of group id, and their coins.
Holders(s, idx, id) ==
  IF id \notin DOMAIN s.coinGroups THEN {}
  ELSE {x \in Ancestry[s.coinGroups[id].lastBlock] : CountCoinInBlock(idx, x, id) > 0}

CoinsFrom(idx, id, holders, f) ==
  MapThenSumSet(LAMBDA x : CountCoinInBlock(idx, x, id),
                {x \in holders : Height[x] >= Height[f]})

\* Mutant: the walk ends with the block before the one that completes the count.
FirstOfLastNShort(idx, id, holders) ==
  LET within == {f \in holders : CoinsFrom(idx, id, holders, f) <= startGroupSize}
  IN  IF within = {} THEN NoBlock ELSE Lowest(within)

\* The walk of CountLastNCoins from the last block of group id: it ends with the
\* block that completes startGroupSize coins, or with the group's first one.
FirstOfLastN(idx, id, holders) ==
  LET enough == {f \in holders : CoinsFrom(idx, id, holders, f) >= startGroupSize}
  IN  CASE enough # {} -> Highest(enough)
        [] enough = {} /\ holders # {} -> Lowest(holders)
        [] OTHER -> NoBlock

Borrowed(idx, id, holders, first) ==
  [first |-> first, coins |-> IF first = NoBlock THEN 0 ELSE CoinsFrom(idx, id, holders, first)]

CountLastNCoins(s, idx, id) ==
  Borrowed(idx, id, Holders(s, idx, id), FirstOfLastN(idx, id, Holders(s, idx, id)))

-----------------------------------------------------------------------------
GroupInfo(s, id) == IF id \in DOMAIN s.coinGroups THEN s.coinGroups[id] ELSE Group

\* The next group opens with the coins borrowed from group id - 1.
OpenGroup(s, b, n, id, last) ==
  [s EXCEPT !.coinGroups =
              (id :> [firstBlock |-> IF last.first = NoBlock THEN b ELSE last.first,
                      lastBlock |-> b, nCoins |-> last.coins + n]) @@ @,
            !.latestCoinId = id,
            !.extendedMintMetaInfo = (id :> last.coins) @@ @]

JoinGroup(s, b, n, id, group) ==
  [s EXCEPT !.coinGroups =
              (id :> [firstBlock |-> IF group.nCoins = 0 THEN b ELSE group.firstBlock,
                      lastBlock |-> b, nCoins |-> group.nCoins + n]) @@ @,
            !.latestCoinId = id]

\* The asserts on the latest group before a block joins it.
JoinAsserts(b, group) ==
  IF group.nCoins = 0
  THEN group.firstBlock = NoBlock /\ group.lastBlock = NoBlock
  ELSE /\ NoBlock \notin {group.firstBlock, group.lastBlock}
       /\ Height[group.lastBlock] <= Height[b]

\* AddMintsToStateAndBlockIndex: the coins join the latest group if all of them
\* fit, and open the next group otherwise.  The result has the new state, the new
\* index and whether the asserts held.
AddMintsToStateAndBlockIndex(s, idx, b, coins) ==
  LET latest == Max({1, s.latestCoinId})
      n == Cardinality(coins)
  IN  IF GroupInfo(s, latest).nCoins + n <= maxCoinInGroup
      THEN [state |-> AddMint(JoinGroup(s, b, n, latest, GroupInfo(s, latest)),
                              coins, latest, b),
            index |-> [idx EXCEPT ![b].group = latest, ![b].coins = coins],
            ok |-> JoinAsserts(b, GroupInfo(s, latest))]
      ELSE [state |-> AddMint(OpenGroup([s EXCEPT !.coinGroups =
                                           (latest :> GroupInfo(s, latest)) @@ @],
                                        b, n, latest + 1, CountLastNCoins(s, idx, latest)),
                              coins, latest + 1, b),
            index |-> [idx EXCEPT ![b].group = latest + 1, ![b].coins = coins],
            ok |-> TRUE]

\* CLelantusState::AddBlock: what the block index recorded for b, added again.
AddBlock(s, idx, b) ==
  LET id == idx[b].group
      n == Cardinality(idx[b].coins)
      grouped == IF id = 1 \/ id \in DOMAIN s.coinGroups
                 THEN JoinGroup(s, b, n, id, GroupInfo(s, id))
                 ELSE OpenGroup(s, b, n, id, CountLastNCoins(s, idx, id - 1))
  IN  AddSpend(IF n = 0 THEN s ELSE AddMint(grouped, idx[b].coins, id, b), idx[b].spent)

\* BuildLelantusStateFromIndex: AddBlock from Genesis to the tip.
BuildLelantusStateFromIndex(idx, b) ==
  LET built[x \in Blocks] ==
        AddBlock(IF x = Genesis THEN EmptyState ELSE built[Parent[x]], idx, x)
  IN  built[b]

-----------------------------------------------------------------------------
\* Mutant: a group goes when its count reaches zero, whatever it borrowed.
IsEdgedBlockCountOnly(s, idx, b) ==
  s.coinGroups[idx[b].group].nCoins = Cardinality(idx[b].coins)

\* The test of RemoveBlock for erasing the group of block b: the first group goes
\* with its last coin; another group goes when the nearest older block with coins
\* holds coins of the group before, and what else was borrowed is less than
\* startGroupSize.
IsEdgedBlock(s, idx, b) ==
  LET id == idx[b].group
      left == s.coinGroups[id].nCoins - Cardinality(idx[b].coins)
      older == {x \in Ancestry[b] \ {b} : idx[x].coins # {} /\ idx[x].group \in {id, id - 1}}
      lent == IF older = {} THEN 0 ELSE CountCoinInBlock(idx, Highest(older), id - 1)
  IN  IF id = 1 THEN left = 0 ELSE lent > 0 /\ left >= lent /\ left - lent < startGroupSize

\* The blocks before b that hold coins of b's group.
Before(idx, b) == {x \in Ancestry[b] \ {b} : idx[x].group = idx[b].group}

\* The group loses the coins of b, or goes altogether.
ShrinkGroup(s, idx, b, edged) ==
  LET id == idx[b].group
  IN  IF edged
      THEN [s EXCEPT !.coinGroups = Without(@, {id}), !.latestCoinId = @ - 1,
                     !.extendedMintMetaInfo = Without(@, {id})]
      ELSE [s EXCEPT !.coinGroups[id].nCoins = @ - Cardinality(idx[b].coins),
                     !.coinGroups[id].lastBlock = Highest(Before(idx, b))]

\* The asserts of RemoveBlock, and its exception for an unknown group.
RemoveAsserts(s, idx, b) ==
  LET id == idx[b].group
  IN  /\ id \in DOMAIN s.coinGroups
      /\ s.coinGroups[id].nCoins >= Cardinality(idx[b].coins)
      /\ \/ IsEdgedBlock(s, idx, b)
         \/ /\ s.coinGroups[id].lastBlock = b
            /\ \E x \in Before(idx, b) : Height[x] >= Height[s.coinGroups[id].firstBlock]
      /\ \A c \in idx[b].coins :
           c \in DOMAIN s.mintedPubCoins /\ s.mintedPubCoins[c].group = id

\* RemoveBlock: the block's coins leave their group, then its mints and its
\* serials are taken back.
RemoveBlock(s, idx, b) ==
  CASE idx[b].coins = {} -> RemoveSpend(s, idx[b].spent)
    [] idx[b].coins # {} /\ RemoveAsserts(s, idx, b) ->
         RemoveSpend(RemoveMint(ShrinkGroup(s, idx, b, IsEdgedBlock(s, idx, b)),
                                idx[b].coins, idx[b].group),
                     idx[b].spent)
    [] OTHER -> s

-----------------------------------------------------------------------------
\* The anonymity set of group id: the coins of the group and of the one before it
\* in the blocks from firstBlock to lastBlock.
GetAnonymitySet(s, idx, id) ==
  IF id \notin DOMAIN s.coinGroups THEN {}
  ELSE UNION {idx[x].coins : x \in
         {y \in Stretch(s.coinGroups[id].firstBlock, s.coinGroups[id].lastBlock) :
            idx[y].group \in {id, id - 1}}}

\* GetAnonymitySetHash: the latest hash of the group above its first block.
LatestHash(idx, hashed) == IF hashed = {} THEN <<>> ELSE idx[Highest(hashed)].setHash.hash

GetAnonymitySetHash(s, idx, b, id, generation) ==
  IF \/ GroupInfo(s, id).nCoins = 0
     \/ s.coinGroups[id].firstBlock = s.coinGroups[id].lastBlock /\ generation
  THEN <<>>
  ELSE LatestHash(idx, {x \in Ancestry[b] : /\ Height[x] > Height[s.coinGroups[id].firstBlock]
                                            /\ idx[x].setHash.id = id})

HasLelantus(x) == x.mints # {} \/ x.spends # {}

\* CheckTransaction against the Lelantus state for every transaction of a block:
\* no surge, no coin minted before, no serial twice in the block, and every proof
\* verifies over the anonymity set of the group it names.
CheckLelantusTransactions(s, idx, x) ==
  /\ HasLelantus(x) => ~s.surgeCondition
  /\ x.mints \cap DOMAIN s.mintedPubCoins = {}
  /\ \A p, q \in x.spends : p.coin = q.coin => p = q
  /\ \A p \in x.spends :
       /\ p.group \in DOMAIN s.coinGroups
       /\ p.coin \in Forged \cup GetAnonymitySet(s, idx, p.group)

\* The hash that the next one is chained to: of this group or else of the group
\* before it.
PreviousHash(added, b) ==
  LET id == added.state.latestCoinId
      Chained(i) == GetAnonymitySetHash(added.state, added.index, Parent[b], i, TRUE)
  IN  IF Chained(id) = <<>> /\ id > 1 THEN Chained(id - 1) ELSE Chained(id)

\* The set hash of block b: at the block of the fork it covers the whole set of
\* group 1; later it chains the previous hash with the block's coins.  Without a
\* previous hash, a group after the first reads 32 bytes of an empty vector.
WithSetHash(added, b, coins, whole, previous) ==
  LET hash == IF coins # {} /\ Height[b] >= nLelantusFixesStartBlock
              THEN Append(whole \o previous, coins) ELSE whole
  IN  [state |-> added.state,
       index |-> IF hash = <<>> THEN added.index
                 ELSE [added.index EXCEPT ![b].setHash =
                         [id |-> added.state.latestCoinId, hash |-> hash]],
       ok |-> /\ added.ok
              /\ (coins # {} /\ Height[b] > nLelantusFixesStartBlock
                    /\ added.state.latestCoinId > 1) => previous # <<>>]

SetHash(added, b, coins, whole) ==
  WithSetHash(added, b, coins, whole,
              IF Height[b] > nLelantusFixesStartBlock THEN PreviousHash(added, b) ELSE <<>>)

AddMints(s, idx, b, coins) ==
  IF coins = {} THEN [state |-> s, index |-> idx, ok |-> TRUE]
  ELSE AddMintsToStateAndBlockIndex(s, idx, b, coins)

\* ConnectBlockLelantus once every serial has passed: the spends, the mints, then
\* the hash of the anonymity set.
ConnectBlockLelantus(s, idx, b, x) ==
  SetHash(AddMints(AddSpend(s, x.spends),
                   [idx EXCEPT ![b] = [NoEntry EXCEPT !.spent = x.spends]], b, x.mints),
          b, x.mints,
          IF Height[b] = nLelantusFixesStartBlock THEN <<GetAnonymitySet(s, idx, 1)>> ELSE <<>>)

-----------------------------------------------------------------------------
Init ==
  /\ body \in Bodies
  /\ tip = Genesis
  /\ index = [b \in Blocks |-> NoEntry]
  /\ state = EmptyState
  /\ failed = {}
  /\ leaked = FALSE
  /\ tainted = {}
  /\ aborted = FALSE

\* The node runs on a leaked state like on any other: leaked and tainted guard nothing.
Running == ~aborted

Connectable(b) == Running /\ b \in Blocks \ (failed \cup {Genesis}) /\ Parent[b] = tip

\* Mutant: a serial is looked up within the group that the spend names.
UsedSerialsOfGroup(x) ==
  {p \in x.spends : p.coin \in DOMAIN state.usedCoinSerials
                      /\ state.usedCoinSerials[p.coin] = p.group}

\* CheckLelantusSpendSerial while the tip is connected.
UsedSerials(x) == {p \in x.spends : p.coin \in DOMAIN state.usedCoinSerials}

\* ConnectBlock rejects the block before lelantusState changes: a transaction fails
\* its check, or the block has too many inputs (its index fields are cleared then).
RejectBlock(b) ==
  /\ Connectable(b)
  /\ \/ /\ ~CheckLelantusTransactions(state, index, body[b])
        /\ UNCHANGED index
     \/ /\ CheckLelantusTransactions(state, index, body[b])
        /\ Cardinality(body[b].spends) > nMaxLelantusInputPerBlock
        /\ index' = [index EXCEPT ![b] = NoEntry]
  /\ failed' = failed \cup {b}
  /\ UNCHANGED <<body, tip, state, leaked, tainted, aborted>>

Admissible(b) ==
  /\ Connectable(b)
  /\ CheckLelantusTransactions(state, index, body[b])
  /\ Cardinality(body[b].spends) <= nMaxLelantusInputPerBlock

\* ConnectBlockLelantus meets a used serial.  spentSerials is an unordered map: any
\* of the other serials may have been added by then, and nothing takes them back.
RejectUsedSerial(b) ==
  /\ Admissible(b)
  /\ UsedSerials(body[b]) # {}
  /\ \E done \in SUBSET (body[b].spends \ UsedSerials(body[b])) :
       /\ state' = AddSpend(state, done)
       /\ index' = [index EXCEPT ![b] = [NoEntry EXCEPT !.spent = done]]
       /\ leaked' = (leaked \/ done # {})
  /\ failed' = failed \cup {b}
  /\ UNCHANGED <<body, tip, tainted, aborted>>

\* ConnectTip of a block that passes every Lelantus check.  IsBlockAllowed comes
\* after ConnectBlockLelantus; when it refuses, nothing is taken back.
ConnectTip(b) ==
  /\ Admissible(b)
  /\ UsedSerials(body[b]) = {}
  /\ \E after \in {ConnectBlockLelantus(state, index, b, body[b])} :
       /\ state' = after.state
       /\ index' = after.index
       /\ aborted' = ~after.ok
       /\ tip' = IF after.ok /\ b \notin Disallowed THEN b ELSE tip
  /\ failed' = IF b \in Disallowed THEN failed \cup {b} ELSE failed
  /\ leaked' = (leaked \/ (b \in Disallowed /\ HasLelantus(body[b])))
  /\ tainted' = IF leaked THEN tainted \cup {b} ELSE tainted \ {b}
  /\ UNCHANGED body

\* DisconnectTipLelantus within DisconnectTip; the index entry keeps its fields.
DisconnectTip ==
  /\ Running
  /\ tip # Genesis
  /\ state' = RemoveBlock(state, index, tip)
  /\ aborted' = (index[tip].coins # {} /\ ~RemoveAsserts(state, index, tip))
  /\ tip' = IF aborted' THEN tip ELSE Parent[tip]
  /\ UNCHANGED <<body, index, failed, leaked, tainted>>

\* The process ends at any moment and starts again with the chain state that was
\* last flushed; LoadBlockIndexDB rebuilds lelantusState.
Restart(b) ==
  /\ b \in Ancestry[tip]
  /\ tip' = b
  /\ state' = BuildLelantusStateFromIndex(index, b)
  /\ leaked' = (Ancestry[b] \cap tainted # {})
  /\ aborted' = FALSE
  /\ UNCHANGED <<body, index, failed, tainted>>

Next ==
  \/ \E b \in Blocks :
       RejectBlock(b) \/ RejectUsedSerial(b) \/ ConnectTip(b) \/ Restart(b)
  \/ DisconnectTip

Spec == Init /\ [][Next]_vars

-----------------------------------------------------------------------------
\* A counter at zero and a missing counter are the same count.
Counts(f) == Restrict(f, {k \in DOMAIN f : f[k] # 0})
Visible(s) ==
  [s EXCEPT !.mintMetaInfo = Counts(@), !.spendMetaInfo = Counts(@),
            !.extendedMintMetaInfo = Counts(@)]

\* A node that has only ever connected the blocks up to b, in order.
Straight(b) ==
  LET node[x \in Blocks] ==
        IF x = Genesis
        THEN [state |-> EmptyState, index |-> [y \in Blocks |-> NoEntry], ok |-> TRUE]
        ELSE ConnectBlockLelantus(node[Parent[x]].state, node[Parent[x]].index, x, body[x])
  IN  node[b]

\* Whatever blocks were connected, disconnected and rejected and however often the
\* node was restarted (ConnectBlockLelantus, RemoveBlock, AddBlock), lelantusState
\* and the groups and set hashes recorded for the active chain are those of a node
\* that connected this chain directly: two nodes on one chain verify a joinsplit
\* over the same anonymity set and the same set hash.  Outside of it are the states
\* that still hold part of a block refused after ConnectBlockLelantus had begun.
StateFollowsChain ==
  Running /\ ~leaked =>
    \E n \in {Straight(tip)} :
      /\ Visible(state) = Visible(n.state)
      /\ \A b \in Ancestry[tip] : index[b] = n.index[b]

\* nCoins of every group is the size of the anonymity set a joinsplit of that group
\* is verified over (the walk from lastBlock to firstBlock), and a group after the
\* first one borrows startGroupSize coins, or all coins of the group before when
\* that has fewer (CountLastNCoins), through every reorganisation and restart, unless
\* a refused block has left its coins behind.
AnonymitySetsComplete ==
  Running /\ ~leaked =>
    \A id \in DOMAIN state.coinGroups :
      LET own(i) == {c \in DOMAIN state.mintedPubCoins : state.mintedPubCoins[c].group = i}
          set == GetAnonymitySet(state, index, id)
      IN  /\ state.coinGroups[id].nCoins = Cardinality(set)
          /\ own(id) \subseteq set
          /\ id > 1 => Cardinality(set \cap own(id - 1)) >=
                         Min({startGroupSize, Cardinality(own(id - 1))})

\* The surge protection of CheckSurgeCondition raises no false alarm: while every
\* serial on the active chain belongs to a coin, it stays off, wherever the coins a
\* group lends to the next were spent.  And it is on as soon as there are more used
\* serials than coins.  A refused block that leaves serials behind is outside of it.
SurgeExact ==
  Running /\ ~leaked =>
    /\ DOMAIN state.usedCoinSerials \cap Forged = {} => ~state.surgeCondition
    /\ Cardinality(DOMAIN state.usedCoinSerials) > Cardinality(DOMAIN state.mintedPubCoins)
         => state.surgeCondition

\* No serial is spent by two blocks of the active chain, though the set of used
\* serials is lost at every restart and rolled back block by block in a
\* reorganisation (CheckLelantusSpendSerial, RemoveSpend, BuildLelantusStateFromIndex),
\* also on a state that holds part of a refused block.
NoDoubleSpend ==
  \A b, c \in Ancestry[tip] :
    b # c => {p.coin : p \in body[b].spends} \cap {p.coin : p \in body[c].spends} = {}

\* No assert of AddMintsToStateAndBlockIndex or RemoveBlock fails and no empty set
\* hash is read: every block that was connected can be disconnected again, as long as
\* no refused block has left coins or serials in lelantusState.
NeverAborts == aborted => leaked
=============================================================================
