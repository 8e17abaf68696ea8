--------------------------- MODULE LelantusProofs ---------------------------
(***************************************************************************)
(* No serial is spent twice on the active chain, for any finite block tree *)
(* and any contents of the blocks.                                         *)
(***************************************************************************)
EXTENDS Lelantus, BlockIndexProofs

(* The fields of a CBlockIndex and of CLelantusState. *)

IsEntry(e) == "spent" \in DOMAIN e
IsState(s) == "usedCoinSerials" \in DOMAIN s

Serials(spends) == {p.coin : p \in spends}
Used(s) == DOMAIN s.usedCoinSerials

\* s and t are states with the same used serials.
SameSerials(s, t) == IsState(t) /\ Used(t) = Used(s)

LEMMA CheckedSame == ASSUME NEW s, IsState(s) PROVE SameSerials(s, Checked(s))
<1> DEFINE surge == CheckSurgeCondition(s)
<1>1. Checked(s) = [s EXCEPT !.surgeCondition = surge]
  BY Zenon DEF Checked
<1> HIDE DEF surge
<1> QED BY <1>1, Zenon DEF IsState, SameSerials, Used

\* AddMint and RemoveMint leave the serials alone.
LEMMA MintsSame ==
  ASSUME NEW s, IsState(s), NEW coins, NEW id, NEW b
  PROVE  SameSerials(s, AddMint(s, coins, id, b)) /\ SameSerials(s, RemoveMint(s, coins, id))
<1>1. ASSUME NEW x, NEW y
      PROVE  SameSerials(s, Checked([s EXCEPT !.mintedPubCoins = x, !.mintMetaInfo = y]))
  <2> DEFINE t == [s EXCEPT !.mintedPubCoins = x, !.mintMetaInfo = y]
  <2>1. SameSerials(s, t)
    BY Zenon DEF IsState, SameSerials, Used
  <2> HIDE DEF t
  <2>2. SameSerials(t, Checked(t))
    BY <2>1, CheckedSame, Zenon DEF SameSerials
  <2>3. SameSerials(s, Checked(t))
    BY <2>1, <2>2, Zenon DEF SameSerials
  <2> QED BY <2>3, Zenon DEF t
<1>2. AddMint(s, coins, id, b) =
        Checked([s EXCEPT
          !.mintedPubCoins = s.mintedPubCoins @@ [c \in coins |-> [group |-> id, height |-> Height[b]]],
          !.mintMetaInfo = Plus(s.mintMetaInfo, id :> Cardinality(coins))])
  BY Zenon DEF AddMint
<1>3. RemoveMint(s, coins, id) =
        Checked([s EXCEPT !.mintedPubCoins = Without(s.mintedPubCoins, coins),
                          !.mintMetaInfo = Plus(s.mintMetaInfo, id :> (0 - Cardinality(coins)))])
  BY Zenon DEF RemoveMint
<1> QED BY <1>1, <1>2, <1>3, Zenon

\* AddSpend adds the serials and RemoveSpend takes them away.
LEMMA SpendsAdded ==
  ASSUME NEW s, IsState(s), NEW spends, NEW t, t = AddSpend(s, spends)
  PROVE  IsState(t) /\ Used(t) = Used(s) \cup Serials(spends)
<1> DEFINE used == [c \in DOMAIN s.usedCoinSerials \cup {p.coin : p \in spends} |->
                      IF \E p \in spends : p.coin = c
                      THEN (CHOOSE p \in spends : p.coin = c).group ELSE s.usedCoinSerials[c]]
           meta == Plus(s.spendMetaInfo, PerGroup(spends))
           u == [s EXCEPT !.usedCoinSerials = used, !.spendMetaInfo = meta]
<1>1. t = Checked(u)
  BY Zenon DEF AddSpend
<1>2. DOMAIN used = Serials(spends) \cup DOMAIN s.usedCoinSerials
  BY Zenon DEF Serials
<1> HIDE DEF used, meta
<1>3. IsState(u) /\ Used(u) = DOMAIN used
  BY Zenon DEF IsState, Used
<1> HIDE DEF u
<1> QED BY <1>1, <1>2, <1>3, CheckedSame, Zenon DEF SameSerials, Used

LEMMA SpendsRemoved ==
  ASSUME NEW s, IsState(s), NEW spends, NEW t, t = RemoveSpend(s, spends)
  PROVE  IsState(t) /\ Used(t) = Used(s) \ Serials(spends)
<1> DEFINE used == Without(s.usedCoinSerials, {p.coin : p \in spends})
           meta == Plus(s.spendMetaInfo,
                        [id \in DOMAIN PerGroup(spends) |-> 0 - PerGroup(spends)[id]])
           u == [s EXCEPT !.usedCoinSerials = used, !.spendMetaInfo = meta]
<1>1. t = Checked(u)
  BY Zenon DEF RemoveSpend
<1>2. DOMAIN used = DOMAIN s.usedCoinSerials \ Serials(spends)
  BY Zenon DEF Serials, Without, Restrict
<1> HIDE DEF used, meta
<1>3. IsState(u) /\ Used(u) = DOMAIN used
  BY Zenon DEF IsState, Used
<1> HIDE DEF u
<1> QED BY <1>1, <1>2, <1>3, CheckedSame, Zenon DEF SameSerials, Used

\* The groups of coins change without the serials.
LEMMA GroupsSame ==
  ASSUME NEW s, IsState(s), NEW idx, NEW b, NEW n, NEW id, NEW x
  PROVE  /\ SameSerials(s, OpenGroup(s, b, n, id, x))
         /\ SameSerials(s, JoinGroup(s, b, n, id, x))
         /\ SameSerials(s, ShrinkGroup(s, idx, b, x))
         /\ SameSerials(s, [s EXCEPT !.coinGroups = x])
<1>1. SameSerials(s, [s EXCEPT !.coinGroups = x])
  BY Zenon DEF IsState, SameSerials, Used
<1>2. ASSUME NEW y, NEW l, NEW m
      PROVE  SameSerials(s, [s EXCEPT !.coinGroups = y, !.latestCoinId = l, !.extendedMintMetaInfo = m])
  BY Zenon DEF IsState, SameSerials, Used
<1>3. ASSUME NEW y, NEW l
      PROVE  SameSerials(s, [s EXCEPT !.coinGroups = y, !.latestCoinId = l])
  BY Zenon DEF IsState, SameSerials, Used
<1>4. SameSerials(s, OpenGroup(s, b, n, id, x))
  BY <1>2, Zenon DEF OpenGroup
<1>5. SameSerials(s, JoinGroup(s, b, n, id, x))
  BY <1>3, Zenon DEF JoinGroup
<1>6. SameSerials(s, ShrinkGroup(s, idx, b, x))
  <2>1. ASSUME NEW i, NEW y, NEW z
        PROVE  SameSerials(s, [s EXCEPT !.coinGroups[i].nCoins = y, !.coinGroups[i].lastBlock = z])
    BY Zenon DEF IsState, SameSerials, Used
  <2>2. CASE x
    BY <1>2, <2>2, Zenon DEF ShrinkGroup
  <2>3. CASE ~x
    BY <2>1, <2>3, Zenon DEF ShrinkGroup
  <2> QED BY <2>2, <2>3, Zenon
<1> QED BY <1>1, <1>4, <1>5, <1>6, Zenon

-----------------------------------------------------------------------------
(* ConnectBlockLelantus, AddBlock and RemoveBlock. *)

\* The hash of the anonymity set goes to the entry of b, whose spends stay.
LEMMA HashSame ==
  ASSUME NEW added, NEW b \in Blocks, NEW coins, NEW whole, DOMAIN added.index = Blocks,
         NEW r, r = SetHash(added, b, coins, whole), IsEntry(added.index[b])
  PROVE  /\ r.state = added.state /\ DOMAIN r.index = Blocks
         /\ \A x \in Blocks : x # b => r.index[x] = added.index[x]
         /\ IsEntry(r.index[b]) /\ r.index[b].spent = added.index[b].spent
<1> DEFINE prev == IF Height[b] > nLelantusFixesStartBlock THEN PreviousHash(added, b) ELSE <<>>
<1>1. r = WithSetHash(added, b, coins, whole, prev)
  BY Zenon DEF SetHash
<1> HIDE DEF prev
<1>2. PICK h, k : r = [state |-> added.state,
                    index |-> IF h = <<>> THEN added.index
                              ELSE [added.index EXCEPT ![b].setHash =
                                      [id |-> added.state.latestCoinId, hash |-> h]],
                    ok |-> k]
  BY <1>1, Zenon DEF WithSetHash
<1>3. r.state = added.state
  BY <1>2
<1>4. CASE h = <<>>
  BY <1>2, <1>4
<1>5. CASE h # <<>>
  <2> DEFINE v == [id |-> added.state.latestCoinId, hash |-> h]
  <2>1. r.index = [added.index EXCEPT ![b].setHash = v]
    BY <1>2, <1>5
  <2> HIDE DEF v
  <2>2. DOMAIN r.index = Blocks /\ \A x \in Blocks : x # b => r.index[x] = added.index[x]
    BY <2>1, Zenon
  <2>3. r.index[b] = [added.index[b] EXCEPT !.setHash = v]
    BY <2>1, Zenon
  <2>4. IsEntry(r.index[b]) /\ r.index[b].spent = added.index[b].spent
    BY <2>3, Zenon DEF IsEntry
  <2> QED BY <1>3, <2>2, <2>4, Zenon
<1> QED BY <1>4, <1>5, Zenon

\* AddMintsToStateAndBlockIndex leaves the serials and the spends of the entry alone.
LEMMA MintsAdded ==
  ASSUME NEW s, IsState(s), NEW idx, DOMAIN idx = Blocks, NEW b \in Blocks, IsEntry(idx[b]),
         NEW coins, NEW r, r = AddMints(s, idx, b, coins)
  PROVE  /\ SameSerials(s, r.state) /\ DOMAIN r.index = Blocks
         /\ \A x \in Blocks : x # b => r.index[x] = idx[x]
         /\ IsEntry(r.index[b]) /\ r.index[b].spent = idx[b].spent
<1>1. CASE coins = {}
  BY <1>1, Zenon DEF AddMints, SameSerials
<1>2. CASE coins # {}
  <2>1. PICK t, id, k : /\ r = [state |-> AddMint(t, coins, id, b),
                              index |-> [idx EXCEPT ![b].group = id, ![b].coins = coins], ok |-> k]
                        /\ SameSerials(s, t)
    <3> DEFINE latest == Max({1, s.latestCoinId})
               n == Cardinality(coins)
               g == GroupInfo(s, latest)
               u == [s EXCEPT !.coinGroups = (latest :> g) @@ s.coinGroups]
               join == JoinGroup(s, b, n, latest, g)
               open == OpenGroup(u, b, n, latest + 1, CountLastNCoins(s, idx, latest))
    <3>1. r = IF g.nCoins + n <= maxCoinInGroup
              THEN [state |-> AddMint(join, coins, latest, b),
                    index |-> [idx EXCEPT ![b].group = latest, ![b].coins = coins],
                    ok |-> JoinAsserts(b, g)]
              ELSE [state |-> AddMint(open, coins, latest + 1, b),
                    index |-> [idx EXCEPT ![b].group = latest + 1, ![b].coins = coins],
                    ok |-> TRUE]
      BY <1>2, Zenon DEF AddMints, AddMintsToStateAndBlockIndex
    <3>2. SameSerials(s, join)
      BY GroupsSame, Zenon
    <3>3. SameSerials(s, u)
      <4> DEFINE x == (latest :> g) @@ s.coinGroups
      <4> HIDE DEF x
      <4>1. SameSerials(s, [s EXCEPT !.coinGroups = x])
        BY GroupsSame, Zenon
      <4> QED BY <4>1, Zenon DEF x
    <3>4. SameSerials(s, open)
      <4> HIDE DEF u
      <4>1. IsState(u)
        BY <3>3, Zenon DEF SameSerials
      <4>2. SameSerials(u, open)
        BY <4>1, GroupsSame, Zenon
      <4> QED BY <3>3, <4>2, Zenon DEF SameSerials
    <3> HIDE DEF join, open, latest, g, n
    <3> QED BY <3>1, <3>2, <3>4, Zenon
  <2>2. SameSerials(s, r.state)
    <3>1. SameSerials(t, AddMint(t, coins, id, b))
      BY <2>1, MintsSame DEF SameSerials
    <3> QED BY <2>1, <3>1 DEF SameSerials
  <2>3. r.index = [idx EXCEPT ![b].group = id, ![b].coins = coins]
    BY <2>1
  <2>4. r.index[b] = [idx[b] EXCEPT !.group = id, !.coins = coins]
    BY <2>3, Zenon
  <2>5. DOMAIN r.index = Blocks /\ \A x \in Blocks : x # b => r.index[x] = idx[x]
    BY <2>3, Zenon
  <2>6. IsEntry(r.index[b]) /\ r.index[b].spent = idx[b].spent
    BY <2>4, Zenon DEF IsEntry
  <2> QED BY <2>2, <2>5, <2>6, Zenon
<1> QED BY <1>1, <1>2, Zenon

\* ConnectBlockLelantus uses the serials of the block and records them in its entry.
Spends(s, idx, b, spends, r) ==
  /\ IsState(r.state) /\ Used(r.state) = Used(s) \cup Serials(spends)
  /\ DOMAIN r.index = Blocks
  /\ \A y \in Blocks : y # b => r.index[y] = idx[y]
  /\ r.index[b].spent = spends

LEMMA Connected ==
  ASSUME NEW s, IsState(s), NEW idx, DOMAIN idx = Blocks, NEW b \in Blocks, NEW x
  PROVE  Spends(s, idx, b, x.spends, ConnectBlockLelantus(s, idx, b, x))
<1> DEFINE t == AddSpend(s, x.spends)
           entry == [NoEntry EXCEPT !.spent = x.spends]
           i == [idx EXCEPT ![b] = entry]
           added == AddMints(t, i, b, x.mints)
           whole == IF Height[b] = nLelantusFixesStartBlock THEN <<GetAnonymitySet(s, idx, 1)>> ELSE <<>>
           r == ConnectBlockLelantus(s, idx, b, x)
<1>1. r = SetHash(added, b, x.mints, whole)
  BY Zenon DEF ConnectBlockLelantus
<1>2. IsState(t) /\ Used(t) = Used(s) \cup Serials(x.spends)
  BY SpendsAdded, Zenon
<1>3. IsEntry(entry) /\ entry.spent = x.spends
  BY Zenon DEF IsEntry, NoEntry
<1> HIDE DEF t, entry
<1>4. DOMAIN i = Blocks /\ i[b] = entry /\ \A y \in Blocks : y # b => i[y] = idx[y]
  OBVIOUS
<1> HIDE DEF i
<1>5. /\ SameSerials(t, added.state) /\ DOMAIN added.index = Blocks
      /\ \A y \in Blocks : y # b => added.index[y] = i[y]
      /\ IsEntry(added.index[b]) /\ added.index[b].spent = i[b].spent
  BY <1>2, <1>3, <1>4, MintsAdded
<1> HIDE DEF added, whole, r
<1>6. /\ r.state = added.state /\ DOMAIN r.index = Blocks
      /\ \A y \in Blocks : y # b => r.index[y] = added.index[y]
      /\ IsEntry(r.index[b]) /\ r.index[b].spent = added.index[b].spent
  BY <1>1, <1>5, HashSame
<1>7. Spends(s, idx, b, x.spends, r)
  BY <1>2, <1>3, <1>4, <1>5, <1>6, Zenon DEF SameSerials, Spends
<1> QED BY <1>7, Zenon DEF r

\* AddBlock uses the serials in the entry of b.
LEMMA BlockAdded ==
  ASSUME NEW s, IsState(s), NEW idx, NEW b, NEW t, t = AddBlock(s, idx, b)
  PROVE  IsState(t) /\ Used(t) = Used(s) \cup Serials(idx[b].spent)
<1> DEFINE id == idx[b].group
           n == Cardinality(idx[b].coins)
           join == JoinGroup(s, b, n, id, GroupInfo(s, id))
           open == OpenGroup(s, b, n, id, CountLastNCoins(s, idx, id - 1))
           grouped == IF id = 1 \/ id \in DOMAIN s.coinGroups THEN join ELSE open
           u == IF n = 0 THEN s ELSE AddMint(grouped, idx[b].coins, id, b)
<1>1. t = AddSpend(u, idx[b].spent)
  BY Zenon DEF AddBlock
<1>2. SameSerials(s, join) /\ SameSerials(s, open)
  BY GroupsSame, Zenon
<1> HIDE DEF join, open, n
<1>3. SameSerials(s, grouped)
  BY <1>2, Zenon
<1> HIDE DEF grouped
<1>4. SameSerials(grouped, AddMint(grouped, idx[b].coins, id, b))
  BY <1>3, MintsSame DEF SameSerials
<1>5. SameSerials(s, u)
  BY <1>3, <1>4, Zenon DEF SameSerials
<1> HIDE DEF u
<1> QED BY <1>1, <1>5, SpendsAdded, Zenon DEF SameSerials

\* RemoveBlock frees the serials in the entry of b, unless an assert ends the process.
Frees(s, idx, b, t) ==
  /\ IsState(t)
  /\ idx[b].coins = {} \/ RemoveAsserts(s, idx, b) => Used(t) = Used(s) \ Serials(idx[b].spent)

LEMMA BlockRemoved ==
  ASSUME NEW s, IsState(s), NEW idx, NEW b
  PROVE  Frees(s, idx, b, RemoveBlock(s, idx, b))
<1> DEFINE u == ShrinkGroup(s, idx, b, IsEdgedBlock(s, idx, b))
           v == RemoveMint(u, idx[b].coins, idx[b].group)
<1>1. PICK t : t = RemoveBlock(s, idx, b)
  OBVIOUS
<1>2. CASE idx[b].coins = {}
  <2>1. t = RemoveSpend(s, idx[b].spent)
    BY <1>1, <1>2, Zenon DEF RemoveBlock
  <2>2. IsState(t) /\ Used(t) = Used(s) \ Serials(idx[b].spent)
    BY <2>1, SpendsRemoved, Zenon
  <2> QED BY <1>1, <2>2, Zenon DEF Frees
<1>3. CASE idx[b].coins # {} /\ RemoveAsserts(s, idx, b)
  <2>1. t = RemoveSpend(v, idx[b].spent)
    BY <1>1, <1>3, Zenon DEF RemoveBlock
  <2>2. SameSerials(s, u)
    BY GroupsSame, Zenon
  <2> HIDE DEF u
  <2>3. SameSerials(u, v)
    BY <2>2, MintsSame, Zenon DEF SameSerials
  <2> HIDE DEF v
  <2>4. IsState(v) /\ Used(v) = Used(s)
    BY <2>2, <2>3, Zenon DEF SameSerials
  <2>5. IsState(t) /\ Used(t) = Used(s) \ Serials(idx[b].spent)
    BY <2>1, <2>4, SpendsRemoved, Zenon
  <2> QED BY <1>1, <2>5, Zenon DEF Frees
<1>4. CASE idx[b].coins # {} /\ ~RemoveAsserts(s, idx, b)
  <2>1. t = s
    BY <1>1, <1>4, Zenon DEF RemoveBlock
  <2> QED BY <1>1, <1>4, <2>1, Zenon DEF Frees
<1> QED BY <1>2, <1>3, <1>4, Zenon

-----------------------------------------------------------------------------
(* BuildLelantusStateFromIndex. *)

\* The recursion is well defined: one state for every block.
LEMMA Recursion ==
  ASSUME NEW idx
  PROVE  \E f : f = [x \in Blocks |->
                       AddBlock(IF x = Genesis THEN EmptyState ELSE f[Parent[x]], idx, x)]
<1> DEFINE Prior(g, x) == IF x = Genesis THEN EmptyState ELSE g[Parent[x]]
           Step(s, x) == AddBlock(s, idx, x)
           Solves(g, x) == DOMAIN g = Ancestry[x]
                             /\ \A a \in Ancestry[x] : g[a] = Step(Prior(g, a), a)
           G(x) == CHOOSE g : Solves(g, x)
           f == [x \in Blocks |-> G(x)[x]]
<1> HIDE DEF Step
<1>1. \A x \in Blocks : \E g : Solves(g, x)
  <2> DEFINE S == {x \in Blocks : \E g : Solves(g, x)}
  <2>1. Genesis \in S
    <3> DEFINE g == [a \in Ancestry[Genesis] |-> Step(EmptyState, a)]
    <3>1. Solves(g, Genesis)
      BY BlockTree, Zenon
    <3> QED BY <3>1, BlockTree, Zenon
  <2>2. ASSUME NEW b \in Blocks \ {Genesis}, Parent[b] \in S PROVE b \in S
    <3>1. PICK g : Solves(g, Parent[b])
      BY <2>2, Zenon
    <3> DEFINE h == [a \in Ancestry[b] |-> IF a = b THEN Step(g[Parent[b]], b) ELSE g[a]]
    <3>2. /\ Parent[b] \in Blocks /\ Ancestry[b] = {b} \cup Ancestry[Parent[b]]
          /\ b \notin Ancestry[Parent[b]] /\ Parent[b] \in Ancestry[Parent[b]]
      BY BlockTree, Tree, Zenon
    <3>3. \A a \in Ancestry[Parent[b]] : a \in Blocks /\ (a # Genesis => Parent[a] \in Ancestry[Parent[b]])
      <4>1. ASSUME NEW a \in Ancestry[Parent[b]], a # Genesis PROVE Parent[a] \in Ancestry[Parent[b]]
        <5>1. a \in Blocks /\ Ancestry[a] \subseteq Ancestry[Parent[b]]
          BY <3>2, Tree, Zenon
        <5>2. Parent[a] \in Ancestry[a]
          BY <4>1, <5>1, BlockTree, Tree
        <5> QED BY <5>1, <5>2, Zenon
      <4> QED BY <3>2, <4>1, Tree, Zenon
    <3>4. \A a \in Ancestry[Parent[b]] : h[a] = g[a] /\ Prior(h, a) = Prior(g, a)
      BY <3>2, <3>3, Zenon
    <3>5. Prior(h, b) = g[Parent[b]] /\ h[b] = Step(g[Parent[b]], b) /\ DOMAIN h = Ancestry[b]
      BY <3>2, Zenon
    <3> HIDE DEF h
    <3>6. \A a \in Ancestry[Parent[b]] : h[a] = Step(Prior(h, a), a)
      BY <3>1, <3>4, Zenon
    <3> HIDE DEF Prior
    <3>7. Solves(h, b)
      BY <3>2, <3>5, <3>6, Zenon
    <3> QED BY <3>7, Zenon
  <2>3. Blocks \subseteq S
    BY <2>1, <2>2, TreeInduction, Zenon
  <2> QED BY <2>3, Zenon
<1>2. \A a \in Blocks : \A x, y \in Blocks : \A g, h :
        Solves(g, x) /\ Solves(h, y) /\ a \in Ancestry[x] /\ a \in Ancestry[y] => g[a] = h[a]
  <2> DEFINE S == {a \in Blocks : \A x, y \in Blocks : \A g, h :
                     Solves(g, x) /\ Solves(h, y) /\ a \in Ancestry[x] /\ a \in Ancestry[y]
                       => g[a] = h[a]}
  <2>1. Genesis \in S
    BY BlockTree, Zenon
  <2>2. ASSUME NEW b \in Blocks \ {Genesis}, Parent[b] \in S PROVE b \in S
    <3>1. SUFFICES ASSUME NEW x \in Blocks, NEW y \in Blocks, NEW g, NEW h, Solves(g, x), Solves(h, y),
                          b \in Ancestry[x], b \in Ancestry[y]
                   PROVE  g[b] = h[b]
      OBVIOUS
    <3>2. Parent[b] \in Blocks /\ Parent[b] \in Ancestry[b]
      BY BlockTree, Tree
    <3>3. Parent[b] \in Ancestry[x] /\ Parent[b] \in Ancestry[y]
      BY <3>1, <3>2, Tree, Zenon
    <3>4. g[Parent[b]] = h[Parent[b]]
      BY <2>2, <3>1, <3>3
    <3>5. g[b] = Step(g[Parent[b]], b) /\ h[b] = Step(h[Parent[b]], b)
      BY <3>1, Zenon
    <3> QED BY <3>4, <3>5, Zenon
  <2>3. Blocks \subseteq S
    BY <2>1, <2>2, TreeInduction, Zenon
  <2> QED BY <2>3, Zenon
<1>3. \A x \in Blocks : Solves(G(x), x)
  BY <1>1, Zenon
<1>4. ASSUME NEW x \in Blocks PROVE f[x] = Step(Prior(f, x), x)
  <2>1. f[x] = G(x)[x] /\ x \in Ancestry[x]
    BY Tree, Zenon
  <2>2. G(x)[x] = Step(Prior(G(x), x), x)
    BY <1>3, <2>1, Zenon
  <2>3. CASE x = Genesis
    BY <2>1, <2>2, <2>3, Zenon
  <2>4. CASE x # Genesis
    <3>1. Parent[x] \in Blocks /\ Parent[x] \in Ancestry[x] /\ Parent[x] \in Ancestry[Parent[x]]
      BY <2>4, BlockTree, Tree
    <3>2. f[Parent[x]] = G(Parent[x])[Parent[x]]
      BY <3>1, Zenon
    <3> HIDE DEF G, Solves
    <3>3. G(x)[Parent[x]] = G(Parent[x])[Parent[x]]
      BY <1>2, <1>3, <3>1
    <3> HIDE DEF f
    <3> QED BY <2>1, <2>2, <2>4, <3>2, <3>3, Zenon
  <2> QED BY <2>3, <2>4, Zenon
<1>5. f = [x \in Blocks |-> f[x]]
  OBVIOUS
<1> HIDE DEF f, G, Solves
<1>6. f = [x \in Blocks |-> Step(Prior(f, x), x)]
  BY <1>4, <1>5, Zenon
<1> QED BY <1>6, Zenon DEF Step

\* The rebuilt state uses the serials in the entries of the chain of b, and no other.
LEMMA Rebuilt ==
  ASSUME NEW idx, NEW b \in Blocks, NEW s, s = BuildLelantusStateFromIndex(idx, b)
  PROVE  IsState(s) /\ Used(s) = UNION {Serials(idx[a].spent) : a \in Ancestry[b]}
<1> DEFINE Step(t, x) == AddBlock(t, idx, x)
           f == CHOOSE f : f = [x \in Blocks |->
                  AddBlock(IF x = Genesis THEN EmptyState ELSE f[Parent[x]], idx, x)]
           All(x) == UNION {Serials(idx[a].spent) : a \in Ancestry[x]}
           S == {x \in Blocks : IsState(f[x]) /\ Used(f[x]) = All(x)}
<1>1. s = f[b]
  BY Zenon DEF BuildLelantusStateFromIndex
<1>2. f = [x \in Blocks |-> AddBlock(IF x = Genesis THEN EmptyState ELSE f[Parent[x]], idx, x)]
  BY Recursion, Zenon
<1> HIDE DEF f
<1>3. f = [x \in Blocks |-> Step(IF x = Genesis THEN EmptyState ELSE f[Parent[x]], x)]
  BY <1>2, Zenon
<1>4. \A t, x : IsState(t) => IsState(Step(t, x)) /\ Used(Step(t, x)) = Used(t) \cup Serials(idx[x].spent)
  BY BlockAdded, Zenon
<1> HIDE DEF Step
<1>5. Genesis \in S
  <2>1. IsState(EmptyState) /\ Used(EmptyState) = {}
    BY DEF IsState, Used, EmptyState
  <2>2. f[Genesis] = Step(EmptyState, Genesis)
    BY <1>3, BlockTree, Zenon
  <2>3. All(Genesis) = Serials(idx[Genesis].spent)
    BY BlockTree
  <2> QED BY <1>4, <2>1, <2>2, <2>3, BlockTree
<1>6. ASSUME NEW x \in Blocks \ {Genesis}, Parent[x] \in S PROVE x \in S
  <2>1. f[x] = Step(f[Parent[x]], x)
    BY <1>3, Zenon
  <2>2. All(x) = All(Parent[x]) \cup Serials(idx[x].spent)
    BY BlockTree
  <2> QED BY <1>4, <1>6, <2>1, <2>2, Zenon
<1>7. Blocks \subseteq S
  BY <1>5, <1>6, TreeInduction, Zenon
<1> QED BY <1>1, <1>7, Zenon

-----------------------------------------------------------------------------
(* The invariant. *)

\* The index entries of the active chain have the spends of their blocks, and while
\* the node runs their serials are used.  An assert may end the process with a block
\* half way through; the entries, which the next start reads, are right even then.
SpendInv ==
  /\ body \in Bodies /\ tip \in Blocks
  /\ DOMAIN index = Blocks
  /\ IsState(state)
  /\ \A b \in Ancestry[tip] : index[b].spent = body[b].spends
  /\ Running => \A b \in Ancestry[tip] : Serials(body[b].spends) \subseteq Used(state)
  /\ NoDoubleSpend

\* A child of the tip is not on the active chain.
LEMMA Child ==
  ASSUME NEW b \in Blocks \ {Genesis}, NEW t \in Blocks, Parent[b] = t
  PROVE  b \notin Ancestry[t] /\ Ancestry[b] = {b} \cup Ancestry[t]
  BY BlockTree, Zenon

\* RejectBlock and RejectUsedSerial change the entry of a block off the active chain.
LEMMA RejectStep ==
  ASSUME SpendInv, NEW b \in Blocks, RejectBlock(b) \/ RejectUsedSerial(b)
  PROVE  SpendInv'
<1>1. /\ b \in Blocks \ {Genesis} /\ Parent[b] = tip /\ Running
      /\ UNCHANGED <<body, tip, aborted>>
  BY Zenon DEF RejectBlock, RejectUsedSerial, Admissible, Connectable
<1>2. b \notin Ancestry[tip]
  BY <1>1, Child, Zenon DEF SpendInv
<1>3. DOMAIN index' = Blocks /\ \A x \in Blocks : x # b => index'[x] = index[x]
  BY Zenon DEF RejectBlock, RejectUsedSerial, SpendInv
<1>4. IsState(state') /\ Used(state) \subseteq Used(state')
  <2>1. CASE RejectBlock(b)
    BY <2>1, Zenon DEF RejectBlock, SpendInv
  <2>2. CASE RejectUsedSerial(b)
    <3>1. PICK done : state' = AddSpend(state, done)
      BY <2>2, Zenon DEF RejectUsedSerial
    <3> QED BY <3>1, SpendsAdded DEF SpendInv
  <2> QED BY <2>1, <2>2, Zenon
<1>5. \A x \in Ancestry[tip] : x \in Blocks /\ index'[x] = index[x]
  BY <1>2, <1>3, Tree, Zenon DEF SpendInv
<1>6. NoDoubleSpend'
  BY <1>1, Zenon DEF SpendInv, NoDoubleSpend
<1> QED BY <1>1, <1>3, <1>4, <1>5, <1>6, Zenon DEF SpendInv, Running

\* ConnectTip: the serials of the block were not used, so no block of the active chain
\* spends one of them.
LEMMA ConnectStep ==
  ASSUME SpendInv, NEW b \in Blocks, ConnectTip(b)
  PROVE  SpendInv'
<1>1. /\ b \in Blocks \ {Genesis} /\ Parent[b] = tip /\ Running
      /\ UsedSerials(body[b]) = {} /\ UNCHANGED body
  BY Zenon DEF ConnectTip, Admissible, Connectable
<1>2. b \notin Ancestry[tip] /\ Ancestry[b] = {b} \cup Ancestry[tip]
  BY <1>1, Child, Zenon DEF SpendInv
<1>3. PICK after : /\ after = ConnectBlockLelantus(state, index, b, body[b])
                   /\ state' = after.state /\ index' = after.index /\ aborted' = ~after.ok
                   /\ tip' = IF after.ok /\ b \notin Disallowed THEN b ELSE tip
  BY Zenon DEF ConnectTip
<1>4. /\ IsState(state') /\ Used(state') = Used(state) \cup Serials(body[b].spends)
      /\ DOMAIN index' = Blocks /\ \A y \in Blocks : y # b => index'[y] = index[y]
      /\ index'[b].spent = body[b].spends
  <2>1. IsState(state) /\ DOMAIN index = Blocks
    BY Zenon DEF SpendInv
  <2>2. Spends(state, index, b, body[b].spends, after)
    BY <1>3, <2>1, Connected, Zenon
  <2> QED BY <1>3, <2>2, Zenon DEF Spends, IsState, Used
<1>5. Serials(body[b].spends) \cap Used(state) = {}
  BY <1>1, Zenon DEF UsedSerials, Serials, Used
<1>6. \A x \in Ancestry[b] : x \in Blocks /\ index'[x].spent = body[x].spends
  BY <1>1, <1>2, <1>4, Tree, Zenon DEF SpendInv
<1>7. \A x \in Ancestry[b] : Serials(body[x].spends) \subseteq Used(state')
  BY <1>1, <1>2, <1>4, Zenon DEF SpendInv
<1>8. \A x, y \in Ancestry[b] : x # y => Serials(body[x].spends) \cap Serials(body[y].spends) = {}
  <2>1. \A x, y \in Ancestry[tip] : x # y => Serials(body[x].spends) \cap Serials(body[y].spends) = {}
    BY Zenon DEF SpendInv, NoDoubleSpend, Serials
  <2>2. \A x \in Ancestry[tip] : Serials(body[x].spends) \subseteq Used(state)
    BY <1>1, Zenon DEF SpendInv
  <2> QED BY <1>2, <1>5, <2>1, <2>2, Zenon
<1>9. tip' \in {b, tip} /\ Ancestry[tip'] \subseteq Ancestry[b] /\ tip' \in Blocks
  BY <1>2, <1>3, Zenon DEF SpendInv
<1>10. NoDoubleSpend'
  BY <1>1, <1>8, <1>9, Zenon DEF NoDoubleSpend, Serials
<1> QED BY <1>1, <1>4, <1>6, <1>7, <1>9, <1>10, Zenon DEF SpendInv

\* DisconnectTip frees the serials of the tip, which no other block of the chain has.
LEMMA DisconnectStep ==
  ASSUME SpendInv, DisconnectTip
  PROVE  SpendInv'
<1>1. /\ Running /\ tip # Genesis /\ UNCHANGED <<body, index>>
      /\ state' = RemoveBlock(state, index, tip)
      /\ aborted' = (index[tip].coins # {} /\ ~RemoveAsserts(state, index, tip))
      /\ tip' = IF aborted' THEN tip ELSE Parent[tip]
  BY Zenon DEF DisconnectTip
<1>2. tip \in Blocks \ {Genesis} /\ Parent[tip] \in Blocks /\ tip \in Ancestry[tip]
  BY <1>1, BlockTree, Tree, Zenon DEF SpendInv
<1>3. tip \notin Ancestry[Parent[tip]] /\ Ancestry[tip] = {tip} \cup Ancestry[Parent[tip]]
  BY <1>2, Child, Zenon
<1>4. /\ IsState(state')
      /\ ~aborted' => Used(state') = Used(state) \ Serials(body[tip].spends)
  <2>1. IsState(state) /\ index[tip].spent = body[tip].spends
    BY <1>2, Zenon DEF SpendInv
  <2>2. Frees(state, index, tip, state')
    BY <1>1, <2>1, BlockRemoved, Zenon
  <2>3. ~aborted' => index[tip].coins = {} \/ RemoveAsserts(state, index, tip)
    BY <1>1, Zenon
  <2> QED BY <2>1, <2>2, <2>3, Zenon DEF Frees
<1>5. tip' \in Blocks /\ Ancestry[tip'] \subseteq Ancestry[tip]
  BY <1>1, <1>2, <1>3, Zenon
<1>6. NoDoubleSpend'
  BY <1>1, <1>5, Zenon DEF SpendInv, NoDoubleSpend
<1>7. ASSUME Running', NEW x \in Ancestry[tip'] PROVE Serials(body[x].spends) \subseteq Used(state')
  <2>1. ~aborted' /\ x \in Ancestry[tip] /\ x # tip
    BY <1>1, <1>3, <1>7, Zenon DEF Running
  <2>2. Serials(body[x].spends) \subseteq Used(state)
    BY <1>1, <2>1, Zenon DEF SpendInv
  <2>3. Serials(body[x].spends) \cap Serials(body[tip].spends) = {}
    BY <1>2, <2>1, Zenon DEF SpendInv, NoDoubleSpend, Serials
  <2> QED BY <1>4, <2>1, <2>2, <2>3, Zenon
<1> QED BY <1>1, <1>4, <1>5, <1>6, <1>7, Zenon DEF SpendInv

\* Restart: the rebuilt state has the serials of the entries up to the new tip.
LEMMA RestartStep ==
  ASSUME SpendInv, NEW b \in Blocks, Restart(b)
  PROVE  SpendInv'
<1>1. /\ b \in Ancestry[tip] /\ tip' = b /\ UNCHANGED <<body, index>>
      /\ state' = BuildLelantusStateFromIndex(index, b)
  BY Zenon DEF Restart
<1>2. Ancestry[b] \subseteq Ancestry[tip]
  BY <1>1, Tree, Zenon DEF SpendInv
<1>3. IsState(state') /\ Used(state') = UNION {Serials(index[a].spent) : a \in Ancestry[b]}
  BY <1>1, Rebuilt, Zenon
<1>4. \A x \in Ancestry[b] : Serials(body[x].spends) \subseteq Used(state')
  BY <1>2, <1>3, Zenon DEF SpendInv
<1>5. NoDoubleSpend'
  BY <1>1, <1>2, Zenon DEF SpendInv, NoDoubleSpend
<1> QED BY <1>1, <1>2, <1>3, <1>4, <1>5, Zenon DEF SpendInv

\* No serial is spent by two blocks of the active chain, for any tree and any contents
\* of its blocks, through reorganisations, refused blocks, failed asserts and restarts
\* (CheckLelantusSpendSerial, AddSpend, RemoveSpend, BuildLelantusStateFromIndex).
THEOREM SerialsSpentOnce == Spec => []NoDoubleSpend
<1>1. Init => SpendInv
  <2> SUFFICES ASSUME Init PROVE SpendInv
    OBVIOUS
  <2>1. body \in Bodies /\ tip \in Blocks /\ DOMAIN index = Blocks /\ Ancestry[tip] = {Genesis}
    BY BlockTree, Zenon DEF Init
  <2>2. IsState(state)
    BY Zenon DEF Init, EmptyState, IsState
  <2>3. body[Genesis].spends = {} /\ index[Genesis].spent = {}
    BY LelantusAssumption, BlockTree, Zenon DEF Init, NoEntry
  <2>4. Serials({}) = {}
    BY Zenon DEF Serials
  <2> QED BY <2>1, <2>2, <2>3, <2>4, Zenon DEF SpendInv, NoDoubleSpend
<1>2. SpendInv /\ [Next]_vars => SpendInv'
  <2> SUFFICES ASSUME SpendInv, [Next]_vars PROVE SpendInv'
    OBVIOUS
  <2>1. CASE \E b \in Blocks : RejectBlock(b) \/ RejectUsedSerial(b)
    BY <2>1, RejectStep, Zenon
  <2>2. CASE \E b \in Blocks : ConnectTip(b)
    BY <2>2, ConnectStep, Zenon
  <2>3. CASE \E b \in Blocks : Restart(b)
    BY <2>3, RestartStep, Zenon
  <2>4. CASE DisconnectTip
    BY <2>4, DisconnectStep, Zenon
  <2>5. CASE UNCHANGED vars
    BY <2>5, Zenon DEF SpendInv, vars, NoDoubleSpend, Running
  <2> QED BY <2>1, <2>2, <2>3, <2>4, <2>5, Zenon DEF Next
<1>3. SpendInv => NoDoubleSpend
  BY Zenon DEF SpendInv
<1> QED BY <1>1, <1>2, <1>3, PTL DEF Spec
=============================================================================
