--------------------------- MODULE BlockIndexProofs ---------------------------
(***************************************************************************)
(* Lemmas about the operators of BlockIndex, for any finite block tree:    *)
(* which fields each of them changes, and that it keeps the index linked,  *)
(* its candidates in order and its bookkeeping exact.                      *)
(***************************************************************************)
EXTENDS BlockIndex, FiniteSetTheorems, WellFoundedInduction, TLAPS

(* The tree: what its equations give by induction. *)

\* A function to the naturals has a least value.
LEMMA Least ==
  ASSUME NEW S, S # {}, NEW f \in [S -> Nat]
  PROVE  \E x \in S : \A y \in S : f[x] <= f[y]
<1> DEFINE R == OpToRel(<, Nat)
           T == {f[x] : x \in S}
<1>1. T \subseteq Nat /\ T # {}
  OBVIOUS
<1>2. IsWellFoundedOn(R, Nat)
  BY NatLessThanWellFounded, Zenon
<1> HIDE DEF T, R
<1>3. PICK m \in T : \A y \in T : ~(<<y, m>> \in R)
  BY <1>1, <1>2, WFMin, Zenon
<1>4. \A y \in T : ~(y < m)
  BY <1>1, <1>3, Zenon DEF R, OpToRel
<1>5. PICK x \in S : f[x] = m
  BY Zenon DEF T
<1>6. \A y \in S : f[y] \in T
  BY Zenon DEF T
<1> QED BY <1>4, <1>5, <1>6

\* Induction over the tree: a set of blocks that has Genesis, and every block whose
\* parent it has, has all blocks.
LEMMA TreeInduction ==
  ASSUME NEW S, Genesis \in S, \A b \in Blocks \ {Genesis} : Parent[b] \in S => b \in S
  PROVE  Blocks \subseteq S
<1> DEFINE bad == Blocks \ S
           f == [b \in bad |-> Height[b]]
<1>1. ASSUME bad # {} PROVE FALSE
  <2>1. f \in [bad -> Nat]
    BY BlockTree, Zenon
  <2>2. PICK x \in bad : \A y \in bad : f[x] <= f[y]
    BY <1>1, <2>1, Least, Zenon
  <2>3. x \in Blocks \ {Genesis} /\ Parent[x] \in bad
    BY <2>2, BlockTree, Zenon
  <2>4. Height[x] <= Height[Parent[x]]
    BY <2>2, <2>3, Zenon
  <2> QED BY <2>3, <2>4, BlockTree
<1> QED BY <1>1, Zenon

\* Every block reaches Genesis.
LEMMA FromGenesis == \A b \in Blocks : b \in Ancestry[b] /\ Genesis \in Ancestry[b]
<1> DEFINE S == {b \in Blocks : Genesis \in Ancestry[b]}
<1>1. Genesis \in S /\ \A b \in Blocks \ {Genesis} : Parent[b] \in S => b \in S
  BY BlockTree
<1>2. Blocks \subseteq S
  BY <1>1, TreeInduction, Zenon
<1> QED BY <1>2, BlockTree

\* Ancestors of ancestors are ancestors.
LEMMA Transitive == \A b \in Blocks : \A a \in Ancestry[b] : Ancestry[a] \subseteq Ancestry[b]
<1> DEFINE S == {b \in Blocks : \A a \in Ancestry[b] : Ancestry[a] \subseteq Ancestry[b]}
<1>1. Genesis \in S
  BY BlockTree, Zenon
<1>2. ASSUME NEW b \in Blocks \ {Genesis}, Parent[b] \in S PROVE b \in S
  BY <1>2, BlockTree
<1>3. Blocks \subseteq S
  BY <1>1, <1>2, TreeInduction, Zenon
<1> QED BY <1>3, Zenon

\* Height and work grow along a branch.
LEMMA Growth ==
  \A b \in Blocks : \A a \in Ancestry[b] :
    a = b \/ (Height[a] < Height[b] /\ ChainWork[a] < ChainWork[b])
<1> DEFINE S == {b \in Blocks : \A a \in Ancestry[b] :
                   a = b \/ (Height[a] < Height[b] /\ ChainWork[a] < ChainWork[b])}
<1>1. Genesis \in S
  BY BlockTree, Zenon
<1>2. ASSUME NEW b \in Blocks \ {Genesis}, Parent[b] \in S PROVE b \in S
  <2>1. ASSUME NEW a \in Ancestry[b], a # b
        PROVE  Height[a] < Height[b] /\ ChainWork[a] < ChainWork[b]
    <3>1. a \in Blocks /\ a \in Ancestry[Parent[b]] /\ Parent[b] \in Blocks
      BY <2>1, BlockTree
    <3>2. a = Parent[b] \/ (Height[a] < Height[Parent[b]] /\ ChainWork[a] < ChainWork[Parent[b]])
      BY <1>2, <3>1, Zenon
    <3>3. /\ Height[b] = Height[Parent[b]] + 1 /\ ChainWork[b] > ChainWork[Parent[b]]
          /\ {Height[a], Height[b], Height[Parent[b]]} \subseteq Nat
          /\ {ChainWork[a], ChainWork[b], ChainWork[Parent[b]]} \subseteq Nat
      BY <3>1, BlockTree
    <3> QED BY <3>2, <3>3
  <2> QED BY <2>1, Zenon
<1>3. Blocks \subseteq S
  BY <1>1, <1>2, TreeInduction, Zenon
<1> QED BY <1>3, Zenon

\* The ancestors of a block form one chain.
LEMMA OneChain ==
  \A b \in Blocks : \A a, x \in Ancestry[b] : a \in Ancestry[x] \/ x \in Ancestry[a]
<1> DEFINE S == {b \in Blocks : \A a, x \in Ancestry[b] : a \in Ancestry[x] \/ x \in Ancestry[a]}
<1>1. Genesis \in S
  BY BlockTree, Zenon
<1>2. ASSUME NEW b \in Blocks \ {Genesis}, Parent[b] \in S PROVE b \in S
  BY <1>2, BlockTree
<1>3. Blocks \subseteq S
  BY <1>1, <1>2, TreeInduction, Zenon
<1> QED BY <1>3, Zenon

\* A part of a branch has a lowest and a highest block.
LEMMA Ends ==
  ASSUME NEW b \in Blocks, NEW part \in (SUBSET Ancestry[b]) \ {{}}
  PROVE  \E low, high \in part : \A x \in part : low \in Ancestry[x] /\ x \in Ancestry[high]
<1> DEFINE f == [x \in part |-> Height[x]]
           g == [x \in part |-> Height[b] - Height[x]]
<1>1. \A x \in part : x \in Blocks /\ x \in Ancestry[b] /\ x \in Ancestry[x] /\ Height[x] \in Nat
  BY BlockTree, FromGenesis, Zenon
<1>2. \A x \in part : Height[x] <= Height[b]
  BY <1>1, Growth, BlockTree
<1>3. f \in [part -> Nat] /\ g \in [part -> Nat] /\ part # {}
  BY <1>1, <1>2, BlockTree
<1>4. PICK low \in part : \A x \in part : f[low] <= f[x]
  BY <1>3, Least, Zenon
<1>5. PICK high \in part : \A x \in part : g[high] <= g[x]
  BY <1>3, Least, Zenon
<1>6. \A x \in part : Height[low] <= Height[x] /\ Height[x] <= Height[high]
  BY <1>1, <1>4, <1>5, BlockTree
<1> HIDE DEF f, g
<1>7. ASSUME NEW x \in part PROVE low \in Ancestry[x] /\ x \in Ancestry[high]
  <2>1. low \in Ancestry[x] \/ x \in Ancestry[low]
    BY <1>1, OneChain, Zenon
  <2>2. x \in Ancestry[high] \/ high \in Ancestry[x]
    BY <1>1, OneChain, Zenon
  <2>3. x \in Ancestry[low] => x = low
    BY <1>1, <1>6, Growth
  <2>4. high \in Ancestry[x] => x = high
    BY <1>1, <1>6, Growth
  <2> QED BY <1>1, <2>1, <2>2, <2>3, <2>4, Zenon
<1> QED BY <1>7, Zenon

\* Some block has the most work.
LEMMA MostWork == \E top \in Blocks : \A b \in Blocks : ChainWork[b] <= ChainWork[top]
<1> DEFINE Good(T) == \E top \in T : \A b \in T : ChainWork[b] <= ChainWork[top]
           bad == {T \in SUBSET Blocks : T # {} /\ ~Good(T)}
           f == [T \in bad |-> Cardinality(T)]
<1>1. \A T \in SUBSET Blocks : IsFiniteSet(T) /\ Cardinality(T) \in Nat
  BY BlockTree, FS_Subset, FS_CardinalityType, Zenon
<1>2. ASSUME bad # {} PROVE FALSE
  <2>1. f \in [bad -> Nat]
    BY <1>1, Zenon
  <2>2. PICK T \in bad : \A U \in bad : f[T] <= f[U]
    BY <1>2, <2>1, Least, Zenon
  <2>3. PICK x \in T : TRUE
    OBVIOUS
  <2>4. Cardinality(T \ {x}) = Cardinality(T) - 1
    BY <1>1, <2>3, FS_RemoveElement, Zenon
  <2>5. T \ {x} \notin bad
    <3>1. ASSUME T \ {x} \in bad PROVE FALSE
      <4>1. f[T] <= f[T \ {x}]
        BY <2>2, <3>1, Zenon
      <4>2. f[T] = Cardinality(T) /\ f[T \ {x}] = Cardinality(T \ {x}) /\ Cardinality(T) \in Nat
        BY <1>1, <3>1, Zenon
      <4> QED BY <2>4, <4>1, <4>2
    <3> QED BY <3>1, Zenon
  <2>6. CASE T = {x}
    BY <2>6, BlockTree
  <2>7. CASE T # {x}
    <3>1. PICK top \in T \ {x} : \A b \in T \ {x} : ChainWork[b] <= ChainWork[top]
      BY <2>3, <2>5, <2>7, Zenon
    <3>2. \A b \in T : ChainWork[b] \in Nat
      BY BlockTree, Zenon
    <3>3. ChainWork[x] <= ChainWork[top] \/ ChainWork[top] <= ChainWork[x]
      BY <2>3, <3>1, <3>2
    <3>4. CASE ChainWork[x] <= ChainWork[top]
      BY <3>1, <3>2, <3>4, Zenon
    <3>5. CASE ChainWork[top] <= ChainWork[x]
      <4>1. \A b \in T : ChainWork[b] <= ChainWork[x]
        BY <2>3, <3>1, <3>2, <3>5
      <4> QED BY <2>3, <4>1, Zenon
    <3> QED BY <3>3, <3>4, <3>5, Zenon
  <2> QED BY <2>6, <2>7, Zenon
<1> QED BY <1>2, BlockTree, Zenon

\* The tree as the later proofs use it.
LEMMA AncestryOrder ==
  /\ \A b \in Blocks :
       /\ Genesis \in Ancestry[b]
       /\ \A a \in Ancestry[b] :
            /\ Ancestry[a] \subseteq Ancestry[b]
            /\ a = b \/ ChainWork[a] < ChainWork[b]
            /\ \A x \in Ancestry[b] : a \in Ancestry[x] \/ x \in Ancestry[a]
       /\ \A part \in (SUBSET Ancestry[b]) \ {{}} :
            \E low, high \in part : \A x \in part : low \in Ancestry[x] /\ x \in Ancestry[high]
  /\ \E top \in Blocks : \A b \in Blocks : ChainWork[b] <= ChainWork[top]
  /\ \A S \in SUBSET Blocks : Cardinality(S) \in Nat
<1>1. \A S \in SUBSET Blocks : Cardinality(S) \in Nat
  BY BlockTree, FS_Subset, FS_CardinalityType, Zenon
<1>2. ASSUME NEW b \in Blocks
      PROVE  \A part \in (SUBSET Ancestry[b]) \ {{}} :
               \E low, high \in part : \A x \in part : low \in Ancestry[x] /\ x \in Ancestry[high]
  BY Ends, Zenon
<1> QED BY <1>1, <1>2, FromGenesis, Transitive, Growth, OneChain, MostWork, Zenon

\* A block is an ancestor of itself, and ancestry is an order along which work grows.
LEMMA Tree ==
  ASSUME NEW b \in Blocks
  PROVE  /\ b \in Ancestry[b] /\ Genesis \in Ancestry[b] /\ Ancestry[b] \subseteq Blocks
         /\ \A a \in Ancestry[b] :
              /\ a \in Blocks
              /\ Ancestry[a] \subseteq Ancestry[b]
              /\ ChainWork[a] <= ChainWork[b]
              /\ a # b => ChainWork[a] < ChainWork[b] /\ b \notin Ancestry[a]
              /\ \A x \in Ancestry[b] : a \in Ancestry[x] \/ x \in Ancestry[a]
<1>1. b \in Ancestry[b] /\ Ancestry[b] \subseteq Blocks
  BY BlockTree
<1>2. ASSUME NEW a \in Ancestry[b]
      PROVE  /\ a \in Blocks
             /\ Ancestry[a] \subseteq Ancestry[b]
             /\ a = b \/ ChainWork[a] < ChainWork[b]
             /\ \A x \in Ancestry[b] : a \in Ancestry[x] \/ x \in Ancestry[a]
  BY <1>1, AncestryOrder, Zenon
<1>3. ASSUME NEW a \in Ancestry[b], a # b, b \in Ancestry[a]
      PROVE  FALSE
  <2>1. a \in Blocks /\ ChainWork[a] < ChainWork[b]
    BY <1>2, <1>3, Zenon
  <2>2. ChainWork[b] < ChainWork[a]
    BY <1>3, <2>1, AncestryOrder, Zenon
  <2> QED BY <2>1, <2>2, BlockTree
<1>4. \A a \in Ancestry[b] : ChainWork[a] \in Nat /\ ChainWork[b] \in Nat
  BY <1>2, BlockTree, Zenon
<1> QED BY <1>1, <1>2, <1>3, <1>4, AncestryOrder

\* FindFork is the highest common ancestor.
LEMMA Fork ==
  ASSUME NEW a \in Blocks, NEW b \in Blocks
  PROVE  /\ FindFork(a, b) \in Ancestry[a] \cap Ancestry[b]
         /\ Ancestry[a] \cap Ancestry[b] \subseteq Ancestry[FindFork(a, b)]
<1> DEFINE common == Ancestry[a] \cap Ancestry[b]
<1>1. common \in (SUBSET Ancestry[a]) \ {{}}
  BY Tree, Zenon
<1>2. PICK low, high \in common : \A x \in common : low \in Ancestry[x] /\ x \in Ancestry[high]
  BY <1>1, AncestryOrder, Zenon
<1> QED BY <1>2, Zenon DEF FindFork, Descends

LEMMA ForkUnique ==
  ASSUME NEW a \in Blocks, NEW b \in Blocks, NEW f \in Ancestry[a] \cap Ancestry[b],
         Ancestry[a] \cap Ancestry[b] \subseteq Ancestry[f]
  PROVE  FindFork(a, b) = f
<1>1. /\ FindFork(a, b) \in Ancestry[a] \cap Ancestry[b]
      /\ f \in Ancestry[FindFork(a, b)]
      /\ FindFork(a, b) \in Ancestry[f]
  BY Fork, Zenon
<1>2. f \in Blocks
  BY Tree, Zenon
<1> QED BY <1>1, <1>2, Tree, Zenon

\* A block off the chain of a has an ancestor that is the child of the fork.
LEMMA ChildOfFork ==
  ASSUME NEW a \in Blocks, NEW m \in Blocks, m \notin Ancestry[a]
  PROVE  \E z \in Ancestry[m] \ Ancestry[a] : z # Genesis /\ Parent[z] = FindFork(a, m)
<1> DEFINE f == FindFork(a, m)
           off == Ancestry[m] \ Ancestry[a]
<1>1. off \in (SUBSET Ancestry[m]) \ {{}}
  BY Tree, Zenon
<1>2. PICK z, high \in off : \A x \in off : z \in Ancestry[x] /\ x \in Ancestry[high]
  BY <1>1, AncestryOrder, Zenon
<1>3. z \in Blocks /\ z # Genesis /\ z \in Ancestry[m] /\ z \notin Ancestry[a]
  BY <1>2, Tree, Zenon
<1>4. /\ Parent[z] \in Blocks /\ Parent[z] \in Ancestry[z] /\ Ancestry[z] = {z} \cup Ancestry[Parent[z]]
      /\ z \notin Ancestry[Parent[z]]
  BY <1>3, BlockTree, Tree
<1>5. Parent[z] \in Ancestry[m]
  BY <1>3, <1>4, Tree, Zenon
<1>6. Parent[z] \in Ancestry[a]
  BY <1>2, <1>4, <1>5, Zenon
<1>7. f \in Ancestry[a] /\ f \in Ancestry[m] /\ f \in Blocks /\ Parent[z] \in Ancestry[f]
  BY <1>5, <1>6, Fork, Tree, Zenon
<1>8. z \notin Ancestry[f]
  BY <1>3, <1>7, Tree, Zenon
<1>9. f \in Ancestry[z]
  BY <1>3, <1>7, <1>8, Tree, Zenon
<1>10. f \in Ancestry[Parent[z]]
  BY <1>3, <1>4, <1>7, <1>9, Zenon
<1>11. f = Parent[z]
  BY <1>4, <1>7, <1>10, Tree, Zenon
<1> QED BY <1>2, <1>3, <1>11, Zenon

\* Height grows along a branch.
LEMMA HeightOrder ==
  ASSUME NEW b \in Blocks
  PROVE  \A a \in Ancestry[b] : Height[a] <= Height[b] /\ (a # b => Height[a] < Height[b])
<1>1. \A a \in Ancestry[b] : Height[a] \in Nat /\ Height[b] \in Nat
  BY Tree, BlockTree, Zenon
<1> QED BY <1>1, Growth

\* GetAncestor finds a block at every height up to that of b.
LEMMA AtHeight ==
  ASSUME NEW b \in Blocks, NEW h \in Nat, h <= Height[b]
  PROVE  \E a \in Ancestry[b] : Height[a] = h
<1> DEFINE upper == {x \in Ancestry[b] : Height[x] >= h}
<1>1. upper \in (SUBSET Ancestry[b]) \ {{}}
  BY Tree, BlockTree, Zenon
<1>2. PICK z, high \in upper : \A y \in upper : z \in Ancestry[y] /\ y \in Ancestry[high]
  BY <1>1, AncestryOrder, Zenon
<1>3. z \in Blocks /\ z \in Ancestry[b] /\ Height[z] \in Nat /\ Height[z] >= h
  BY <1>2, Tree, BlockTree, Zenon
<1>4. ASSUME Height[z] # h PROVE FALSE
  <2>1. z # Genesis
    BY <1>3, <1>4, BlockTree
  <2>2. /\ Parent[z] \in Blocks /\ Ancestry[z] = {z} \cup Ancestry[Parent[z]]
        /\ z \notin Ancestry[Parent[z]] /\ Height[z] = Height[Parent[z]] + 1
        /\ Height[Parent[z]] \in Nat
    BY <1>3, <2>1, BlockTree, Zenon
  <2>3. Parent[z] \in upper
    BY <1>3, <1>4, <2>2, Tree
  <2> QED BY <1>2, <2>2, <2>3, Zenon
<1> QED BY <1>3, <1>4, Zenon

\* Blocks of one branch have different heights.
LEMMA HeightsDiffer ==
  ASSUME NEW b \in Blocks, NEW x \in Ancestry[b], NEW y \in Ancestry[b], x # y
  PROVE  Height[x] < Height[y] \/ Height[y] < Height[x]
<1>1. x \in Blocks /\ y \in Blocks /\ (x \in Ancestry[y] \/ y \in Ancestry[x])
  BY Tree, Zenon
<1> QED BY <1>1, HeightOrder, Zenon

\* CBlockIndexWorkComparator is a total order.
LEMMA WorkOrder ==
  ASSUME NEW c, c.sequenceId \in [Blocks -> Int], NEW x \in Blocks, NEW y \in Blocks, NEW z \in Blocks
  PROVE  /\ ~WorkLess(c, x, x)
         /\ WorkLess(c, x, y) => ~WorkLess(c, y, x)
         /\ ~WorkLess(c, x, y) /\ ~WorkLess(c, y, z) => ~WorkLess(c, x, z)
         /\ x = y \/ WorkLess(c, x, y) \/ WorkLess(c, y, x)
         /\ ~WorkLess(c, x, y) => ChainWork[x] >= ChainWork[y]
         /\ ChainWork[x] > ChainWork[y] => ~WorkLess(c, x, y)
<1>1. /\ ChainWork[x] \in Nat /\ ChainWork[y] \in Nat /\ ChainWork[z] \in Nat
      /\ Address[x] \in Nat /\ Address[y] \in Nat /\ Address[z] \in Nat
      /\ c.sequenceId[x] \in Int /\ c.sequenceId[y] \in Int /\ c.sequenceId[z] \in Int
      /\ Address[x] = Address[y] => x = y
  BY BlockTree, Zenon
<1> QED BY <1>1 DEF WorkLess

-----------------------------------------------------------------------------
(* What every operation keeps, whoever calls it. *)

\* The index is well formed; the tip and the candidates are linked and no candidate
\* has less work than the tip; blocks are linked from Genesis upwards, and none of
\* them waits in mapBlocksUnlinked.
LinkedIndex(c) ==
  /\ IndexOK(c)
  /\ c.tip \in c.chainTx
  /\ \A b \in c.chainTx : Ancestry[b] \subseteq c.chainTx
  /\ Waiting(c) \cap c.chainTx = {}
  /\ c.candidates \subseteq c.chainTx
  /\ \A b \in c.candidates : ChainWork[b] >= ChainWork[c.tip]

\* No candidate sorts before the tip.
Ordered(c) == \A b \in c.candidates : ~WorkLess(c, b, c.tip)

LEMMA HeaderFields ==
  ASSUME NEW c \in IndexType, NEW b \in Blocks
  PROVE  /\ AddToBlockIndex(c, b) \in IndexType
         /\ AddToBlockIndex(c, b).index = c.index \cup {b}
         /\ AddToBlockIndex(c, b).haveData = c.haveData
         /\ AddToBlockIndex(c, b).failedValid = c.failedValid
         /\ AddToBlockIndex(c, b).failedChild = c.failedChild
         /\ AddToBlockIndex(c, b).chainTx = c.chainTx
         /\ AddToBlockIndex(c, b).unlinked = c.unlinked
         /\ AddToBlockIndex(c, b).sequenceId = c.sequenceId
         /\ AddToBlockIndex(c, b).candidates = c.candidates
         /\ AddToBlockIndex(c, b).tip = c.tip
         /\ AddToBlockIndex(c, b).asserted = c.asserted
  BY Zenon DEF AddToBlockIndex, IndexType

\* What ReceivedBlockTransactions links: b and blocks that waited, each together
\* with its ancestors above b.
LEMMA LinkedBlocks ==
  ASSUME NEW c, LinkedIndex(c), NEW b \in Blocks, b \notin c.haveData
  PROVE  /\ b \in LinkedBy(c, b)
         /\ LinkedBy(c, b) \subseteq Waiting(c) \cup {b}
         /\ LinkedBy(c, b) \cap c.chainTx = {}
         /\ LinkedBy(c, b) \subseteq c.haveData \cup {b}
         /\ \A x \in LinkedBy(c, b) : Ancestry[x] \subseteq Ancestry[b] \cup LinkedBy(c, b)
<1>1. b \in LinkedBy(c, b)
  BY Tree, Zenon DEF LinkedBy, Descends
<1>2. ASSUME NEW x \in LinkedBy(c, b), x # b
      PROVE  x \in Waiting(c)
  <2>1. x \in Blocks /\ b \in Ancestry[x] /\ Ancestry[x] \ Ancestry[b] \subseteq Waiting(c)
    BY Zenon DEF LinkedBy, Descends
  <2> QED BY <1>2, <2>1, Tree, Zenon
<1>3. b \notin c.chainTx /\ Waiting(c) \cap c.chainTx = {} /\ Waiting(c) \subseteq c.haveData
  BY Zenon DEF LinkedIndex, IndexOK
<1>4. ASSUME NEW x \in LinkedBy(c, b), NEW y \in Ancestry[x], y \notin Ancestry[b]
      PROVE  y \in LinkedBy(c, b)
  <2>1. x \in Blocks /\ b \in Ancestry[x] /\ Ancestry[x] \ Ancestry[b] \subseteq Waiting(c)
    BY Zenon DEF LinkedBy, Descends
  <2>2. y \in Blocks /\ b \in Ancestry[y] /\ Ancestry[y] \subseteq Ancestry[x]
    BY <1>4, <2>1, Tree, Zenon
  <2> QED BY <2>1, <2>2, Zenon DEF LinkedBy, Descends
<1> QED BY <1>1, <1>2, <1>3, <1>4, Zenon

LEMMA ReceivedFields ==
  ASSUME NEW c, LinkedIndex(c), NEW b \in Blocks, b \notin c.haveData,
         NEW e, e = ReceivedBlockTransactions(c, b)
  PROVE  /\ e \in IndexType
         /\ e.index = c.index
         /\ e.haveData = c.haveData \cup {b}
         /\ e.failedValid = c.failedValid /\ e.failedChild = c.failedChild
         /\ e.tip = c.tip /\ e.asserted = c.asserted
         /\ Parent[b] \in c.chainTx =>
              /\ e.chainTx = c.chainTx \cup LinkedBy(c, b)
              /\ Waiting(e) = Waiting(c) \ LinkedBy(c, b)
              /\ \A x \in Blocks \ LinkedBy(c, b) : e.sequenceId[x] = c.sequenceId[x]
              /\ \A x \in LinkedBy(c, b) : e.sequenceId[x] \in Nat
              /\ e.candidates = c.candidates \cup {x \in LinkedBy(c, b) : ~WorkLess(e, x, c.tip)}
         /\ Parent[b] \notin c.chainTx =>
              /\ e.chainTx = c.chainTx
              /\ e.sequenceId = c.sequenceId
              /\ e.candidates = c.candidates
              /\ Waiting(e) = IF Parent[b] \in Failed(c) THEN Waiting(c) ELSE Waiting(c) \cup {b}
<1> DEFINE linked == LinkedBy(c, b)
           Position(x) == Cardinality({y \in linked : Sooner(c, y, x)})
           siblings == {x \in Waiting(c) : Parent[x] = Parent[b]}
           ids == [x \in Blocks |-> IF x \in linked THEN Cardinality(c.chainTx) + Position(x)
                                                    ELSE c.sequenceId[x]]
           places == [x \in Blocks |-> IF x \in linked THEN 0 ELSE c.unlinked[x]]
           d == [c EXCEPT !.haveData = c.haveData \cup {b}]
           linkedIndex == [d EXCEPT !.chainTx = c.chainTx \cup linked, !.sequenceId = ids,
                                    !.unlinked = places]
<1>1. c \in IndexType /\ linked \subseteq Blocks /\ Waiting(c) \subseteq Blocks
  BY Zenon DEF LinkedIndex, IndexOK, LinkedBy, Waiting
<1>2. \A S \in SUBSET Blocks : Cardinality(S) \in Nat
  BY AncestryOrder, Zenon
<1>3. /\ \A x \in Blocks : Position(x) \in Nat
      /\ Cardinality(siblings) \in Nat /\ Cardinality(c.chainTx) \in Nat
  <2>1. /\ \A x : {y \in linked : Sooner(c, y, x)} \in SUBSET Blocks
        /\ siblings \in SUBSET Blocks /\ c.chainTx \in SUBSET Blocks
    BY <1>1, Zenon DEF IndexType
  <2> HIDE DEF linked, siblings
  <2> QED BY <1>2, <2>1, Zenon
<1>4. c.sequenceId \in [Blocks -> Int] /\ c.unlinked \in [Blocks -> Nat]
  BY <1>1, Zenon DEF IndexType
<1>5. ids \in [Blocks -> Int] /\ places \in [Blocks -> Nat] /\ \A x \in linked : ids[x] \in Nat
  <2> HIDE DEF Position, linked
  <2> QED BY <1>1, <1>3, <1>4
<1>6. /\ d \in IndexType /\ d.haveData = c.haveData \cup {b}
      /\ d.index = c.index /\ d.failedValid = c.failedValid /\ d.failedChild = c.failedChild
      /\ d.tip = c.tip /\ d.asserted = c.asserted /\ d.chainTx = c.chainTx
      /\ d.sequenceId = c.sequenceId /\ d.candidates = c.candidates /\ d.unlinked = c.unlinked
  BY <1>1, Zenon DEF IndexType
<1>7. CASE Parent[b] \in c.chainTx
  <2> HIDE DEF ids, places, linked, d
  <2>1. /\ linkedIndex \in IndexType /\ linkedIndex.haveData = c.haveData \cup {b}
        /\ linkedIndex.index = c.index
        /\ linkedIndex.failedValid = c.failedValid /\ linkedIndex.failedChild = c.failedChild
        /\ linkedIndex.tip = c.tip /\ linkedIndex.asserted = c.asserted
        /\ linkedIndex.chainTx = c.chainTx \cup linked
        /\ linkedIndex.sequenceId = ids /\ linkedIndex.candidates = c.candidates
        /\ linkedIndex.unlinked = places
    BY <1>1, <1>5, <1>6, Zenon DEF IndexType
  <2> DEFINE more == {x \in linked : ~WorkLess(linkedIndex, x, linkedIndex.tip)}
  <2>2. e = [linkedIndex EXCEPT !.candidates = c.candidates \cup more]
    BY <1>6, <1>7, <2>1 DEF ReceivedBlockTransactions, d, ids, places, linked
  <2> HIDE DEF linkedIndex
  <2>3. more \subseteq Blocks
    BY <1>1, Zenon
  <2>4. /\ e \in IndexType /\ e.haveData = c.haveData \cup {b}
        /\ e.index = c.index /\ e.failedValid = c.failedValid /\ e.failedChild = c.failedChild
        /\ e.tip = c.tip /\ e.asserted = c.asserted
        /\ e.chainTx = c.chainTx \cup linked
        /\ e.sequenceId = ids /\ e.candidates = c.candidates \cup more
        /\ e.unlinked = places
    <3> HIDE DEF more
    <3> QED BY <2>1, <2>2, <2>3, Zenon DEF IndexType
  <2>5. more = {x \in linked : ~WorkLess(e, x, c.tip)}
    BY <2>1, <2>4 DEF WorkLess
  <2>6. Waiting(e) = Waiting(c) \ linked
    BY <2>4, Zenon DEF Waiting, places
  <2>7. \A x \in Blocks \ linked : e.sequenceId[x] = c.sequenceId[x]
    BY <2>4, Zenon DEF ids
  <2> QED BY <1>5, <1>7, <2>4, <2>5, <2>6, <2>7, Zenon DEF linked
<1>8. CASE Parent[b] \notin c.chainTx /\ Parent[b] \notin Failed(c)
  <2> HIDE DEF d, siblings
  <2>1. e = [d EXCEPT !.unlinked = [c.unlinked EXCEPT ![b] = Cardinality(siblings) + 1]]
    BY <1>6, <1>8, Zenon DEF ReceivedBlockTransactions, d, siblings
  <2>2. [c.unlinked EXCEPT ![b] = Cardinality(siblings) + 1] \in [Blocks -> Nat]
    BY <1>3, <1>4
  <2>3. /\ e \in IndexType /\ e.haveData = c.haveData \cup {b}
        /\ e.index = c.index /\ e.failedValid = c.failedValid /\ e.failedChild = c.failedChild
        /\ e.tip = c.tip /\ e.asserted = c.asserted /\ e.chainTx = c.chainTx
        /\ e.sequenceId = c.sequenceId /\ e.candidates = c.candidates
        /\ e.unlinked = [c.unlinked EXCEPT ![b] = Cardinality(siblings) + 1]
    BY <1>6, <2>1, <2>2, Zenon DEF IndexType
  <2>4. Waiting(e) = Waiting(c) \cup {b}
    BY <1>3, <1>4, <2>3 DEF Waiting
  <2> QED BY <1>8, <2>3, <2>4, Zenon
<1>9. CASE Parent[b] \notin c.chainTx /\ Parent[b] \in Failed(c)
  <2>1. e = d
    BY <1>9, Zenon DEF ReceivedBlockTransactions
  <2> QED BY <1>6, <1>9, <2>1, Zenon DEF Waiting
<1> QED BY <1>7, <1>8, <1>9, Zenon

\* A header is added below a known parent.
LEMMA HeaderLinked ==
  ASSUME NEW c, LinkedIndex(c), NEW b \in Blocks \ {Genesis}, b \in c.index \/ Parent[b] \in c.index
  PROVE  LinkedIndex(AddToBlockIndex(c, b)) /\ (Ordered(c) => Ordered(AddToBlockIndex(c, b)))
<1> DEFINE d == AddToBlockIndex(c, b)
<1>1. c \in IndexType
  BY Zenon DEF LinkedIndex, IndexOK
<1>2. /\ d \in IndexType /\ d.index = c.index \cup {b} /\ d.haveData = c.haveData
      /\ d.failedValid = c.failedValid /\ d.failedChild = c.failedChild
      /\ d.chainTx = c.chainTx /\ d.unlinked = c.unlinked
      /\ d.sequenceId = c.sequenceId /\ d.candidates = c.candidates /\ d.tip = c.tip
  BY <1>1, HeaderFields, Zenon
<1> HIDE DEF d
<1>3. Failed(d) = Failed(c) /\ Waiting(d) = Waiting(c)
  BY <1>2, Zenon DEF Failed, Waiting
<1>4. \A x \in d.index : Ancestry[x] \subseteq d.index
  BY <1>2, BlockTree DEF LinkedIndex, IndexOK
<1>5. IndexOK(d)
  BY <1>2, <1>3, <1>4, Zenon DEF LinkedIndex, IndexOK
<1> QED BY <1>2, <1>3, <1>5, Zenon DEF LinkedIndex, Ordered, WorkLess, d

\* Data that arrives in any order keeps the index linked.
LEMMA ReceivedLinked ==
  ASSUME NEW c, LinkedIndex(c), NEW b \in c.index, b # Genesis, b \notin c.haveData
  PROVE  /\ LinkedIndex(ReceivedBlockTransactions(c, b))
         /\ Ordered(c) => Ordered(ReceivedBlockTransactions(c, b))
<1> DEFINE e == ReceivedBlockTransactions(c, b)
           linked == LinkedBy(c, b)
<1>1. b \in Blocks /\ c.tip \in Blocks /\ c.sequenceId \in [Blocks -> Int] /\ c.chainTx \subseteq Blocks
  BY Zenon DEF LinkedIndex, IndexOK, IndexType
<1>2. /\ b \in linked /\ linked \subseteq Waiting(c) \cup {b} /\ linked \cap c.chainTx = {}
      /\ linked \subseteq c.haveData \cup {b} /\ linked \subseteq Blocks
      /\ \A x \in linked : Ancestry[x] \subseteq Ancestry[b] \cup linked
  BY <1>1, LinkedBlocks DEF LinkedBy
<1>3. /\ e \in IndexType /\ e.index = c.index /\ e.haveData = c.haveData \cup {b}
      /\ e.failedValid = c.failedValid /\ e.failedChild = c.failedChild
      /\ e.tip = c.tip /\ Failed(e) = Failed(c)
  BY <1>1, ReceivedFields DEF Failed
<1>4. e.sequenceId \in [Blocks -> Int]
  BY <1>3, Zenon DEF IndexType
<1>5. CASE Parent[b] \in c.chainTx
  <2>1. /\ e.chainTx = c.chainTx \cup linked /\ Waiting(e) = Waiting(c) \ linked
        /\ \A x \in Blocks \ linked : e.sequenceId[x] = c.sequenceId[x]
        /\ e.candidates = c.candidates \cup {x \in linked : ~WorkLess(e, x, c.tip)}
    BY <1>1, <1>5, ReceivedFields
  <2> HIDE DEF e, linked
  <2>2. \A x \in e.chainTx : Ancestry[x] \subseteq e.chainTx
    <3>1. Ancestry[b] = {b} \cup Ancestry[Parent[b]] /\ Ancestry[Parent[b]] \subseteq c.chainTx
      BY <1>1, <1>5, BlockTree, Zenon DEF LinkedIndex
    <3> QED BY <1>2, <2>1, <3>1, Zenon DEF LinkedIndex
  <2>3. IndexOK(e)
    BY <1>2, <1>3, <2>1, Zenon DEF LinkedIndex, IndexOK
  <2>4. \A x \in linked : ~WorkLess(e, x, c.tip) => ChainWork[x] >= ChainWork[c.tip]
    BY <1>1, <1>2, <1>4, WorkOrder, Zenon
  <2>5. \A x \in e.candidates : ChainWork[x] >= ChainWork[e.tip]
    BY <1>3, <2>1, <2>4, Zenon DEF LinkedIndex
  <2>6. ASSUME NEW x \in c.candidates
        PROVE  WorkLess(e, x, c.tip) <=> WorkLess(c, x, c.tip)
    <3>1. x \in Blocks \ linked /\ c.tip \in Blocks \ linked
      BY <1>1, <1>2, Zenon DEF LinkedIndex
    <3> QED BY <2>1, <3>1, Zenon DEF WorkLess
  <2>7. LinkedIndex(e)
    BY <1>2, <1>3, <2>1, <2>2, <2>3, <2>5, Zenon DEF LinkedIndex
  <2> QED BY <1>3, <2>1, <2>6, <2>7, Zenon DEF Ordered, e
<1>6. CASE Parent[b] \notin c.chainTx
  <2>1. /\ e.chainTx = c.chainTx /\ e.sequenceId = c.sequenceId /\ e.candidates = c.candidates
        /\ Waiting(e) \subseteq Waiting(c) \cup {b}
    BY <1>1, <1>6, ReceivedFields
  <2>2. b \notin c.chainTx
    BY Zenon DEF LinkedIndex, IndexOK
  <2> HIDE DEF e
  <2>3. IndexOK(e)
    BY <1>3, <2>1, Zenon DEF LinkedIndex, IndexOK
  <2>4. LinkedIndex(e)
    BY <1>3, <2>1, <2>2, <2>3, Zenon DEF LinkedIndex
  <2> QED BY <1>3, <2>1, <2>4, Zenon DEF Ordered, WorkLess, e
<1> QED BY <1>5, <1>6, Zenon

\* Marking and unmarking blocks as failed leaves the links alone.
LEMMA MarkingLinked ==
  ASSUME NEW c, LinkedIndex(c), NEW d \in IndexType, Failed(d) \subseteq c.index,
         d.index = c.index, d.haveData = c.haveData, d.chainTx = c.chainTx,
         d.unlinked = c.unlinked, d.sequenceId = c.sequenceId, d.tip = c.tip,
         d.candidates \subseteq c.chainTx,
         \A b \in d.candidates : ChainWork[b] >= ChainWork[c.tip]
  PROVE  LinkedIndex(d)
<1>1. Waiting(d) = Waiting(c)
  BY Zenon DEF Waiting
<1>2. IndexOK(d)
  BY <1>1, Zenon DEF LinkedIndex, IndexOK
<1> QED BY <1>1, <1>2, Zenon DEF LinkedIndex

\* AcceptBlock, after AcceptBlockHeader has let the header through.
LEMMA AcceptLinked ==
  ASSUME NEW c, LinkedIndex(c), NEW b \in Blocks \ {Genesis}, HeaderAcceptable(c, b), NEW f
  PROVE  LinkedIndex(AcceptBlock(c, b, f)[1]) /\ (Ordered(c) => Ordered(AcceptBlock(c, b, f)[1]))
<1> DEFINE d == AddToBlockIndex(c, b)
           bad == [d EXCEPT !.failedValid = d.failedValid \cup {b}]
<1>1. LinkedIndex(d) /\ (Ordered(c) => Ordered(d)) /\ b \in d.index
  BY HeaderLinked, HeaderFields DEF HeaderAcceptable, LinkedIndex, IndexOK
<1>2. b \notin d.haveData => /\ LinkedIndex(ReceivedBlockTransactions(d, b))
                             /\ Ordered(d) => Ordered(ReceivedBlockTransactions(d, b))
  BY <1>1, ReceivedLinked, Zenon
<1> HIDE DEF d
<1>3. /\ bad \in IndexType /\ bad.index = d.index /\ bad.haveData = d.haveData
      /\ bad.chainTx = d.chainTx /\ bad.unlinked = d.unlinked /\ bad.sequenceId = d.sequenceId
      /\ bad.tip = d.tip /\ bad.candidates = d.candidates
      /\ bad.failedValid = d.failedValid \cup {b} /\ bad.failedChild = d.failedChild
  BY <1>1, Zenon DEF LinkedIndex, IndexOK, IndexType
<1> HIDE DEF bad
<1>4. Failed(bad) \subseteq d.index
  BY <1>1, <1>3, Zenon DEF Failed, LinkedIndex, IndexOK
<1>5. LinkedIndex(bad)
  BY <1>1, <1>3, <1>4, MarkingLinked, Zenon DEF LinkedIndex
<1>6. Ordered(d) => Ordered(bad)
  BY <1>3, Zenon DEF Ordered, WorkLess
<1> QED BY <1>1, <1>2, <1>5, <1>6, Zenon DEF AcceptBlock, d, bad

\* The blocks InvalidateBlock disconnects.
Walked(c, b) == {x \in Ancestry[c.tip] : b \in Ancestry[x]}

LEMMA InvalidateFields ==
  ASSUME NEW c \in IndexType, NEW b \in Blocks \ {Genesis}, NEW e, e = InvalidateBlock(c, b)
  PROVE  /\ e \in IndexType
         /\ e.index = c.index /\ e.haveData = c.haveData /\ e.chainTx = c.chainTx
         /\ e.unlinked = c.unlinked /\ e.sequenceId = c.sequenceId /\ e.asserted = c.asserted
         /\ e.failedValid = c.failedValid \cup {b} /\ e.failedChild = c.failedChild \cup Walked(c, b)
         /\ e.tip = IF b \in Ancestry[c.tip] THEN Parent[b] ELSE c.tip
         /\ e.candidates = (c.candidates \ ({b} \cup Walked(c, b))) \cup
                             {x \in c.chainTx : IsValid(e, x) /\ ~WorkLess(e, x, e.tip)}
<1> DEFINE tip == IF b \in Ancestry[c.tip] THEN Parent[b] ELSE c.tip
           d == [c EXCEPT !.failedValid = c.failedValid \cup {b},
                          !.failedChild = c.failedChild \cup Walked(c, b),
                          !.candidates = c.candidates \ ({b} \cup Walked(c, b)),
                          !.tip = tip]
           more == {x \in d.chainTx : IsValid(d, x) /\ ~WorkLess(d, x, d.tip)}
<1>1. c.tip \in Blocks /\ tip \in Blocks /\ Walked(c, b) \subseteq Blocks
  BY BlockTree, Tree, Zenon DEF IndexType, Walked
<1> HIDE DEF tip
<1>2. /\ d \in IndexType
      /\ d.index = c.index /\ d.haveData = c.haveData /\ d.chainTx = c.chainTx
      /\ d.unlinked = c.unlinked /\ d.sequenceId = c.sequenceId /\ d.asserted = c.asserted
      /\ d.failedValid = c.failedValid \cup {b} /\ d.failedChild = c.failedChild \cup Walked(c, b)
      /\ d.tip = tip /\ d.candidates = c.candidates \ ({b} \cup Walked(c, b))
  BY <1>1, Zenon DEF IndexType
<1>3. e = [d EXCEPT !.candidates = d.candidates \cup more]
  BY Zenon DEF InvalidateBlock, Descends, InActiveChain, tip, Walked
<1> HIDE DEF d
<1>4. more \subseteq Blocks
  BY <1>2, Zenon DEF IndexType
<1>5. /\ e \in IndexType
      /\ e.index = c.index /\ e.haveData = c.haveData /\ e.chainTx = c.chainTx
      /\ e.unlinked = c.unlinked /\ e.sequenceId = c.sequenceId /\ e.asserted = c.asserted
      /\ e.failedValid = c.failedValid \cup {b} /\ e.failedChild = c.failedChild \cup Walked(c, b)
      /\ e.tip = tip /\ e.candidates = d.candidates \cup more
  <2> HIDE DEF more
  <2> QED BY <1>2, <1>3, <1>4, Zenon DEF IndexType
<1>6. more = {x \in c.chainTx : IsValid(e, x) /\ ~WorkLess(e, x, e.tip)}
  BY <1>2, <1>5 DEF IsValid, Failed, WorkLess
<1> QED BY <1>2, <1>5, <1>6, Zenon DEF tip

\* InvalidateBlock: the tip goes to the parent of the block if it is active.
LEMMA InvalidateLinked ==
  ASSUME NEW c, LinkedIndex(c), NEW b \in c.index \ {Genesis}
  PROVE  LinkedIndex(InvalidateBlock(c, b)) /\ (Ordered(c) => Ordered(InvalidateBlock(c, b)))
<1> DEFINE e == InvalidateBlock(c, b)
<1>1. /\ c \in IndexType /\ b \in Blocks \ {Genesis} /\ c.tip \in Blocks /\ c.chainTx \subseteq Blocks
      /\ c.sequenceId \in [Blocks -> Int]
  BY Zenon DEF LinkedIndex, IndexOK, IndexType
<1>2. /\ e \in IndexType
      /\ e.index = c.index /\ e.haveData = c.haveData /\ e.chainTx = c.chainTx
      /\ e.unlinked = c.unlinked /\ e.sequenceId = c.sequenceId
      /\ e.failedValid = c.failedValid \cup {b} /\ e.failedChild = c.failedChild \cup Walked(c, b)
      /\ e.tip = IF b \in Ancestry[c.tip] THEN Parent[b] ELSE c.tip
      /\ e.candidates = (c.candidates \ ({b} \cup Walked(c, b))) \cup
                          {x \in c.chainTx : IsValid(e, x) /\ ~WorkLess(e, x, e.tip)}
  BY <1>1, InvalidateFields
<1> HIDE DEF e
<1>3. Walked(c, b) \subseteq Ancestry[c.tip] /\ Ancestry[c.tip] \subseteq c.index
  BY Zenon DEF LinkedIndex, IndexOK, Walked
<1>4. Failed(e) \subseteq c.index
  BY <1>1, <1>2, <1>3, Zenon DEF LinkedIndex, IndexOK, Failed
<1>5. e.tip \in c.chainTx /\ e.tip \in Blocks
  <2>1. CASE b \in Ancestry[c.tip]
    <3>1. Parent[b] \in Blocks /\ Parent[b] \in Ancestry[b] /\ b \in c.chainTx
      BY <1>1, <2>1, BlockTree, Tree DEF LinkedIndex
    <3> QED BY <1>2, <2>1, <3>1, Zenon DEF LinkedIndex
  <2> QED BY <1>1, <1>2, <2>1, Zenon DEF LinkedIndex
<1>6. e.tip = c.tip \/ ChainWork[e.tip] < ChainWork[c.tip]
  <2>1. CASE b \in Ancestry[c.tip]
    <3>1. /\ ChainWork[Parent[b]] < ChainWork[b] /\ ChainWork[b] <= ChainWork[c.tip]
          /\ ChainWork[Parent[b]] \in Nat /\ ChainWork[b] \in Nat /\ ChainWork[c.tip] \in Nat
      BY <1>1, <2>1, BlockTree, Tree, Zenon
    <3> QED BY <1>2, <2>1, <3>1
  <2> QED BY <1>2, <2>1, Zenon
<1>7. Waiting(e) = Waiting(c)
  BY <1>2, Zenon DEF Waiting
<1>8. \A x \in c.chainTx : ChainWork[x] \in Nat /\ ChainWork[c.tip] \in Nat /\ ChainWork[e.tip] \in Nat
  BY <1>1, <1>5, BlockTree, Zenon
<1>9. \A x \in c.chainTx : ~WorkLess(e, x, e.tip) => ChainWork[x] >= ChainWork[e.tip]
  BY <1>1, <1>2, <1>5, WorkOrder, Zenon
<1>10. \A x \in e.candidates : x \in c.chainTx /\ ChainWork[x] >= ChainWork[e.tip]
  BY <1>2, <1>6, <1>8, <1>9 DEF LinkedIndex
<1>11. \A x \in e.index : Ancestry[x] \subseteq e.index
  BY <1>2, Zenon DEF LinkedIndex, IndexOK
<1>12. IndexOK(e)
  BY <1>2, <1>4, <1>5, <1>7, <1>10, <1>11, Zenon DEF LinkedIndex, IndexOK
<1>13. LinkedIndex(e)
  BY <1>2, <1>5, <1>7, <1>10, <1>12, Zenon DEF LinkedIndex
<1>14. ASSUME Ordered(c), NEW x \in c.candidates
       PROVE  ~WorkLess(e, x, e.tip)
  BY <1>2, <1>6, <1>8, <1>14 DEF Ordered, WorkLess, LinkedIndex
<1> QED BY <1>2, <1>13, <1>14, Zenon DEF Ordered, e

\* ResetBlockFailureFlags only adds candidates that sort after the tip.
LEMMA ResetLinked ==
  ASSUME NEW c, LinkedIndex(c), NEW b
  PROVE  /\ LinkedIndex(ResetBlockFailureFlags(c, b))
         /\ Ordered(c) => Ordered(ResetBlockFailureFlags(c, b))
         /\ ResetBlockFailureFlags(c, b).tip = c.tip
         /\ ResetBlockFailureFlags(c, b).chainTx = c.chainTx
         /\ Failed(ResetBlockFailureFlags(c, b)) \subseteq Failed(c)
<1> DEFINE d == ResetBlockFailureFlags(c, b)
           reset == {x \in c.index : ~IsValid(c, x) /\ Descends(x, b)}
           clear == reset \cup Ancestry[b]
           more == {x \in reset \cap c.haveData \cap c.chainTx : WorkLess(c, c.tip, x)}
<1>1. /\ c \in IndexType /\ c.tip \in Blocks /\ c.chainTx \subseteq Blocks
      /\ c.sequenceId \in [Blocks -> Int]
  BY Zenon DEF LinkedIndex, IndexOK, IndexType
<1>2. d = [c EXCEPT !.failedValid = c.failedValid \ clear, !.failedChild = c.failedChild \ clear,
                    !.candidates = c.candidates \cup more]
  BY Zenon DEF ResetBlockFailureFlags
<1>3. more \subseteq c.chainTx /\ \A x \in more : WorkLess(c, c.tip, x)
  OBVIOUS
<1> HIDE DEF d, more, clear
<1>4. /\ d \in IndexType /\ d.index = c.index /\ d.haveData = c.haveData /\ d.chainTx = c.chainTx
      /\ d.unlinked = c.unlinked /\ d.sequenceId = c.sequenceId /\ d.tip = c.tip
      /\ d.candidates = c.candidates \cup more
      /\ d.failedValid \subseteq c.failedValid /\ d.failedChild \subseteq c.failedChild
  BY <1>1, <1>2, <1>3, Zenon DEF IndexType
<1>5. \A x \in more : ~WorkLess(d, x, d.tip) /\ ChainWork[x] >= ChainWork[c.tip]
  <2>1. \A x \in more : ~WorkLess(c, x, c.tip) /\ ChainWork[x] >= ChainWork[c.tip]
    BY <1>1, <1>3, WorkOrder, Zenon
  <2> QED BY <1>4, <2>1, Zenon DEF WorkLess
<1>6. Failed(d) \subseteq Failed(c) /\ Failed(c) \subseteq c.index
  BY <1>4, Zenon DEF Failed, LinkedIndex, IndexOK
<1>7. LinkedIndex(d)
  BY <1>3, <1>4, <1>5, <1>6, MarkingLinked, Zenon DEF LinkedIndex
<1>8. Ordered(c) => Ordered(d)
  BY <1>4, <1>5, Zenon DEF Ordered, WorkLess
<1> QED BY <1>4, <1>6, <1>7, <1>8, Zenon DEF d

LEMMA PruneFields ==
  ASSUME NEW c \in IndexType, NEW d, d = PruneBlockIndexCandidates(c)
  PROVE  /\ d \in IndexType
         /\ d.index = c.index /\ d.haveData = c.haveData /\ d.chainTx = c.chainTx
         /\ d.unlinked = c.unlinked /\ d.sequenceId = c.sequenceId /\ d.tip = c.tip
         /\ d.failedValid = c.failedValid /\ d.failedChild = c.failedChild
         /\ d.candidates = {b \in c.candidates : ~WorkLess(c, b, c.tip)}
         /\ d.asserted = (d.candidates = {})
<1> DEFINE left == {b \in c.candidates : ~WorkLess(c, b, c.tip)}
<1>1. left \subseteq Blocks
  BY Zenon DEF IndexType
<1>2. d = [c EXCEPT !.candidates = left, !.asserted = (left = {})]
  BY Zenon DEF PruneBlockIndexCandidates
<1> HIDE DEF left
<1>3. /\ d \in IndexType
      /\ d.index = c.index /\ d.haveData = c.haveData /\ d.chainTx = c.chainTx
      /\ d.unlinked = c.unlinked /\ d.sequenceId = c.sequenceId /\ d.tip = c.tip
      /\ d.failedValid = c.failedValid /\ d.failedChild = c.failedChild
      /\ d.candidates = left
      /\ d.asserted = (left = {})
  BY <1>1, <1>2, Zenon DEF IndexType
<1> QED BY <1>3, Zenon DEF left

LEMMA PruneLinked ==
  ASSUME NEW c, LinkedIndex(c)
  PROVE  LinkedIndex(PruneBlockIndexCandidates(c)) /\ Ordered(PruneBlockIndexCandidates(c))
<1> DEFINE d == PruneBlockIndexCandidates(c)
<1>1. c \in IndexType
  BY Zenon DEF LinkedIndex, IndexOK
<1>2. /\ d \in IndexType
      /\ d.index = c.index /\ d.haveData = c.haveData /\ d.chainTx = c.chainTx
      /\ d.unlinked = c.unlinked /\ d.sequenceId = c.sequenceId /\ d.tip = c.tip
      /\ d.failedValid = c.failedValid /\ d.failedChild = c.failedChild
      /\ d.candidates = {b \in c.candidates : ~WorkLess(c, b, c.tip)}
  BY <1>1, PruneFields, Zenon
<1> HIDE DEF d
<1>3. Failed(d) \subseteq c.index
  BY <1>2, Zenon DEF Failed, LinkedIndex, IndexOK
<1>4. d.candidates \subseteq c.candidates
  BY <1>2, Zenon
<1>5. LinkedIndex(d)
  BY <1>2, <1>3, <1>4, MarkingLinked, Zenon DEF LinkedIndex
<1>6. Ordered(d)
  BY <1>2, Zenon DEF Ordered, WorkLess
<1> QED BY <1>5, <1>6, Zenon DEF d

LEMMA PreciousFields ==
  ASSUME NEW c \in IndexType, NEW b \in Blocks
  PROVE  \E d \in IndexType :
           /\ d.index = c.index /\ d.haveData = c.haveData /\ d.chainTx = c.chainTx
           /\ d.unlinked = c.unlinked /\ d.tip = c.tip
           /\ d.failedValid = c.failedValid /\ d.failedChild = c.failedChild
           /\ \A x \in Blocks \ {b} : d.sequenceId[x] = c.sequenceId[x]
           /\ \/ /\ PreciousBlock(c, b) = PruneBlockIndexCandidates(d)
                 /\ d.candidates = c.candidates \cup {b} /\ IsValid(c, b) /\ b \in c.chainTx
              \/ /\ PreciousBlock(c, b) = d
                 /\ d.candidates = c.candidates \ {b} /\ ~(IsValid(c, b) /\ b \in c.chainTx)
<1> DEFINE id == IF ChainWork[c.tip] > c.preciousWork THEN -1 ELSE c.reverseId
           ids == [c.sequenceId EXCEPT ![b] = id]
           work == ChainWork[c.tip]
           d == [c EXCEPT !.preciousWork = work, !.candidates = c.candidates \ {b},
                          !.sequenceId = ids, !.reverseId = id - 1]
           e == [d EXCEPT !.candidates = d.candidates \cup {b}]
<1>1. /\ c.reverseId \in Int /\ c.preciousWork \in Nat /\ c.tip \in Blocks
      /\ c.sequenceId \in [Blocks -> Int]
  BY Zenon DEF IndexType
<1>2. work \in Nat /\ id \in Int
  BY <1>1, BlockTree
<1> HIDE DEF id
<1>3. ids \in [Blocks -> Int] /\ \A x \in Blocks \ {b} : ids[x] = c.sequenceId[x]
  BY <1>1, <1>2, Zenon
<1>4. id - 1 \in Int
  BY <1>2
<1>5. d = [c EXCEPT !.preciousWork = work, !.candidates = c.candidates \ {b},
                    !.sequenceId[b] = id, !.reverseId = id - 1]
  BY Zenon DEF IndexType
<1> HIDE DEF ids, work
<1>6. /\ d \in IndexType
      /\ d.index = c.index /\ d.haveData = c.haveData /\ d.chainTx = c.chainTx
      /\ d.unlinked = c.unlinked /\ d.tip = c.tip /\ d.sequenceId = ids
      /\ d.failedValid = c.failedValid /\ d.failedChild = c.failedChild
      /\ d.candidates = c.candidates \ {b}
  BY <1>2, <1>3, <1>4, Zenon DEF IndexType
<1>7. IsValid(d, b) <=> IsValid(c, b)
  BY <1>6, Zenon DEF IsValid, Failed
<1> HIDE DEF d
<1>8. PreciousBlock(c, b) = IF IsValid(d, b) /\ b \in d.chainTx THEN PruneBlockIndexCandidates(e) ELSE d
  <2>1. PreciousBlock(c, b) =
          LET f == [c EXCEPT !.preciousWork = work, !.candidates = c.candidates \ {b},
                             !.sequenceId[b] = id, !.reverseId = id - 1]
          IN  IF IsValid(f, b) /\ b \in f.chainTx
              THEN PruneBlockIndexCandidates([f EXCEPT !.candidates = f.candidates \cup {b}])
              ELSE f
    BY Zenon DEF PreciousBlock, id, work
  <2> QED BY <1>5, <2>1, Zenon
<1>9. /\ e \in IndexType
      /\ e.index = c.index /\ e.haveData = c.haveData /\ e.chainTx = c.chainTx
      /\ e.unlinked = c.unlinked /\ e.tip = c.tip /\ e.sequenceId = ids
      /\ e.failedValid = c.failedValid /\ e.failedChild = c.failedChild
      /\ e.candidates = c.candidates \cup {b}
  BY <1>6, Zenon DEF IndexType
<1> HIDE DEF e
<1> QED BY <1>3, <1>6, <1>7, <1>8, <1>9, Zenon

\* PreciousBlock reorders blocks of equal work, and the tip must be valid for it to
\* keep the candidates in order: a tip that is not is not a candidate again.
LEMMA PreciousLinked ==
  ASSUME NEW c, LinkedIndex(c), NEW b \in Blocks, ChainWork[b] >= ChainWork[c.tip]
  PROVE  /\ LinkedIndex(PreciousBlock(c, b))
         /\ Ordered(c) /\ IsValid(c, c.tip) => Ordered(PreciousBlock(c, b))
         /\ PreciousBlock(c, b).tip = c.tip
         /\ PreciousBlock(c, b).chainTx = c.chainTx
         /\ PreciousBlock(c, b).haveData = c.haveData
         /\ PreciousBlock(c, b).index = c.index
         /\ PreciousBlock(c, b).failedValid = c.failedValid
         /\ PreciousBlock(c, b).failedChild = c.failedChild
         /\ Waiting(PreciousBlock(c, b)) = Waiting(c)
<1>1. /\ c \in IndexType /\ c.tip \in Blocks /\ c.tip \in c.chainTx /\ c.candidates \subseteq Blocks
      /\ c.sequenceId \in [Blocks -> Int]
  BY Zenon DEF LinkedIndex, IndexOK, IndexType
<1>2. PICK d \in IndexType :
        /\ d.index = c.index /\ d.haveData = c.haveData /\ d.chainTx = c.chainTx
        /\ d.unlinked = c.unlinked /\ d.tip = c.tip
        /\ d.failedValid = c.failedValid /\ d.failedChild = c.failedChild
        /\ \A x \in Blocks \ {b} : d.sequenceId[x] = c.sequenceId[x]
        /\ \/ /\ PreciousBlock(c, b) = PruneBlockIndexCandidates(d)
              /\ d.candidates = c.candidates \cup {b} /\ IsValid(c, b) /\ b \in c.chainTx
           \/ /\ PreciousBlock(c, b) = d
              /\ d.candidates = c.candidates \ {b} /\ ~(IsValid(c, b) /\ b \in c.chainTx)
  BY <1>1, PreciousFields, Zenon
<1>3. Failed(d) = Failed(c) /\ Waiting(d) = Waiting(c)
  BY <1>2, Zenon DEF Failed, Waiting
<1>4. d.candidates \subseteq c.chainTx /\ \A x \in d.candidates : ChainWork[x] >= ChainWork[d.tip]
  BY <1>2, Zenon DEF LinkedIndex
<1>5. IndexOK(d)
  BY <1>2, <1>3, <1>4, Zenon DEF LinkedIndex, IndexOK
<1>6. LinkedIndex(d)
  BY <1>2, <1>3, <1>4, <1>5, Zenon DEF LinkedIndex
<1>7. CASE PreciousBlock(c, b) = PruneBlockIndexCandidates(d)
  <2> DEFINE e == PruneBlockIndexCandidates(d)
  <2>1. /\ e.index = d.index /\ e.haveData = d.haveData /\ e.chainTx = d.chainTx
        /\ e.unlinked = d.unlinked /\ e.tip = d.tip
        /\ e.failedValid = d.failedValid /\ e.failedChild = d.failedChild
    BY <1>2, PruneFields, Zenon
  <2>2. Waiting(e) = Waiting(d)
    BY <2>1, Zenon DEF Waiting
  <2> QED BY <1>2, <1>3, <1>6, <1>7, <2>1, <2>2, PruneLinked, Zenon
<1>8. CASE /\ PreciousBlock(c, b) = d
           /\ d.candidates = c.candidates \ {b} /\ ~(IsValid(c, b) /\ b \in c.chainTx)
  <2>1. Ordered(c) /\ IsValid(c, c.tip) => Ordered(d)
    BY <1>1, <1>2, <1>8 DEF Ordered, WorkLess
  <2> QED BY <1>2, <1>3, <1>6, <1>8, <2>1, Zenon
<1> QED BY <1>2, <1>7, <1>8, Zenon

\* The candidates without a failed block on their branch, and the best of them.
UsableCandidates(c) == {b \in c.candidates : Usable(c, b)}

BestCandidates(c) ==
  {b \in UsableCandidates(c) : \A x \in UsableCandidates(c) : ~WorkLess(c, b, x)}

\* FindMostWorkChain: it returns the best usable candidate, keeps every usable one,
\* and marks only blocks above a failed one off the active chain.
LEMMA FindFields ==
  ASSUME NEW c, LinkedIndex(c), NEW f, f = FindMostWorkChain(c)
  PROVE  /\ f.chain \in IndexType
         /\ f.chain.index = c.index /\ f.chain.haveData = c.haveData
         /\ f.chain.chainTx = c.chainTx /\ f.chain.unlinked = c.unlinked
         /\ f.chain.sequenceId = c.sequenceId /\ f.chain.tip = c.tip
         /\ f.chain.failedValid = c.failedValid /\ f.chain.asserted = c.asserted
         /\ c.failedChild \subseteq f.chain.failedChild
         /\ \A x \in f.chain.failedChild \ c.failedChild :
              /\ x \in c.index
              /\ x \notin Ancestry[c.tip]
              /\ \E y \in Ancestry[x] : y \in Failed(c) /\ y \notin Ancestry[c.tip]
         /\ UsableCandidates(c) \subseteq f.chain.candidates
         /\ f.chain.candidates \subseteq c.candidates
         /\ BestCandidates(c) = {} => f.mostWork = NoBlock
         /\ BestCandidates(c) # {} => f.mostWork \in BestCandidates(c)
<1> DEFINE usable  == UsableCandidates(c)
           best    == BestCandidates(c)
           dropped == {b \in c.candidates \ usable : \A x \in best : WorkLess(c, x, b)}
           Above(b, x) == {y \in Branch(c, b) : Descends(y, x)}
           marked  == UNION {{x \in Branch(c, b) : Above(b, x) \cap Failed(c) = {}} : b \in dropped}
           erased  == UNION {{x \in Branch(c, b) : (Above(b, x) \ {x}) \cap Failed(c) = {}}
                               : b \in dropped}
<1>1. /\ c \in IndexType /\ c.tip \in Blocks /\ c.candidates \subseteq Blocks
      /\ c.candidates \subseteq c.index /\ \A x \in c.index : Ancestry[x] \subseteq c.index
  BY Zenon DEF LinkedIndex, IndexOK, IndexType
<1>2. f = [chain |-> [c EXCEPT !.failedChild = c.failedChild \cup marked,
                               !.candidates = c.candidates \ erased],
           mostWork |-> IF best = {} THEN NoBlock ELSE CHOOSE b \in best : TRUE]
  BY Zenon DEF FindMostWorkChain, UsableCandidates, BestCandidates
<1>3. ASSUME NEW b \in dropped
      PROVE  \E y \in Ancestry[b] : y \in Failed(c) /\ y \notin Ancestry[c.tip]
  BY Zenon DEF UsableCandidates, Usable, Branch
<1>4. ASSUME NEW x \in marked
      PROVE  /\ x \in c.index /\ x \in Blocks /\ x \notin Ancestry[c.tip]
             /\ \E y \in Ancestry[x] : y \in Failed(c) /\ y \notin Ancestry[c.tip]
  <2>1. PICK b \in dropped : x \in Branch(c, b) /\ Above(b, x) \cap Failed(c) = {}
    OBVIOUS
  <2>2. PICK y \in Ancestry[b] : y \in Failed(c) /\ y \notin Ancestry[c.tip]
    BY <1>3, Zenon
  <2>3. b \in Blocks /\ b \in c.index /\ x \in Ancestry[b] /\ x \notin Ancestry[c.tip]
    BY <1>1, <2>1, Zenon DEF Branch
  <2>4. ~(x \in Ancestry[y])
    BY <2>1, <2>2, Zenon DEF Branch, Descends
  <2> QED BY <1>1, <2>2, <2>3, <2>4, Tree, Zenon
<1>5. ASSUME NEW x \in usable
      PROVE  x \notin erased
  <2> SUFFICES ASSUME x \in erased PROVE FALSE
    OBVIOUS
  <2>1. PICK b \in dropped : x \in Branch(c, b) /\ (Above(b, x) \ {x}) \cap Failed(c) = {}
    OBVIOUS
  <2>2. PICK y \in Ancestry[b] : y \in Failed(c) /\ y \notin Ancestry[c.tip]
    BY <1>3, Zenon
  <2>3. b \in Blocks /\ x \in Ancestry[b] /\ x \in Blocks
    BY <1>1, <2>1, Zenon DEF Branch, UsableCandidates
  <2>4. x \in Ancestry[y] => x = y
    BY <2>1, <2>2, Zenon DEF Branch, Descends
  <2>5. y \in Ancestry[x]
    BY <2>2, <2>3, <2>4, Tree, Zenon
  <2> QED BY <2>2, <2>5, Zenon DEF UsableCandidates, Usable, Branch
<1>6. marked \subseteq Blocks
  BY <1>4, Zenon
<1>7. usable \subseteq c.candidates
  BY Zenon DEF UsableCandidates
<1> HIDE DEF marked, erased, best, usable
<1>8. /\ f.chain = [c EXCEPT !.failedChild = c.failedChild \cup marked,
                             !.candidates = c.candidates \ erased]
      /\ f.mostWork = IF best = {} THEN NoBlock ELSE CHOOSE b \in best : TRUE
  BY <1>2
<1>9. /\ f.chain \in IndexType
      /\ f.chain.index = c.index /\ f.chain.haveData = c.haveData
      /\ f.chain.chainTx = c.chainTx /\ f.chain.unlinked = c.unlinked
      /\ f.chain.sequenceId = c.sequenceId /\ f.chain.tip = c.tip
      /\ f.chain.failedValid = c.failedValid /\ f.chain.asserted = c.asserted
      /\ f.chain.failedChild = c.failedChild \cup marked
      /\ f.chain.candidates = c.candidates \ erased
  BY <1>1, <1>6, <1>8 DEF IndexType
<1>10. best # {} => f.mostWork \in best
  BY <1>8, Zenon
<1>11. usable \subseteq f.chain.candidates
  BY <1>5, <1>7, <1>9, Zenon
<1>12. \A x \in f.chain.failedChild \ c.failedChild :
         /\ x \in c.index
         /\ x \notin Ancestry[c.tip]
         /\ \E y \in Ancestry[x] : y \in Failed(c) /\ y \notin Ancestry[c.tip]
  BY <1>4, <1>9, Zenon
<1> QED BY <1>8, <1>9, <1>10, <1>11, <1>12, Zenon DEF best, usable

LEMMA FindLinked ==
  ASSUME NEW c, LinkedIndex(c), NEW f, f = FindMostWorkChain(c)
  PROVE  /\ LinkedIndex(f.chain)
         /\ Ordered(c) => Ordered(f.chain)
         /\ f.mostWork # NoBlock => f.mostWork \in f.chain.candidates
<1> DEFINE d == f.chain
<1>1. /\ d \in IndexType
      /\ d.index = c.index /\ d.haveData = c.haveData
      /\ d.chainTx = c.chainTx /\ d.unlinked = c.unlinked
      /\ d.sequenceId = c.sequenceId /\ d.tip = c.tip
      /\ d.failedValid = c.failedValid
      /\ \A x \in d.failedChild \ c.failedChild : x \in c.index
      /\ UsableCandidates(c) \subseteq d.candidates
      /\ d.candidates \subseteq c.candidates
      /\ f.mostWork # NoBlock => f.mostWork \in UsableCandidates(c)
  BY FindFields DEF BestCandidates
<1> HIDE DEF d
<1>2. Failed(d) \subseteq c.index
  BY <1>1, Zenon DEF Failed, LinkedIndex, IndexOK
<1>3. LinkedIndex(d)
  BY <1>1, <1>2, MarkingLinked, Zenon DEF LinkedIndex
<1>4. Ordered(c) => Ordered(d)
  BY <1>1, Zenon DEF Ordered, WorkLess
<1> QED BY <1>1, <1>3, <1>4, Zenon DEF d

\* The blocks a call of ActivateBestChainStep connects, the one that fails, the new tip.
ReachedIn(c, mw, rejected, b) ==
  \A x \in (Ancestry[b] \cap Branch(c, mw)) \ {b} :
    x \notin rejected /\ ChainWork[x] <= ChainWork[c.tip]
ConnectedBy(c, mw, rejected) ==
  {b \in Branch(c, mw) : ReachedIn(c, mw, rejected, b) /\ b \notin rejected}
Failing(c, mw, rejected) ==
  {b \in Branch(c, mw) : ReachedIn(c, mw, rejected, b) /\ b \in rejected}
NewTip(c, mw, rejected) ==
  CHOOSE b \in ConnectedBy(c, mw, rejected) \cup {FindFork(c.tip, mw)} :
    \A x \in ConnectedBy(c, mw, rejected) : Descends(b, x)

\* The new tip is on the way from the fork to mw, and no block that ConnectBlock
\* rejects is between them.
LEMMA StepTip ==
  ASSUME NEW c, c.tip \in Blocks, NEW mw \in Blocks, NEW rejected,
         NEW tip, tip = NewTip(c, mw, rejected)
  PROVE  /\ tip \in Blocks /\ tip \in Ancestry[mw]
         /\ ConnectedBy(c, mw, rejected) = {} => tip = FindFork(c.tip, mw)
         /\ ConnectedBy(c, mw, rejected) # {} => tip \in ConnectedBy(c, mw, rejected)
         /\ FindFork(c.tip, tip) = FindFork(c.tip, mw)
         /\ Ancestry[tip] \cap rejected \subseteq Ancestry[c.tip]
         /\ Failing(c, mw, rejected) \subseteq Ancestry[mw] \ Ancestry[c.tip]
         /\ Failing(c, mw, rejected) \cap Ancestry[tip] = {}
<1> DEFINE connected == ConnectedBy(c, mw, rejected)
           fork == FindFork(c.tip, mw)
<1>1. connected \subseteq Ancestry[mw] \ Ancestry[c.tip]
  BY Zenon DEF ConnectedBy, ReachedIn, Branch
<1>2. fork \in Ancestry[c.tip] \cap Ancestry[mw] /\ Ancestry[c.tip] \cap Ancestry[mw] \subseteq Ancestry[fork]
  BY Fork, Zenon
<1>3. fork \in Blocks /\ Ancestry[fork] \subseteq Ancestry[c.tip]
  BY <1>2, Tree, Zenon
<1>4. CASE connected = {}
  <2>1. tip = fork
    BY <1>4, Zenon DEF NewTip
  <2>2. Ancestry[c.tip] \cap Ancestry[tip] \subseteq Ancestry[fork]
    BY <2>1, Zenon
  <2>3. fork \in Ancestry[fork]
    BY <1>3, Tree, Zenon
  <2>4. FindFork(c.tip, tip) = fork
    BY <1>2, <1>3, <2>1, <2>2, <2>3, ForkUnique, Zenon
  <2>5. Failing(c, mw, rejected) \subseteq Ancestry[mw] \ Ancestry[c.tip]
    BY Zenon DEF Failing, ReachedIn, Branch
  <2> QED BY <1>2, <1>3, <1>4, <2>1, <2>4, <2>5, Zenon
<1>5. CASE connected # {}
  <2>1. connected \in (SUBSET Ancestry[mw]) \ {{}}
    BY <1>1, <1>5, Zenon
  <2>2. \E low, high \in connected : \A x \in connected : low \in Ancestry[x] /\ x \in Ancestry[high]
    <3> HIDE DEF connected
    <3> QED BY <2>1, AncestryOrder, Zenon
  <2>3. /\ tip \in connected \cup {fork}
        /\ \A x \in connected : x \in Ancestry[tip]
    BY <2>2, Zenon DEF NewTip, Descends
  <2>4. tip \in connected
    BY <1>1, <1>3, <1>5, <2>3, Zenon
  <2>5. tip \in Blocks /\ tip \in Ancestry[mw] /\ tip \notin Ancestry[c.tip] /\ Ancestry[tip] \subseteq Ancestry[mw]
    BY <1>1, <2>4, Tree, Zenon
  <2>6. fork \in Ancestry[tip]
    BY <1>2, <1>3, <2>5, Tree
  <2>7. FindFork(c.tip, tip) = fork
    BY <1>2, <2>5, <2>6, ForkUnique, Zenon
  <2>8. ASSUME NEW y \in Ancestry[tip], y \in rejected, y \notin Ancestry[c.tip]
        PROVE  FALSE
    <3>1. y \in Branch(c, mw)
      BY <2>5, <2>8, Zenon DEF Branch
    <3> QED BY <2>4, <2>8, <3>1, Zenon DEF ConnectedBy, ReachedIn
  <2>9. /\ Failing(c, mw, rejected) \subseteq Ancestry[mw] \ Ancestry[c.tip]
        /\ Failing(c, mw, rejected) \subseteq rejected
    BY Zenon DEF Failing, ReachedIn, Branch
  <2> QED BY <1>5, <2>4, <2>5, <2>7, <2>8, <2>9, Zenon
<1> QED BY <1>4, <1>5, Zenon

LEMMA StepFields ==
  ASSUME NEW c \in IndexType, NEW mw \in Blocks, NEW rejected,
         NEW step, step = ActivateBestChainStep(c, mw, rejected),
         NEW tip, tip = NewTip(c, mw, rejected)
  PROVE  /\ step.connected = ConnectedBy(c, mw, rejected)
         /\ step.fInvalidFound = (Failing(c, mw, rejected) # {})
         /\ step.chain \in IndexType
         /\ step.chain.index = c.index /\ step.chain.haveData = c.haveData
         /\ step.chain.chainTx = c.chainTx /\ step.chain.unlinked = c.unlinked
         /\ step.chain.sequenceId = c.sequenceId /\ step.chain.tip = tip
         /\ step.chain.failedValid = c.failedValid \cup Failing(c, mw, rejected)
         /\ step.chain.failedChild = c.failedChild
         /\ ConnectedBy(c, mw, rejected) = {} =>
              /\ step.chain.candidates = c.candidates \ Failing(c, mw, rejected)
              /\ step.chain.asserted = c.asserted
         /\ ConnectedBy(c, mw, rejected) # {} =>
              /\ step.chain.candidates = {b \in c.candidates : ~WorkLess(c, b, tip)}
                                           \ Failing(c, mw, rejected)
              /\ step.chain.asserted <=> \A b \in c.candidates : WorkLess(c, b, tip)
<1> DEFINE connected == ConnectedBy(c, mw, rejected)
           failing == Failing(c, mw, rejected)
           d == [c EXCEPT !.tip = tip]
           e == IF connected = {} THEN d ELSE PruneBlockIndexCandidates(d)
<1>1. tip \in Blocks /\ failing \subseteq Blocks
  BY StepTip, Tree DEF IndexType
<1>2. step = [chain |-> [e EXCEPT !.failedValid = e.failedValid \cup failing,
                                  !.candidates = e.candidates \ failing],
              connected |-> connected, fInvalidFound |-> failing # {}]
  BY DEF ActivateBestChainStep, NewTip, ConnectedBy, Failing, ReachedIn
<1>3. /\ d \in IndexType
      /\ d.index = c.index /\ d.haveData = c.haveData
      /\ d.chainTx = c.chainTx /\ d.unlinked = c.unlinked
      /\ d.sequenceId = c.sequenceId /\ d.tip = tip /\ d.candidates = c.candidates
      /\ d.failedValid = c.failedValid /\ d.failedChild = c.failedChild /\ d.asserted = c.asserted
  BY <1>1, Zenon DEF IndexType
<1> HIDE DEF d, connected, failing
<1>4. /\ e \in IndexType
      /\ e.index = c.index /\ e.haveData = c.haveData
      /\ e.chainTx = c.chainTx /\ e.unlinked = c.unlinked
      /\ e.sequenceId = c.sequenceId /\ e.tip = tip
      /\ e.failedValid = c.failedValid /\ e.failedChild = c.failedChild
      /\ connected = {} => e.candidates = c.candidates /\ e.asserted = c.asserted
      /\ connected # {} => /\ e.candidates = {b \in c.candidates : ~WorkLess(c, b, tip)}
                           /\ e.asserted = (e.candidates = {})
  <2>1. CASE connected = {}
    BY <1>3, <2>1, Zenon
  <2>2. CASE connected # {}
    <3>1. /\ e \in IndexType
          /\ e.index = d.index /\ e.haveData = d.haveData /\ e.chainTx = d.chainTx
          /\ e.unlinked = d.unlinked /\ e.sequenceId = d.sequenceId /\ e.tip = d.tip
          /\ e.failedValid = d.failedValid /\ e.failedChild = d.failedChild
          /\ e.candidates = {b \in d.candidates : ~WorkLess(d, b, d.tip)}
          /\ e.asserted = (e.candidates = {})
      BY <1>3, <2>2, PruneFields
    <3>2. \A b : WorkLess(d, b, d.tip) <=> WorkLess(c, b, tip)
      BY <1>3, Zenon DEF WorkLess
    <3> QED BY <1>3, <2>2, <3>1, <3>2, Zenon
  <2> QED BY <2>1, <2>2, Zenon
<1> HIDE DEF e
<1>5. /\ step.connected = connected /\ step.fInvalidFound = (failing # {})
      /\ step.chain = [e EXCEPT !.failedValid = e.failedValid \cup failing,
                                !.candidates = e.candidates \ failing]
  BY <1>2
<1>6. /\ step.chain \in IndexType
      /\ step.chain.index = e.index /\ step.chain.haveData = e.haveData
      /\ step.chain.chainTx = e.chainTx /\ step.chain.unlinked = e.unlinked
      /\ step.chain.sequenceId = e.sequenceId /\ step.chain.tip = e.tip
      /\ step.chain.failedValid = e.failedValid \cup failing
      /\ step.chain.failedChild = e.failedChild
      /\ step.chain.candidates = e.candidates \ failing
      /\ step.chain.asserted = e.asserted
  <2> DEFINE s == step.chain
             fv == e.failedValid \cup failing
             cs == e.candidates \ failing
  <2>1. e \in IndexType /\ s = [e EXCEPT !.failedValid = fv, !.candidates = cs]
    BY <1>4, <1>5, Zenon
  <2>2. fv \subseteq Blocks /\ cs \subseteq Blocks
    BY <1>1, <2>1, Zenon DEF IndexType
  <2> HIDE DEF s, fv, cs
  <2>3. /\ s \in IndexType
        /\ s.index = e.index /\ s.haveData = e.haveData /\ s.chainTx = e.chainTx
        /\ s.unlinked = e.unlinked /\ s.sequenceId = e.sequenceId /\ s.tip = e.tip
        /\ s.failedValid = fv /\ s.failedChild = e.failedChild /\ s.candidates = cs
        /\ s.asserted = e.asserted
    BY <2>1, <2>2, Zenon DEF IndexType
  <2> QED BY <2>3, Zenon DEF s, fv, cs
<1> QED BY <1>4, <1>5, <1>6, Zenon DEF connected, failing

LEMMA StepLinked ==
  ASSUME NEW c, LinkedIndex(c), NEW mw \in c.chainTx, NEW rejected
  PROVE  /\ LinkedIndex(ActivateBestChainStep(c, mw, rejected).chain)
         /\ Ordered(c) => Ordered(ActivateBestChainStep(c, mw, rejected).chain)
<1> DEFINE step == ActivateBestChainStep(c, mw, rejected)
           e == step.chain
           tip == NewTip(c, mw, rejected)
           connected == ConnectedBy(c, mw, rejected)
           failing == Failing(c, mw, rejected)
<1>1. /\ c \in IndexType /\ c.tip \in Blocks /\ mw \in Blocks /\ c.chainTx \subseteq Blocks
      /\ c.sequenceId \in [Blocks -> Int]
  BY Zenon DEF LinkedIndex, IndexOK, IndexType
<1>2. /\ tip \in Blocks /\ tip \in Ancestry[mw]
      /\ connected = {} => tip = FindFork(c.tip, mw)
      /\ failing \subseteq Ancestry[mw]
  BY <1>1, StepTip, Zenon
<1>3. /\ e \in IndexType
      /\ e.index = c.index /\ e.haveData = c.haveData /\ e.chainTx = c.chainTx
      /\ e.unlinked = c.unlinked /\ e.sequenceId = c.sequenceId /\ e.tip = tip
      /\ e.failedValid = c.failedValid \cup failing /\ e.failedChild = c.failedChild
      /\ connected = {} => e.candidates = c.candidates \ failing
      /\ connected # {} => e.candidates = {b \in c.candidates : ~WorkLess(c, b, tip)} \ failing
  BY <1>1, StepFields
<1> HIDE DEF e, tip, connected, failing
<1>4. tip \in c.chainTx /\ failing \subseteq c.index /\ tip \in c.index
  BY <1>2, Zenon DEF LinkedIndex, IndexOK
<1>5. Failed(e) \subseteq c.index /\ Waiting(e) = Waiting(c)
  BY <1>3, <1>4, Zenon DEF Failed, Waiting, LinkedIndex, IndexOK
<1>6. connected = {} => tip = c.tip \/ ChainWork[tip] < ChainWork[c.tip]
  BY <1>1, <1>2, Fork, Tree
<1>7. \A x \in c.chainTx : ChainWork[x] \in Nat /\ ChainWork[c.tip] \in Nat /\ ChainWork[tip] \in Nat
  BY <1>1, <1>2, BlockTree, Zenon
<1>8. \A x \in c.chainTx : ~WorkLess(c, x, tip) => ChainWork[x] >= ChainWork[tip]
  BY <1>1, <1>2, WorkOrder, Zenon
<1>9. e.candidates \subseteq c.candidates
  BY <1>3, Zenon
<1>10. \A x \in e.candidates : ChainWork[x] >= ChainWork[tip]
  <2>1. CASE connected = {}
    BY <1>6, <1>7, <1>9, <2>1 DEF LinkedIndex
  <2>2. CASE connected # {}
    BY <1>3, <1>8, <2>2, Zenon DEF LinkedIndex
  <2> QED BY <2>1, <2>2, Zenon
<1>11. IndexOK(e)
  BY <1>3, <1>4, <1>5, <1>9, Zenon DEF LinkedIndex, IndexOK
<1>12. LinkedIndex(e)
  BY <1>3, <1>4, <1>5, <1>9, <1>10, <1>11, Zenon DEF LinkedIndex
<1>13. Ordered(c) => Ordered(e)
  <2>1. CASE connected = {}
    BY <1>3, <1>6, <1>7, <1>9, <2>1 DEF Ordered, WorkLess, LinkedIndex
  <2>2. CASE connected # {}
    BY <1>3, <2>2, Zenon DEF Ordered, WorkLess
  <2> QED BY <2>1, <2>2, Zenon
<1> QED BY <1>12, <1>13, Zenon DEF e

LEMMA AcceptGrows ==
  ASSUME NEW c, LinkedIndex(c), NEW b \in Blocks \ {Genesis}, HeaderAcceptable(c, b), NEW f
  PROVE  c.chainTx \subseteq AcceptBlock(c, b, f)[1].chainTx
<1> DEFINE d == AddToBlockIndex(c, b)
           bad == [d EXCEPT !.failedValid = d.failedValid \cup {b}]
<1>1. LinkedIndex(d) /\ d \in IndexType /\ d.chainTx = c.chainTx
  BY HeaderLinked, HeaderFields, Zenon DEF HeaderAcceptable, LinkedIndex, IndexOK
<1>2. b \notin d.haveData => d.chainTx \subseteq ReceivedBlockTransactions(d, b).chainTx
  BY <1>1, ReceivedFields
<1> HIDE DEF d
<1>3. bad.chainTx = d.chainTx
  BY <1>1, Zenon DEF IndexType
<1> HIDE DEF bad
<1> QED BY <1>1, <1>2, <1>3, Zenon DEF AcceptBlock, d, bad

-----------------------------------------------------------------------------
(* Exact bookkeeping. *)

\* A failed block is below a block that was found invalid, or is one.
Cause(c) == \A b \in Failed(c) : Ancestry[b] \cap c.failedValid # {}

\* Off the invalid branches, linked means that all data is there, and what is not
\* linked waits.
Exact(c) ==
  \A b \in c.haveData :
    Ancestry[b] \cap c.failedValid = {} =>
      /\ b \in c.chainTx <=> Ancestry[b] \subseteq c.haveData
      /\ b \in Waiting(c) <=> b \notin c.chainTx

\* More invalid blocks leave fewer blocks to say something about.
LEMMA ExactMarking ==
  ASSUME NEW c, Exact(c), NEW d, d.haveData = c.haveData, d.chainTx = c.chainTx,
         Waiting(d) = Waiting(c), c.failedValid \subseteq d.failedValid
  PROVE  Exact(d)
  BY Zenon DEF Exact

LEMMA ReceivedExact ==
  ASSUME NEW c, LinkedIndex(c), Cause(c), Exact(c), NEW b \in c.index, b # Genesis, b \notin c.haveData
  PROVE  Cause(ReceivedBlockTransactions(c, b)) /\ Exact(ReceivedBlockTransactions(c, b))
<1> DEFINE e == ReceivedBlockTransactions(c, b)
           linked == LinkedBy(c, b)
           P == Parent[b]
<1>1. b \in Blocks /\ c.haveData \subseteq Blocks /\ b \notin c.chainTx
  BY Zenon DEF LinkedIndex, IndexOK, IndexType
<1>2. /\ P \in Blocks /\ Ancestry[b] = {b} \cup Ancestry[P] /\ P \in Ancestry[P]
      /\ b \notin Ancestry[P]
  BY <1>1, BlockTree, Tree, Zenon
<1>3. /\ e.haveData = c.haveData \cup {b} /\ e.failedValid = c.failedValid
      /\ e.failedChild = c.failedChild /\ Failed(e) = Failed(c)
  BY <1>1, ReceivedFields DEF Failed
<1>4. LinkedIndex(e)
  BY ReceivedLinked, Zenon
<1>5. P \in c.chainTx => e.chainTx = c.chainTx \cup linked /\ Waiting(e) = Waiting(c) \ linked
  BY <1>1, ReceivedFields
<1>6. P \notin c.chainTx =>
        /\ e.chainTx = c.chainTx
        /\ Waiting(e) = IF P \in Failed(c) THEN Waiting(c) ELSE Waiting(c) \cup {b}
  BY <1>1, ReceivedFields
<1> HIDE DEF e
<1>7. Cause(e)
  BY <1>3, Zenon DEF Cause
<1>8. ASSUME NEW x \in e.haveData, Ancestry[x] \cap c.failedValid = {}
      PROVE  /\ Ancestry[x] \subseteq e.haveData => x \in e.chainTx
             /\ x \notin e.chainTx => x \in Waiting(e)
  <2>1. x \in Blocks
    BY <1>1, <1>3, Zenon
  <2>2. b \notin Ancestry[x] => x # b /\ x \in c.haveData
    BY <1>3, <2>1, Tree, Zenon
  <2>3. b \notin Ancestry[x] /\ Ancestry[x] \subseteq e.haveData => x \in e.chainTx
    <3>1. b \notin Ancestry[x] /\ Ancestry[x] \subseteq e.haveData => x \in c.chainTx
      BY <1>3, <1>8, <2>2, Zenon DEF Exact
    <3> QED BY <1>5, <1>6, <3>1, Zenon
  <2>4. x # b /\ x \notin c.chainTx => x \in Waiting(c)
    BY <1>3, <1>8, Zenon DEF Exact
  <2>5. b \in Ancestry[x] => P \in Ancestry[x] /\ Ancestry[P] \subseteq Ancestry[x]
    BY <1>2, <2>1, Tree, Zenon
  <2>6. CASE P \in c.chainTx
    <3>1. ASSUME b \in Ancestry[x], Ancestry[x] \subseteq e.haveData
          PROVE  x \in linked
      <4>1. ASSUME NEW y \in Ancestry[x] \ Ancestry[b] PROVE y \in Waiting(c)
        <5>1. y \in Blocks /\ Ancestry[y] \subseteq Ancestry[x] /\ b \in Ancestry[y]
          BY <2>1, <3>1, Tree, Zenon
        <5>2. y \in c.haveData
          BY <1>2, <1>3, <3>1, Zenon
        <5> QED BY <1>8, <5>1, <5>2, Zenon DEF Exact
      <4> QED BY <2>1, <3>1, <4>1, Zenon DEF LinkedBy, Descends
    <3>2. x = b => x \in linked
      BY <1>1, LinkedBlocks
    <3> QED BY <1>5, <2>3, <2>4, <2>6, <3>1, <3>2, Zenon
  <2>7. CASE P \notin c.chainTx
    <3>1. ASSUME b \in Ancestry[x], Ancestry[x] \subseteq e.haveData
          PROVE  FALSE
      <4>1. P \in c.haveData /\ Ancestry[P] \subseteq c.haveData /\ Ancestry[P] \cap c.failedValid = {}
        BY <1>2, <1>3, <1>8, <2>5, <3>1, Zenon
      <4> QED BY <2>7, <4>1, Zenon DEF Exact
    <3>2. x = b => P \notin Failed(c)
      BY <1>2, <1>8, Zenon DEF Cause
    <3> QED BY <1>6, <2>3, <2>4, <2>7, <3>1, <3>2, Zenon
  <2> QED BY <2>6, <2>7, Zenon
<1>9. \A x \in e.chainTx : Ancestry[x] \subseteq e.haveData /\ x \notin Waiting(e)
  BY <1>4, Zenon DEF LinkedIndex, IndexOK
<1>10. Exact(e)
  BY <1>3, <1>8, <1>9, Zenon DEF Exact
<1> QED BY <1>7, <1>10, Zenon DEF e

LEMMA AcceptExact ==
  ASSUME NEW c, LinkedIndex(c), Cause(c), Exact(c), NEW b \in Blocks \ {Genesis},
         HeaderAcceptable(c, b), NEW f
  PROVE  Cause(AcceptBlock(c, b, f)[1]) /\ Exact(AcceptBlock(c, b, f)[1])
<1> DEFINE d == AddToBlockIndex(c, b)
           bad == [d EXCEPT !.failedValid = d.failedValid \cup {b}]
<1>1. LinkedIndex(d) /\ b \in d.index /\ d \in IndexType
  BY HeaderLinked, HeaderFields DEF HeaderAcceptable, LinkedIndex, IndexOK
<1>2. /\ d.haveData = c.haveData /\ d.chainTx = c.chainTx /\ d.failedValid = c.failedValid
      /\ d.failedChild = c.failedChild /\ d.unlinked = c.unlinked
  BY HeaderFields DEF LinkedIndex, IndexOK
<1> HIDE DEF d
<1>3. Cause(d) /\ Exact(d)
  BY <1>2, Zenon DEF Cause, Exact, Failed, Waiting
<1>4. b \notin d.haveData => Cause(ReceivedBlockTransactions(d, b)) /\ Exact(ReceivedBlockTransactions(d, b))
  BY <1>1, <1>3, ReceivedExact, Zenon
<1>5. /\ bad.haveData = d.haveData /\ bad.chainTx = d.chainTx /\ bad.unlinked = d.unlinked
      /\ bad.failedValid = d.failedValid \cup {b} /\ bad.failedChild = d.failedChild
  BY <1>1, Zenon DEF IndexType
<1> HIDE DEF bad
<1>6. Waiting(bad) = Waiting(d)
  BY <1>5, Zenon DEF Waiting
<1>7. Exact(bad)
  BY <1>3, <1>5, <1>6, ExactMarking, Zenon
<1>8. Cause(bad)
  BY <1>3, <1>5, Tree DEF Cause, Failed
<1> QED BY <1>3, <1>4, <1>7, <1>8, Zenon DEF AcceptBlock, d, bad

LEMMA InvalidateExact ==
  ASSUME NEW c, LinkedIndex(c), Cause(c), Exact(c), NEW b \in c.index \ {Genesis}
  PROVE  Cause(InvalidateBlock(c, b)) /\ Exact(InvalidateBlock(c, b))
<1> DEFINE e == InvalidateBlock(c, b)
<1>1. c \in IndexType /\ b \in Blocks \ {Genesis}
  BY Zenon DEF LinkedIndex, IndexOK, IndexType
<1>2. /\ e.haveData = c.haveData /\ e.chainTx = c.chainTx /\ e.unlinked = c.unlinked
      /\ e.failedValid = c.failedValid \cup {b} /\ e.failedChild = c.failedChild \cup Walked(c, b)
  BY <1>1, InvalidateFields
<1> HIDE DEF e
<1>3. Waiting(e) = Waiting(c) /\ b \in Ancestry[b]
  BY <1>1, <1>2, Tree, Zenon DEF Waiting
<1>4. Exact(e)
  BY <1>2, <1>3, ExactMarking, Zenon
<1>5. Cause(e)
  BY <1>2, <1>3, Zenon DEF Cause, Failed, Walked
<1> QED BY <1>4, <1>5, Zenon DEF e

LEMMA FindExact ==
  ASSUME NEW c, LinkedIndex(c), Cause(c), Exact(c)
  PROVE  Cause(FindMostWorkChain(c).chain) /\ Exact(FindMostWorkChain(c).chain)
<1> DEFINE d == FindMostWorkChain(c).chain
<1>1. /\ d.index = c.index /\ d.haveData = c.haveData /\ d.chainTx = c.chainTx
      /\ d.unlinked = c.unlinked /\ d.failedValid = c.failedValid
      /\ \A x \in d.failedChild \ c.failedChild :
           x \in c.index /\ \E y \in Ancestry[x] : y \in Failed(c)
  BY FindFields
<1> HIDE DEF d
<1>2. Waiting(d) = Waiting(c)
  BY <1>1, Zenon DEF Waiting
<1>3. Exact(d)
  BY <1>1, <1>2, ExactMarking, Zenon
<1>4. ASSUME NEW x \in d.failedChild \ c.failedChild
      PROVE  Ancestry[x] \cap c.failedValid # {}
  <2>1. PICK y \in Ancestry[x] : y \in Failed(c)
    BY <1>1, Zenon
  <2>2. x \in Blocks
    BY <1>1, Zenon DEF LinkedIndex, IndexOK, IndexType
  <2> QED BY <2>1, <2>2, Tree DEF Cause
<1>5. Cause(d)
  BY <1>1, <1>4, Zenon DEF Cause, Failed
<1> QED BY <1>3, <1>5, Zenon DEF d

LEMMA StepExact ==
  ASSUME NEW c, LinkedIndex(c), Cause(c), Exact(c), NEW mw \in c.chainTx, NEW rejected
  PROVE  /\ Cause(ActivateBestChainStep(c, mw, rejected).chain)
         /\ Exact(ActivateBestChainStep(c, mw, rejected).chain)
<1> DEFINE e == ActivateBestChainStep(c, mw, rejected).chain
           failing == Failing(c, mw, rejected)
<1>1. c \in IndexType /\ c.tip \in Blocks /\ mw \in Blocks
  BY Zenon DEF LinkedIndex, IndexOK, IndexType
<1>2. /\ e.haveData = c.haveData /\ e.chainTx = c.chainTx /\ e.unlinked = c.unlinked
      /\ e.failedValid = c.failedValid \cup failing /\ e.failedChild = c.failedChild
  BY <1>1, StepFields
<1>3. failing \subseteq Blocks
  BY <1>1, StepTip, Tree, Zenon
<1> HIDE DEF e, failing
<1>4. Waiting(e) = Waiting(c) /\ \A x \in failing : x \in Ancestry[x]
  BY <1>2, <1>3, Tree, Zenon DEF Waiting
<1>5. Exact(e)
  BY <1>2, <1>4, ExactMarking, Zenon
<1>6. Cause(e)
  BY <1>2, <1>4, Zenon DEF Cause, Failed
<1> QED BY <1>5, <1>6, Zenon DEF e

-----------------------------------------------------------------------------
(* The active chain and the best candidate, for a set of blocks that ConnectBlock
   rejects. *)

\* The active chain has neither a failed block nor one that ConnectBlock rejects.
SoundTip(c, rejected) == Ancestry[c.tip] \cap (Failed(c) \cup rejected) = {}

\* AcceptBlock leaves the tip alone, and marks at most the block it got, if that has
\* no data yet.
LEMMA AcceptMarks ==
  ASSUME NEW c, LinkedIndex(c), NEW b \in Blocks \ {Genesis}, HeaderAcceptable(c, b), NEW f
  PROVE  /\ AcceptBlock(c, b, f)[1].tip = c.tip
         /\ Failed(AcceptBlock(c, b, f)[1]) \subseteq Failed(c) \cup ({b} \ c.haveData)
<1> DEFINE d == AddToBlockIndex(c, b)
           bad == [d EXCEPT !.failedValid = d.failedValid \cup {b}]
           rec == ReceivedBlockTransactions(d, b)
<1>1. /\ LinkedIndex(d) /\ d \in IndexType /\ d.haveData = c.haveData /\ d.tip = c.tip
      /\ d.failedValid = c.failedValid /\ d.failedChild = c.failedChild
  BY HeaderLinked, HeaderFields DEF HeaderAcceptable, LinkedIndex, IndexOK
<1>2. b \notin d.haveData => /\ rec.tip = d.tip
                             /\ rec.failedValid = d.failedValid /\ rec.failedChild = d.failedChild
  BY <1>1, ReceivedFields
<1> HIDE DEF d
<1>3. /\ bad.tip = d.tip
      /\ bad.failedValid = d.failedValid \cup {b} /\ bad.failedChild = d.failedChild
  BY <1>1, Zenon DEF IndexType
<1> HIDE DEF bad, rec
<1>4. /\ Failed(d) = Failed(c) /\ Failed(bad) = Failed(c) \cup {b}
      /\ b \notin d.haveData => Failed(rec) = Failed(c)
  BY <1>1, <1>2, <1>3, Zenon DEF Failed
<1>5. \/ AcceptBlock(c, b, f)[1] = d
      \/ b \notin d.haveData /\ AcceptBlock(c, b, f)[1] \in {bad, rec}
  BY Zenon DEF AcceptBlock, d, bad, rec
<1> QED BY <1>1, <1>2, <1>3, <1>4, <1>5, Zenon

LEMMA InvalidateSound ==
  ASSUME NEW rejected, NEW c, LinkedIndex(c), SoundTip(c, rejected), NEW b \in c.index \ {Genesis}
  PROVE  SoundTip(InvalidateBlock(c, b), rejected)
<1> DEFINE e == InvalidateBlock(c, b)
<1>1. c \in IndexType /\ b \in Blocks \ {Genesis} /\ c.tip \in Blocks
  BY Zenon DEF LinkedIndex, IndexOK, IndexType
<1>2. /\ e.failedValid = c.failedValid \cup {b} /\ e.failedChild = c.failedChild \cup Walked(c, b)
      /\ e.tip = IF b \in Ancestry[c.tip] THEN Parent[b] ELSE c.tip
  BY <1>1, InvalidateFields
<1> HIDE DEF e
<1>3. Ancestry[e.tip] \subseteq Ancestry[c.tip] /\ b \notin Ancestry[e.tip] /\ e.tip \in Blocks
  <2>1. /\ Parent[b] \in Blocks /\ Parent[b] \in Ancestry[b] /\ b \notin Ancestry[Parent[b]]
        /\ Ancestry[Parent[b]] \subseteq Ancestry[b]
    BY <1>1, BlockTree, Tree, Zenon
  <2>2. b \in Ancestry[c.tip] => Ancestry[b] \subseteq Ancestry[c.tip]
    BY <1>1, Tree, Zenon
  <2> QED BY <1>1, <1>2, <2>1, <2>2, Zenon
<1>4. \A y \in Ancestry[e.tip] : b \notin Ancestry[y]
  BY <1>3, Tree, Zenon
<1> QED BY <1>2, <1>3, <1>4, Zenon DEF SoundTip, Failed, Walked, e

\* FindMostWorkChain on a sound chain returns a block without failed ancestors.
LEMMA FindSound ==
  ASSUME NEW rejected, NEW c, LinkedIndex(c), SoundTip(c, rejected), NEW f, f = FindMostWorkChain(c)
  PROVE  /\ SoundTip(f.chain, rejected)
         /\ f.mostWork # NoBlock => Ancestry[f.mostWork] \cap Failed(f.chain) = {}
<1> DEFINE d == f.chain
           m == f.mostWork
<1>1. /\ d.tip = c.tip /\ d.failedValid = c.failedValid
      /\ c.failedChild \subseteq d.failedChild
      /\ \A x \in d.failedChild \ c.failedChild :
           /\ x \notin Ancestry[c.tip]
           /\ \E y \in Ancestry[x] : y \in Failed(c)
      /\ m # NoBlock => m \in UsableCandidates(c)
  BY FindFields, Zenon DEF BestCandidates
<1> HIDE DEF d, m
<1>2. SoundTip(d, rejected)
  BY <1>1, Zenon DEF SoundTip, Failed
<1>3. ASSUME m # NoBlock PROVE Ancestry[m] \cap Failed(d) = {}
  <2>1. m \in Blocks /\ Ancestry[m] \cap Failed(c) = {}
    BY <1>1, <1>3, Zenon DEF UsableCandidates, Usable, Branch, SoundTip, LinkedIndex, IndexOK, IndexType
  <2>2. \A x \in Ancestry[m] : Ancestry[x] \subseteq Ancestry[m]
    BY <2>1, Tree, Zenon
  <2> QED BY <1>1, <2>1, <2>2, Zenon DEF Failed
<1> QED BY <1>2, <1>3, Zenon DEF d, m

\* ActivateBestChainStep moves the tip up the chain of m, as far as blocks can be
\* connected, and marks only the blocks that cannot.
LEMMA StepSound ==
  ASSUME NEW rejected, NEW c, LinkedIndex(c), SoundTip(c, rejected),
         NEW m \in c.chainTx, Ancestry[m] \cap Failed(c) = {},
         NEW step, step = ActivateBestChainStep(c, m, rejected)
  PROVE  /\ SoundTip(step.chain, rejected) /\ step.chain.tip \in Ancestry[m]
         /\ ~step.fInvalidFound => Failed(step.chain) = Failed(c)
         /\ FindFork(c.tip, step.chain.tip) = FindFork(c.tip, m)
<1> DEFINE e == step.chain
           tip == NewTip(c, m, rejected)
           failing == Failing(c, m, rejected)
<1>1. c \in IndexType /\ c.tip \in Blocks /\ m \in Blocks
  BY Zenon DEF LinkedIndex, IndexOK, IndexType
<1>2. /\ tip \in Blocks /\ tip \in Ancestry[m] /\ FindFork(c.tip, tip) = FindFork(c.tip, m)
      /\ Ancestry[tip] \cap rejected \subseteq Ancestry[c.tip]
      /\ failing \cap Ancestry[tip] = {}
  BY <1>1, StepTip, Zenon
<1>3. /\ step.fInvalidFound = (failing # {}) /\ e.tip = tip
      /\ e.failedValid = c.failedValid \cup failing /\ e.failedChild = c.failedChild
  BY <1>1, StepFields
<1> HIDE DEF e, tip, failing
<1>4. Ancestry[tip] \subseteq Ancestry[m]
  BY <1>1, <1>2, Tree, Zenon
<1>5. SoundTip(e, rejected)
  BY <1>2, <1>3, <1>4, Zenon DEF SoundTip, Failed
<1>6. ~step.fInvalidFound => Failed(e) = Failed(c)
  BY <1>3, Zenon DEF Failed
<1> QED BY <1>2, <1>3, <1>5, <1>6, Zenon DEF e

\* setBlockIndexCandidates has a best element among those FindMostWorkChain may use.
LEMMA BestExists ==
  ASSUME NEW c, LinkedIndex(c), c.sequenceId \in [Blocks -> Nat], UsableCandidates(c) # {}
  PROVE  BestCandidates(c) # {}
<1> DEFINE U == UsableCandidates(c)
<1>1. U \subseteq Blocks
  BY Zenon DEF UsableCandidates, LinkedIndex, IndexOK, IndexType
<1>2. PICK top \in Blocks : \A b \in Blocks : ChainWork[b] <= ChainWork[top]
  BY AncestryOrder, Zenon
<1>3. \A b \in Blocks : ChainWork[b] \in Nat /\ ChainWork[top] \in Nat
  BY <1>2, BlockTree, Zenon
<1> DEFINE f == [b \in U |-> ChainWork[top] - ChainWork[b]]
<1>4. f \in [U -> Nat]
  BY <1>1, <1>2, <1>3
<1> HIDE DEF U
<1>5. PICK x \in U : \A y \in U : ChainWork[top] - ChainWork[x] <= ChainWork[top] - ChainWork[y]
  <2>1. \E x \in U : \A y \in U : f[x] <= f[y]
    <3> HIDE DEF f
    <3> QED BY <1>4, Least, Zenon DEF U
  <2> QED BY <2>1, Zenon
<1>6. \A y \in U : ChainWork[x] >= ChainWork[y]
  BY <1>1, <1>3, <1>5
<1> DEFINE V == {y \in U : ChainWork[y] = ChainWork[x]}
           g == [y \in V |-> c.sequenceId[y]]
<1>7. V # {} /\ g \in [V -> Nat]
  BY <1>1, Zenon
<1>8. PICK v \in V : \A y \in V : c.sequenceId[v] <= c.sequenceId[y]
  <2>1. \E v \in V : \A y \in V : g[v] <= g[y]
    <3> HIDE DEF g, V
    <3> QED BY <1>7, Least, Zenon
  <2> QED BY <2>1, Zenon
<1> DEFINE W == {y \in V : c.sequenceId[y] = c.sequenceId[v]}
           h == [y \in W |-> Address[y]]
<1>9. W # {} /\ h \in [W -> Nat]
  BY <1>1, BlockTree, Zenon
<1>10. PICK w \in W : \A y \in W : Address[w] <= Address[y]
  <2>1. \E w \in W : \A y \in W : h[w] <= h[y]
    <3> HIDE DEF h, W, V
    <3> QED BY <1>9, Least, Zenon
  <2> QED BY <2>1, Zenon
<1>11. ASSUME NEW y \in U PROVE ~WorkLess(c, w, y)
  <2>1. /\ ChainWork[w] \in Nat /\ ChainWork[y] \in Nat /\ Address[w] \in Nat /\ Address[y] \in Nat
        /\ c.sequenceId[w] \in Nat /\ c.sequenceId[y] \in Nat
    BY <1>1, BlockTree, Zenon
  <2> QED BY <1>6, <1>8, <1>10, <2>1 DEF WorkLess
<1> QED BY <1>10, <1>11, Zenon DEF BestCandidates, U

\* No ancestor of b carries a failure flag.
Unfailed(c, b) == Ancestry[b] \cap Failed(c) = {}

\* u is a candidate that can be connected, and setBlockIndexCandidates holds every
\* block without failed ancestors that sorts at least as good as u.
Full(c, u, rejected) ==
  /\ u \in c.candidates
  /\ Ancestry[u] \cap (Failed(c) \cup rejected) = {}
  /\ \A b \in c.chainTx : Unfailed(c, b) /\ ~WorkLess(c, b, u) => b \in c.candidates

\* No block without failed ancestors sorts better than the candidate m.
Best(c, m) ==
  /\ m \in c.candidates
  /\ \A b \in c.chainTx : Unfailed(c, b) => ~WorkLess(c, m, b)

\* FindMostWorkChain finds the best block, and drops none that may be needed later.
LEMMA FindFull ==
  ASSUME NEW rejected, NEW c, LinkedIndex(c), c.sequenceId \in [Blocks -> Nat], NEW u, Full(c, u, rejected),
         NEW f, f = FindMostWorkChain(c)
  PROVE  f.mostWork # NoBlock /\ Full(f.chain, u, rejected) /\ Best(f.chain, f.mostWork)
<1> DEFINE d == f.chain
           m == f.mostWork
<1>1. /\ c.candidates \subseteq Blocks /\ c.chainTx \subseteq Blocks /\ u \in Blocks
      /\ c.sequenceId \in [Blocks -> Int] /\ NoBlock \notin Blocks /\ u \in c.chainTx
  BY BlockTree, Zenon DEF Full, LinkedIndex, IndexOK, IndexType
<1>2. u \in UsableCandidates(c)
  BY Zenon DEF Full, UsableCandidates, Usable, Branch
<1>3. BestCandidates(c) # {}
  BY <1>2, BestExists, Zenon
<1>4. /\ d.chainTx = c.chainTx /\ d.sequenceId = c.sequenceId /\ d.tip = c.tip
      /\ d.failedValid = c.failedValid /\ c.failedChild \subseteq d.failedChild
      /\ \A x \in d.failedChild \ c.failedChild : \E y \in Ancestry[x] : y \in Failed(c)
      /\ UsableCandidates(c) \subseteq d.candidates
      /\ m \in BestCandidates(c)
  BY <1>3, FindFields
<1> HIDE DEF d, m
<1>5. m \in UsableCandidates(c) /\ m \in Blocks /\ \A x \in UsableCandidates(c) : ~WorkLess(c, m, x)
  BY <1>1, <1>4, Zenon DEF BestCandidates, UsableCandidates
<1>6. \A b : Unfailed(d, b) => Unfailed(c, b)
  BY <1>4, Zenon DEF Unfailed, Failed
<1>7. \A b \in c.candidates : Unfailed(c, b) => b \in UsableCandidates(c)
  BY Zenon DEF Unfailed, UsableCandidates, Usable, Branch
<1>8. \A x, y : WorkLess(d, x, y) <=> WorkLess(c, x, y)
  BY <1>4, Zenon DEF WorkLess
<1>9. Ancestry[u] \cap (Failed(d) \cup rejected) = {}
  <2>1. \A x \in Ancestry[u] : Ancestry[x] \subseteq Ancestry[u]
    BY <1>1, Tree, Zenon
  <2> QED BY <1>4, <2>1, Zenon DEF Full, Failed
<1>10. Full(d, u, rejected)
  BY <1>2, <1>4, <1>6, <1>7, <1>8, <1>9, Zenon DEF Full
<1>11. ASSUME NEW b \in d.chainTx, Unfailed(d, b) PROVE ~WorkLess(d, m, b)
  <2>1. b \in Blocks /\ Unfailed(c, b) /\ b \in c.chainTx
    BY <1>1, <1>4, <1>6, <1>11, Zenon
  <2>2. CASE ~WorkLess(c, b, u)
    BY <1>5, <1>7, <1>8, <2>1, <2>2, Zenon DEF Full
  <2>3. CASE WorkLess(c, b, u)
    <3>1. ~WorkLess(c, m, u)
      BY <1>2, <1>5, Zenon
    <3>2. ~WorkLess(c, u, b)
      BY <1>1, <2>1, <2>3, WorkOrder, Zenon
    <3> QED BY <1>1, <1>5, <1>8, <2>1, <3>1, <3>2, WorkOrder, Zenon
  <2> QED BY <2>2, <2>3, Zenon
<1>12. Best(d, m)
  BY <1>4, <1>5, <1>11, Zenon DEF Best
<1> QED BY <1>1, <1>5, <1>10, <1>12, Zenon DEF d, m

\* InvalidateBlock puts every block at least as good as the new tip into the set.
LEMMA InvalidateFull ==
  ASSUME NEW rejected, NEW c, LinkedIndex(c), SoundTip(c, rejected), NEW b \in c.index \ {Genesis},
         NEW e, e = InvalidateBlock(c, b)
  PROVE  Full(e, e.tip, rejected)
<1>1. c \in IndexType /\ b \in Blocks \ {Genesis} /\ c.chainTx \subseteq Blocks
  BY Zenon DEF LinkedIndex, IndexOK, IndexType
<1>2. LinkedIndex(e) /\ SoundTip(e, rejected)
  BY InvalidateLinked, InvalidateSound, Zenon
<1>3. /\ e.chainTx = c.chainTx /\ e.haveData = c.haveData
      /\ {x \in c.chainTx : IsValid(e, x) /\ ~WorkLess(e, x, e.tip)} \subseteq e.candidates
  BY <1>1, InvalidateFields
<1>4. /\ e.tip \in e.chainTx /\ e.tip \in Blocks /\ e.sequenceId \in [Blocks -> Int]
      /\ e.chainTx \subseteq Blocks /\ e.chainTx \subseteq e.haveData
  BY <1>2, Zenon DEF LinkedIndex, IndexOK, IndexType
<1>5. \A x \in e.chainTx : Unfailed(e, x) => IsValid(e, x)
  BY <1>4, Tree, Zenon DEF Unfailed, IsValid
<1>6. \A x \in e.chainTx : Unfailed(e, x) /\ ~WorkLess(e, x, e.tip) => x \in e.candidates
  BY <1>3, <1>5, Zenon
<1>7. Unfailed(e, e.tip) /\ Ancestry[e.tip] \cap (Failed(e) \cup rejected) = {}
  BY <1>2, Zenon DEF SoundTip, Unfailed
<1>8. ~WorkLess(e, e.tip, e.tip)
  BY <1>4, WorkOrder, Zenon
<1> QED BY <1>4, <1>6, <1>7, <1>8, Zenon DEF Full

\* ActivateBestChainStep towards the best block: the set never runs empty, a candidate
\* to fall back on stays when a block turns out invalid, and the tip is best once the
\* target is reached.
LEMMA StepFull ==
  ASSUME NEW rejected, NEW c, LinkedIndex(c), SoundTip(c, rejected), ~c.asserted, NEW u, Full(c, u, rejected),
         NEW m, Best(c, m), Unfailed(c, m),
         NEW step, step = ActivateBestChainStep(c, m, rejected), NEW e, e = step.chain
  PROVE  /\ ~e.asserted
         /\ \E v : Full(e, v, rejected)
         /\ step.fInvalidFound => e.tip # m
         /\ ~step.fInvalidFound => Best(e, m)
         /\ ~step.fInvalidFound /\ e.tip = m => Full(e, e.tip, rejected)
<1> DEFINE tip == NewTip(c, m, rejected)
           failing == Failing(c, m, rejected)
<1>1. /\ c \in IndexType /\ c.tip \in Blocks /\ m \in Blocks /\ m \in c.chainTx /\ m \in c.candidates
      /\ c.candidates \subseteq c.chainTx /\ c.chainTx \subseteq Blocks
      /\ c.sequenceId \in [Blocks -> Int] /\ u \in Blocks /\ u \in c.candidates
  BY Zenon DEF Best, Full, LinkedIndex, IndexOK, IndexType
<1>2. /\ tip \in Blocks /\ tip \in Ancestry[m]
      /\ failing \cap Ancestry[tip] = {} /\ failing \subseteq rejected \cap Ancestry[m]
  <2>1. tip \in Blocks /\ tip \in Ancestry[m]
    BY <1>1, StepTip, Zenon
  <2>2. failing \cap Ancestry[tip] = {} /\ failing \subseteq Ancestry[m]
    BY <1>1, StepTip
  <2>3. failing \subseteq rejected
    BY Zenon DEF Failing
  <2> QED BY <2>1, <2>2, <2>3, Zenon
<1>3. /\ step.fInvalidFound = (failing # {}) /\ e.tip = tip
      /\ e.failedValid = c.failedValid \cup failing /\ e.failedChild = c.failedChild
      /\ e.chainTx = c.chainTx /\ e.sequenceId = c.sequenceId
      /\ \A b \in c.candidates : ~WorkLess(c, b, tip) /\ b \notin failing => b \in e.candidates
      /\ ~WorkLess(c, m, tip) => ~e.asserted
  <2>1. step.fInvalidFound = (failing # {}) /\ e.tip = tip
    BY <1>1, StepFields
  <2>2. e.failedValid = c.failedValid \cup failing /\ e.failedChild = c.failedChild
    BY <1>1, StepFields
  <2>3. e.chainTx = c.chainTx /\ e.sequenceId = c.sequenceId
    BY <1>1, StepFields
  <2>4. CASE ConnectedBy(c, m, rejected) = {}
    <3>1. e.candidates = c.candidates \ failing /\ e.asserted = c.asserted
      BY <1>1, <2>4, StepFields
    <3> QED BY <2>1, <2>2, <2>3, <3>1, Zenon
  <2>5. CASE ConnectedBy(c, m, rejected) # {}
    <3>1. e.candidates = {b \in c.candidates : ~WorkLess(c, b, tip)} \ failing
      BY <1>1, <2>5, StepFields
    <3>2. e.asserted <=> \A b \in c.candidates : WorkLess(c, b, tip)
      BY <1>1, <2>5, StepFields, Zenon
    <3> QED BY <1>1, <2>1, <2>2, <2>3, <3>1, <3>2, Zenon
  <2> QED BY <2>4, <2>5, Zenon
<1>4. SoundTip(e, rejected)
  BY <1>1, StepSound, Zenon DEF Unfailed
<1> HIDE DEF tip, failing
<1>5. ~WorkLess(c, m, tip)
  <2>1. m = tip \/ ChainWork[m] > ChainWork[tip]
    BY <1>1, <1>2, Tree, BlockTree, Zenon
  <2> QED BY <1>1, <1>2, <2>1, WorkOrder, Zenon
<1>6. \A x, y : WorkLess(e, x, y) <=> WorkLess(c, x, y)
  BY <1>3, Zenon DEF WorkLess
<1>7. \A b : Unfailed(e, b) => Unfailed(c, b)
  BY <1>3, Zenon DEF Unfailed, Failed
<1>8. Failed(e) = Failed(c) \cup failing
  BY <1>3, Zenon DEF Failed
<1>9. \A b \in Blocks : Unfailed(e, b) => b \notin failing
  BY <1>8, Tree, Zenon DEF Unfailed
<1>10. tip \in c.chainTx
  BY <1>1, <1>2, Zenon DEF LinkedIndex
<1>11. \E v : Full(e, v, rejected)
  <2>1. CASE WorkLess(c, u, tip)
    <3>1. Unfailed(e, tip) /\ Ancestry[tip] \cap (Failed(e) \cup rejected) = {}
      BY <1>3, <1>4, Zenon DEF SoundTip, Unfailed
    <3>2. ~WorkLess(c, tip, u) /\ ~WorkLess(c, tip, tip)
      BY <1>1, <1>2, <2>1, WorkOrder, Zenon
    <3>3. tip \in e.candidates
      BY <1>2, <1>3, <1>7, <1>9, <1>10, <3>1, <3>2, Zenon DEF Full
    <3>4. ASSUME NEW b \in e.chainTx, Unfailed(e, b), ~WorkLess(e, b, tip)
          PROVE  b \in e.candidates
      <4>1. b \in Blocks /\ b \in c.chainTx /\ ~WorkLess(c, b, tip) /\ Unfailed(c, b) /\ b \notin failing
        BY <1>1, <1>3, <1>6, <1>7, <1>9, <3>4, Zenon
      <4>2. ~WorkLess(c, b, u)
        BY <1>1, <1>2, <3>2, <4>1, WorkOrder, Zenon
      <4>3. b \in c.candidates
        BY <4>1, <4>2, Zenon DEF Full
      <4> QED BY <1>3, <4>1, <4>3, Zenon
    <3> QED BY <3>1, <3>3, <3>4, Zenon DEF Full
  <2>2. CASE ~WorkLess(c, u, tip)
    <3>1. Ancestry[u] \cap (Failed(e) \cup rejected) = {} /\ u \notin failing
      BY <1>1, <1>2, <1>8, Tree, Zenon DEF Full
    <3>2. u \in e.candidates
      BY <1>1, <1>3, <2>2, <3>1, Zenon
    <3>3. ASSUME NEW b \in e.chainTx, Unfailed(e, b), ~WorkLess(e, b, u)
          PROVE  b \in e.candidates
      <4>1. b \in Blocks /\ b \in c.chainTx /\ ~WorkLess(c, b, u) /\ Unfailed(c, b) /\ b \notin failing
        BY <1>1, <1>3, <1>6, <1>7, <1>9, <3>3, Zenon
      <4>2. ~WorkLess(c, b, tip)
        BY <1>1, <1>2, <2>2, <4>1, WorkOrder, Zenon
      <4>3. b \in c.candidates
        BY <4>1, Zenon DEF Full
      <4> QED BY <1>3, <4>1, <4>2, <4>3, Zenon
    <3> QED BY <3>1, <3>2, <3>3, Zenon DEF Full
  <2> QED BY <2>1, <2>2, Zenon
<1>12. ~step.fInvalidFound => failing = {}
  BY <1>3, Zenon
<1>13. failing = {} => Best(e, m)
  BY <1>1, <1>3, <1>5, <1>6, <1>7, Zenon DEF Best
<1>14. ASSUME failing = {}, e.tip = m PROVE Full(e, e.tip, rejected)
  <2>1. PICK v : Full(e, v, rejected)
    BY <1>11, Zenon
  <2>2. v \in Blocks /\ v \in e.chainTx /\ Unfailed(e, v)
    BY <1>1, <1>3, <2>1, StepLinked, Zenon DEF Full, Unfailed, LinkedIndex
  <2>3. ~WorkLess(e, m, v)
    BY <1>13, <1>14, <2>2, Zenon DEF Best
  <2>4. e.sequenceId \in [Blocks -> Int]
    BY <1>1, <1>3, Zenon
  <2>5. \A b \in e.chainTx : Unfailed(e, b) /\ ~WorkLess(e, b, m) => b \in e.candidates
    BY <1>1, <1>3, <2>1, <2>2, <2>3, <2>4, WorkOrder, Zenon DEF Full
  <2> QED BY <1>4, <1>13, <1>14, <2>5, Zenon DEF Full, Best, SoundTip
<1>15. step.fInvalidFound => failing # {}
  BY <1>3, Zenon
<1>16. failing # {} => e.tip # m
  BY <1>2, <1>3, Zenon
<1> QED BY <1>3, <1>5, <1>11, <1>12, <1>13, <1>14, <1>15, <1>16, Zenon

LEMMA ReceivedFull ==
  ASSUME NEW rejected, NEW c, LinkedIndex(c), Full(c, c.tip, rejected), c.sequenceId \in [Blocks -> Nat],
         NEW b \in c.index, b # Genesis, b \notin c.haveData,
         NEW e, e = ReceivedBlockTransactions(c, b)
  PROVE  Full(e, e.tip, rejected) /\ e.sequenceId \in [Blocks -> Nat] /\ e.asserted = c.asserted
<1> DEFINE linked == LinkedBy(c, b)
<1>1. /\ b \in Blocks /\ c.tip \in Blocks /\ c.tip \in c.chainTx /\ c.chainTx \subseteq Blocks
  BY Zenon DEF LinkedIndex, IndexOK, IndexType
<1>2. linked \cap c.chainTx = {} /\ linked \subseteq Blocks
  BY <1>1, LinkedBlocks DEF LinkedBy
<1>3. /\ e.failedValid = c.failedValid /\ e.failedChild = c.failedChild
      /\ e.tip = c.tip /\ e.asserted = c.asserted /\ e.sequenceId \in [Blocks -> Int]
  BY <1>1, ReceivedFields DEF IndexType
<1>4. \A x : Unfailed(e, x) <=> Unfailed(c, x)
  BY <1>3, Zenon DEF Unfailed, Failed
<1>5. CASE Parent[b] \in c.chainTx
  <2>1. /\ e.chainTx = c.chainTx \cup linked
        /\ \A x \in Blocks \ linked : e.sequenceId[x] = c.sequenceId[x]
        /\ \A x \in linked : e.sequenceId[x] \in Nat
        /\ e.candidates = c.candidates \cup {x \in linked : ~WorkLess(e, x, c.tip)}
    BY <1>1, <1>5, ReceivedFields
  <2> HIDE DEF linked
  <2>2. e.sequenceId \in [Blocks -> Nat]
    BY <1>3, <2>1, Zenon
  <2>3. ASSUME NEW x \in c.chainTx PROVE WorkLess(e, x, c.tip) <=> WorkLess(c, x, c.tip)
    <3>1. x \in Blocks \ linked /\ c.tip \in Blocks \ linked
      BY <1>1, <1>2, Zenon
    <3> QED BY <2>1, <3>1, Zenon DEF WorkLess
  <2>4. Failed(e) = Failed(c)
    BY <1>3, Zenon DEF Failed
  <2>5. \A x \in e.chainTx : Unfailed(e, x) /\ ~WorkLess(e, x, e.tip) => x \in e.candidates
    BY <1>3, <1>4, <2>1, <2>3, Zenon DEF Full
  <2> QED BY <1>3, <2>1, <2>2, <2>4, <2>5, Zenon DEF Full
<1>6. CASE Parent[b] \notin c.chainTx
  <2>1. e.chainTx = c.chainTx /\ e.sequenceId = c.sequenceId /\ e.candidates = c.candidates
    BY <1>1, <1>6, ReceivedFields
  <2>2. Failed(e) = Failed(c)
    BY <1>3, Zenon DEF Failed
  <2> QED BY <1>3, <1>4, <2>1, <2>2, Zenon DEF Full, WorkLess
<1> QED BY <1>5, <1>6, Zenon

LEMMA AcceptFull ==
  ASSUME NEW rejected, NEW c, LinkedIndex(c), SoundTip(c, rejected), Full(c, c.tip, rejected),
         c.sequenceId \in [Blocks -> Nat],
         NEW b \in Blocks \ {Genesis}, HeaderAcceptable(c, b), NEW f,
         NEW e, e = AcceptBlock(c, b, f)[1]
  PROVE  Full(e, e.tip, rejected) /\ e.sequenceId \in [Blocks -> Nat] /\ e.asserted = c.asserted
<1> DEFINE d == AddToBlockIndex(c, b)
           bad == [d EXCEPT !.failedValid = d.failedValid \cup {b}]
           rec == ReceivedBlockTransactions(d, b)
<1>1. /\ LinkedIndex(d) /\ d \in IndexType /\ d.haveData = c.haveData /\ d.tip = c.tip /\ b \in d.index
      /\ d.failedValid = c.failedValid /\ d.failedChild = c.failedChild /\ d.chainTx = c.chainTx
      /\ d.sequenceId = c.sequenceId /\ d.candidates = c.candidates /\ d.asserted = c.asserted
  <2>1. c \in IndexType /\ (b \in c.index \/ Parent[b] \in c.index)
    BY Zenon DEF HeaderAcceptable, LinkedIndex, IndexOK
  <2>2. LinkedIndex(d)
    BY <2>1, HeaderLinked, Zenon
  <2> QED BY <2>1, <2>2, HeaderFields, Zenon
<1>2. \/ e = d
      \/ b \notin d.haveData /\ (e = bad \/ e = rec)
  BY Zenon DEF AcceptBlock
<1> HIDE DEF d
<1>3. Failed(d) = Failed(c)
  BY <1>1, Zenon DEF Failed
<1>4. Full(d, d.tip, rejected)
  BY <1>1, <1>3 DEF Full, Unfailed, WorkLess
<1>5. /\ bad.tip = d.tip /\ bad.failedValid = d.failedValid \cup {b} /\ bad.failedChild = d.failedChild
      /\ bad.chainTx = d.chainTx /\ bad.sequenceId = d.sequenceId /\ bad.candidates = d.candidates
      /\ bad.asserted = d.asserted
  BY <1>1, Zenon DEF IndexType
<1> HIDE DEF bad
<1>6. b \notin d.haveData => Full(bad, bad.tip, rejected)
  <2>1. Ancestry[d.tip] \subseteq d.haveData
    BY <1>1, Zenon DEF LinkedIndex, IndexOK
  <2>2. Failed(bad) = Failed(d) \cup {b}
    BY <1>5, Zenon DEF Failed
  <2> QED BY <1>4, <1>5, <2>1, <2>2, Zenon DEF Full, Unfailed, WorkLess
<1>7. b \notin d.haveData => /\ Full(rec, rec.tip, rejected) /\ rec.sequenceId \in [Blocks -> Nat]
                             /\ rec.asserted = d.asserted
  BY <1>1, <1>4, ReceivedFull
<1> HIDE DEF rec
<1> QED BY <1>1, <1>2, <1>4, <1>5, <1>6, <1>7, Zenon
=============================================================================
