----------------------------- MODULE BlockIndex -----------------------------
(***************************************************************************)
(* The in-memory block index of validation.cpp: the tree of known blocks,  *)
(* their status flags, setBlockIndexCandidates, mapBlocksUnlinked and the  *)
(* active chain.  Everything here runs under cs_main, so every function of *)
(* the source is an operator from one index value to the next; modules     *)
(* that own the variable decide which calls share one critical section.    *)
(*                                                                         *)
(* An index value c is a record:                                           *)
(*   index         the keys of mapBlockIndex                               *)
(*   haveData      blocks with BLOCK_HAVE_DATA (nothing is ever pruned)    *)
(*   failedValid   blocks with BLOCK_FAILED_VALID                          *)
(*   failedChild   blocks with BLOCK_FAILED_CHILD                          *)
(*   chainTx       blocks with nChainTx # 0                                *)
(*   unlinked      the place of a block among the entries of its parent in *)
(*                 mapBlocksUnlinked, 1 for the oldest, 0 if it is not there*)
(*   sequenceId    nSequenceId of every block                              *)
(*   candidates    setBlockIndexCandidates                                 *)
(*   tip           chainActive.Tip(); the active chain is its ancestry     *)
(*   reverseId, preciousWork    the two counters of PreciousBlock          *)
(*   asserted      an assert of the source has failed and ended the process*)
(***************************************************************************)
EXTENDS Integers, Sequences, FiniteSets

CONSTANTS
  Blocks,           \* every block the node may ever hear of
  Genesis,          \* hashGenesisBlock
  Parent,           \* hashPrevBlock of every other block
  Ancestry,         \* Ancestry[b]: b and all its ancestors
  Height,           \* nHeight
  ChainWork,        \* nChainWork
  Address,          \* where the CBlockIndex of a block is allocated
  NoBlock,          \* the NULL CBlockIndex pointer
  MalformedBlocks,  \* blocks AcceptBlock's ContextualCheckBlock rejects
  MIN_BLOCKS_TO_KEEP

ASSUME BlockTree ==
  /\ IsFiniteSet(Blocks)
  /\ Genesis \in Blocks /\ NoBlock \notin Blocks
  /\ Parent \in [Blocks \ {Genesis} -> Blocks]
  /\ Ancestry \in [Blocks -> SUBSET Blocks]
  /\ Ancestry[Genesis] = {Genesis}
  /\ \A b \in Blocks \ {Genesis} :
       /\ Ancestry[b] = {b} \cup Ancestry[Parent[b]]
       /\ b \notin Ancestry[Parent[b]]
  /\ Height \in [Blocks -> Nat] /\ Height[Genesis] = 0
  /\ ChainWork \in [Blocks -> Nat \ {0}]
  /\ \A b \in Blocks \ {Genesis} :
       Height[b] = Height[Parent[b]] + 1 /\ ChainWork[b] > ChainWork[Parent[b]]
  /\ Address \in [Blocks -> Nat]
  /\ \A a, b \in Blocks : Address[a] = Address[b] => a = b
  /\ MalformedBlocks \subseteq Blocks \ {Genesis}

Descends(b, a) == a \in Ancestry[b]

\* CChain::FindFork: the last block of b's chain that is on a's chain too.
FindFork(a, b) ==
  CHOOSE f \in Ancestry[a] \cap Ancestry[b] :
    \A x \in Ancestry[a] \cap Ancestry[b] : Descends(f, x)

-----------------------------------------------------------------------------
InitialIndex ==
  [index |-> {Genesis}, haveData |-> {Genesis}, failedValid |-> {},
   failedChild |-> {}, chainTx |-> {Genesis}, unlinked |-> [b \in Blocks |-> 0],
   sequenceId |-> [b \in Blocks |-> 0], candidates |-> {Genesis},
   tip |-> Genesis, reverseId |-> -1, preciousWork |-> 0, asserted |-> FALSE]

IndexType ==
  [index : SUBSET Blocks, haveData : SUBSET Blocks, failedValid : SUBSET Blocks,
   failedChild : SUBSET Blocks, chainTx : SUBSET Blocks, unlinked : [Blocks -> Nat],
   sequenceId : [Blocks -> Int], candidates : SUBSET Blocks, tip : Blocks,
   reverseId : Int, preciousWork : Nat, asserted : BOOLEAN]

Waiting(c) == {b \in Blocks : c.unlinked[b] # 0}

Failed(c) == c.failedValid \cup c.failedChild

\* CBlockIndex::IsValid() with its default argument BLOCK_VALID_TRANSACTIONS.
IsValid(c, b) == b \in c.haveData \ Failed(c)

\* Every flag is on a known block, the known blocks form a tree, blocks with
\* nChainTx have data, and candidates and waiting blocks have data.
IndexOK(c) ==
  /\ c \in IndexType
  /\ {c.tip} \cup c.haveData \cup Failed(c) \subseteq c.index
  /\ \A b \in c.index : Ancestry[b] \subseteq c.index
  /\ c.chainTx \cup c.candidates \cup Waiting(c) \subseteq c.haveData

InActiveChain(c, b) == Descends(c.tip, b)

\* CBlockIndexWorkComparator: a sorts before (is worse than) b.
WorkLess(c, a, b) ==
  \/ ChainWork[a] < ChainWork[b]
  \/ /\ ChainWork[a] = ChainWork[b]
     /\ \/ c.sequenceId[a] > c.sequenceId[b]
        \/ c.sequenceId[a] = c.sequenceId[b] /\ Address[a] > Address[b]

\* Mutants: the current tip is pruned too; nothing is pruned.
PruneTipToo(c) ==
  LET left == {b \in c.candidates : WorkLess(c, c.tip, b)}
  IN  [c EXCEPT !.candidates = left, !.asserted = left = {}]

PruneNothing(c) == c

PruneBlockIndexCandidates(c) ==
  LET left == {b \in c.candidates : ~WorkLess(c, b, c.tip)}
  IN  [c EXCEPT !.candidates = left, !.asserted = left = {}]

-----------------------------------------------------------------------------
(* Headers and block data. *)

AddToBlockIndex(c, b) == [c EXCEPT !.index = @ \cup {b}]

\* AcceptBlockHeader succeeds: the header is known and not failed, or it is new
\* and its parent is known and not failed.
HeaderAcceptable(c, b) ==
  IF b \in c.index THEN b \notin Failed(c)
                   ELSE Parent[b] \in c.index \ Failed(c)

\* The child of a on the way to b.
Toward(a, b) == CHOOSE x \in Ancestry[b] \ {Genesis} : Parent[x] = a

\* The queue of ReceivedBlockTransactions works breadth first from b through the
\* blocks mapBlocksUnlinked holds: it takes all that wait only for b, level by level,
\* and blocks of one level in the order of their entries where their chains part.
LinkedBy(c, b) ==
  {x \in Blocks : Descends(x, b) /\ Ancestry[x] \ Ancestry[b] \subseteq Waiting(c)}

Sooner(c, x, y) ==
  LET fork == FindFork(x, y)
  IN  \/ Height[x] < Height[y]
      \/ /\ Height[x] = Height[y] /\ x # y
         /\ c.unlinked[Toward(fork, x)] < c.unlinked[Toward(fork, y)]

\* Mutant: BLOCK_HAVE_DATA is not set.
ReceivedWithoutHaveData(c, b) ==
  IF Parent[b] \in c.chainTx THEN [c EXCEPT !.chainTx = @ \cup {b}] ELSE c

ReceivedBlockTransactions(c, b) ==
  LET d == [c EXCEPT !.haveData = @ \cup {b}]
      linked == LinkedBy(c, b)
      Position(x) == Cardinality({y \in linked : Sooner(c, y, x)})
      siblings == {x \in Waiting(c) : Parent[x] = Parent[b]}
      e == [d EXCEPT !.chainTx = @ \cup linked,
                     !.sequenceId = [x \in Blocks |-> IF x \in linked
                                       THEN Cardinality(c.chainTx) + Position(x) ELSE @[x]],
                     !.unlinked = [x \in Blocks |-> IF x \in linked THEN 0 ELSE @[x]]]
  IN  IF Parent[b] \in c.chainTx
      THEN [e EXCEPT !.candidates = @ \cup {x \in linked : ~WorkLess(e, x, e.tip)}]
      ELSE IF Parent[b] \notin Failed(c)
      THEN [d EXCEPT !.unlinked[b] = Cardinality(siblings) + 1]
      ELSE d

\* AcceptBlock after AcceptBlockHeader has succeeded.  The second component of
\* the result is the return value.
AcceptBlock(c, b, fRequested) ==
  LET d == AddToBlockIndex(c, b)
      fHasMoreWork == ChainWork[b] > ChainWork[c.tip]
      fTooFarAhead == Height[b] > Height[c.tip] + MIN_BLOCKS_TO_KEEP
  IN  IF \/ b \in d.haveData
         \/ ~fRequested /\ (~fHasMoreWork \/ fTooFarAhead)
      THEN <<d, TRUE>>
      ELSE IF b \in MalformedBlocks
      THEN <<[d EXCEPT !.failedValid = @ \cup {b}], FALSE>>
      ELSE <<ReceivedBlockTransactions(d, b), TRUE>>

-----------------------------------------------------------------------------
(* Marking blocks invalid and reconsidering them. *)

InvalidateWithoutCandidates(c, b) ==
  LET walked == {x \in Ancestry[c.tip] : Descends(x, b)}
  IN  [c EXCEPT !.failedValid = @ \cup {b},
                !.failedChild = @ \cup walked,
                !.candidates = @ \ ({b} \cup walked),
                !.tip = IF InActiveChain(c, b) THEN Parent[b] ELSE @]

InvalidateBlock(c, b) ==
  LET walked == {x \in Ancestry[c.tip] : Descends(x, b)}
      d == [c EXCEPT !.failedValid = @ \cup {b},
                     !.failedChild = @ \cup walked,
                     !.candidates = @ \ ({b} \cup walked),
                     !.tip = IF InActiveChain(c, b) THEN Parent[b] ELSE @]
  IN  [d EXCEPT !.candidates = @ \cup
         {x \in d.chainTx : IsValid(d, x) /\ ~WorkLess(d, x, d.tip)}]

ResetBlockFailureFlags(c, b) ==
  LET reset == {x \in c.index : ~IsValid(c, x) /\ Descends(x, b)}
      clear == reset \cup Ancestry[b]
  IN  [c EXCEPT !.failedValid = @ \ clear,
                !.failedChild = @ \ clear,
                !.candidates = @ \cup {x \in reset \cap c.haveData \cap c.chainTx :
                                         WorkLess(c, c.tip, x)}]

\* PreciousBlock up to its call of ActivateBestChain, for a block that has at
\* least the work of the tip.
PreciousBlock(c, b) ==
  LET id == IF ChainWork[c.tip] > c.preciousWork THEN -1 ELSE c.reverseId
      d  == [c EXCEPT !.preciousWork = ChainWork[c.tip],
                      !.candidates = @ \ {b},
                      !.sequenceId[b] = id,
                      !.reverseId = id - 1]
  IN  IF IsValid(d, b) /\ b \in d.chainTx
      THEN PruneBlockIndexCandidates([d EXCEPT !.candidates = @ \cup {b}])
      ELSE d

-----------------------------------------------------------------------------
(* Choosing and activating the best chain. *)

\* The blocks FindMostWorkChain walks from a candidate down to the active chain.
Branch(c, b) == Ancestry[b] \ Ancestry[c.tip]

Usable(c, b) == Branch(c, b) \cap Failed(c) = {}

\* FindMostWorkChain drops candidates from the best downwards until one has no
\* failed block on its branch.  Of a dropped candidate the blocks above the
\* topmost failed one become BLOCK_FAILED_CHILD, and they and it are erased.
FindMostWorkChain(c) ==
  LET usable  == {b \in c.candidates : Usable(c, b)}
      best    == {b \in usable : \A x \in usable : ~WorkLess(c, b, x)}
      dropped == {b \in c.candidates \ usable : \A x \in best : WorkLess(c, x, b)}
      Above(b, x) == {y \in Branch(c, b) : Descends(y, x)}
      marked  == UNION {{x \in Branch(c, b) : Above(b, x) \cap Failed(c) = {}}
                          : b \in dropped}
      erased  == UNION {{x \in Branch(c, b) : (Above(b, x) \ {x}) \cap Failed(c) = {}}
                          : b \in dropped}
  IN  [chain |-> [c EXCEPT !.failedChild = @ \cup marked,
                           !.candidates = @ \ erased],
       mostWork |-> IF best = {} THEN NoBlock ELSE CHOOSE b \in best : TRUE]

\* ActivateBestChainStep: disconnect to the fork with mw, then connect towards
\* mw until a block fails ConnectBlock or the tip has more work than before.
\* ConnectTip does not look at the failure flags.  ConnectBlock fails for the
\* rejected blocks, which go through InvalidBlockFound.
ActivateBestChainStep(c, mw, rejected) ==
  LET toConnect  == Branch(c, mw)
      Below(b)   == (Ancestry[b] \cap toConnect) \ {b}
      Reached(b) == \A x \in Below(b) : x \notin rejected /\ ChainWork[x] <= ChainWork[c.tip]
      connected  == {b \in toConnect : Reached(b) /\ b \notin rejected}
      failing    == {b \in toConnect : Reached(b) /\ b \in rejected}
      newTip     == CHOOSE b \in connected \cup {FindFork(c.tip, mw)} :
                      \A x \in connected : Descends(b, x)
      d == [c EXCEPT !.tip = newTip]
      e == IF connected = {} THEN d ELSE PruneBlockIndexCandidates(d)
  IN  [chain |-> [e EXCEPT !.failedValid = @ \cup failing,
                           !.candidates = @ \ failing],
       connected |-> connected, fInvalidFound |-> failing # {}]
=============================================================================
