----------------------------- MODULE ChainState -----------------------------
(***************************************************************************)
(* Block processing in validation.cpp as the node's threads drive it:      *)
(* headers and blocks from the network, the invalidateblock,               *)
(* reconsiderblock and preciousblock commands, and ActivateBestChain, which *)
(* every one of them ends in.  ActivateBestChain releases cs_main between  *)
(* the iterations of its loop and keeps pindexMostWork across them, so an  *)
(* iteration is one step and pindexMostWork is per-thread state.           *)
(***************************************************************************)
EXTENDS BlockIndex

CONSTANTS
  Threads,          \* threads that process blocks: message handler, RPC, ...
  Idle,             \* a thread outside ActivateBestChain
  InvalidBlocks,    \* blocks that fail ConnectBlock
  Commands,         \* the RPC commands the operator uses
  MaxCommands,      \* bound on the number of commands
  nMaxReorgDepth, nMaxReorgDepthEnforcementBlock, DIP0008Height

ASSUME ChainStateAssumption ==
  /\ Idle \notin Blocks \cup {NoBlock}
  /\ InvalidBlocks \subseteq Blocks \ {Genesis}
  /\ Commands \subseteq {"invalidateblock", "reconsiderblock", "preciousblock"}
  /\ MaxCommands \in Nat
  /\ {nMaxReorgDepth, nMaxReorgDepthEnforcementBlock, DIP0008Height} \subseteq Nat

VARIABLES
  chain,       \* the block index, guarded by cs_main
  mostWork,    \* mostWork[t]: pindexMostWork of t's ActivateBestChain, or Idle
  commands     \* operator commands given so far

vars == <<chain, mostWork, commands>>

\* The variables have their types and the block index is well formed.
TypeOK ==
  /\ IndexOK(chain)
  /\ mostWork \in [Threads -> Blocks \cup {NoBlock, Idle}]
  /\ commands \in 0..MaxCommands

Init ==
  /\ chain = InitialIndex
  /\ mostWork = [t \in Threads |-> Idle]
  /\ commands = 0

-----------------------------------------------------------------------------
\* Mutant: one block more than the maximum passes.
DeepReorgOffByOne(c, mw) ==
  LET fork == FindFork(c.tip, mw)
  IN  /\ Height[c.tip] >= nMaxReorgDepthEnforcementBlock
      /\ Height[c.tip] < DIP0008Height + 100
      /\ fork # c.tip
      /\ Height[fork] < Height[c.tip] - nMaxReorgDepth - 1

\* A reorganisation so deep that the node refuses it.  The rule applies only
\* while the active height is in the enforcement window.
DeepReorg(c, mw) ==
  LET fork == FindFork(c.tip, mw)
  IN  /\ Height[c.tip] >= nMaxReorgDepthEnforcementBlock
      /\ Height[c.tip] < DIP0008Height + 100
      /\ fork # c.tip
      /\ Height[fork] < Height[c.tip] - nMaxReorgDepth

\* Mutants: the loop goes on until an iteration finds nothing to do; it ends after
\* the first step that finds no invalid block.
NextMostWorkNeverDone(step, mw) == IF step.fInvalidFound THEN NoBlock ELSE mw

NextMostWorkOneStep(step, mw) == IF step.fInvalidFound THEN NoBlock ELSE Idle

\* pindexMostWork after a step: wiped when an invalid block was found, and the
\* loop ends when the new tip is pindexMostWork.
NextMostWork(step, mw) ==
  CASE step.fInvalidFound  -> NoBlock
    [] step.chain.tip = mw -> Idle
    [] OTHER               -> mw

\* One iteration of the loop of ActivateBestChain, started with pindexMostWork
\* = mw.  next is the thread's pindexMostWork afterwards, Idle when the call
\* returns; connected and newTip are what the notifications report.
Iteration(c, mw, rejected) ==
  LET found == IF mw = NoBlock THEN FindMostWorkChain(c)
                               ELSE [chain |-> c, mostWork |-> mw]
      d == found.chain
      m == found.mostWork
      step == ActivateBestChainStep(d, m, rejected)
  IN  IF m = NoBlock \/ m = d.tip
      THEN [chain |-> d, next |-> Idle, connected |-> {}, notify |-> FALSE]
      ELSE IF mw = NoBlock /\ DeepReorg(d, m)
      THEN [chain |-> InvalidateBlock(d, CHOOSE b \in Branch(d, m) :
                                           Parent[b] = FindFork(d.tip, m)),
            next |-> Idle, connected |-> {}, notify |-> TRUE]
      ELSE [chain |-> step.chain,
            next |-> NextMostWork(step, m),
            connected |-> step.connected,
            notify |-> ~InActiveChain(d, step.chain.tip)]

\* An assertion has failed: the process is gone.
Aborted == chain.asserted

ActivateBestChain(t) ==
  /\ ~Aborted
  /\ mostWork[t] # Idle
  /\ LET i == Iteration(chain, mostWork[t], InvalidBlocks)
     IN  /\ chain' = i.chain
         /\ mostWork' = [mostWork EXCEPT ![t] = i.next]
  /\ UNCHANGED commands

\* AcceptBlockHeader for a header of a headers message.
ProcessNewBlockHeaders(b) ==
  /\ ~Aborted
  /\ b \notin chain.index
  /\ HeaderAcceptable(chain, b)
  /\ chain' = AddToBlockIndex(chain, b)
  /\ UNCHANGED <<mostWork, commands>>

\* ProcessNewBlock: accept the block, then enter ActivateBestChain unless
\* AcceptBlock failed.
ProcessNewBlock(t, b, fForceProcessing) ==
  /\ ~Aborted
  /\ mostWork[t] = Idle
  /\ HeaderAcceptable(chain, b)
  /\ LET accepted == AcceptBlock(chain, b, fForceProcessing)
     IN  /\ chain' = accepted[1]
         /\ mostWork' = [mostWork EXCEPT ![t] = IF accepted[2] THEN NoBlock ELSE Idle]
  /\ UNCHANGED commands

\* The three commands hold cs_main while they change the index and then call
\* ActivateBestChain without it.
Command(name, t, b) ==
  /\ name \in Commands
  /\ ~Aborted
  /\ mostWork[t] = Idle
  /\ commands < MaxCommands
  /\ b \in chain.index \ {Genesis}
  /\ mostWork' = [mostWork EXCEPT ![t] = NoBlock]
  /\ commands' = commands + 1

RpcInvalidateBlock(t, b) ==
  /\ Command("invalidateblock", t, b)
  /\ chain' = InvalidateBlock(chain, b)

RpcReconsiderBlock(t, b) ==
  /\ Command("reconsiderblock", t, b)
  /\ chain' = ResetBlockFailureFlags(chain, b)

RpcPreciousBlock(t, b) ==
  /\ Command("preciousblock", t, b)
  /\ ChainWork[b] >= ChainWork[chain.tip]
  /\ chain' = PreciousBlock(chain, b)

Next ==
  \/ \E b \in Blocks \ {Genesis} : ProcessNewBlockHeaders(b)
  \/ \E t \in Threads :
       \/ ActivateBestChain(t)
       \/ \E b \in Blocks \ {Genesis} :
            \/ \E f \in BOOLEAN : ProcessNewBlock(t, b, f)
            \/ RpcInvalidateBlock(t, b)
            \/ RpcReconsiderBlock(t, b)
            \/ RpcPreciousBlock(t, b)

Spec == Init /\ [][Next]_vars

\* A thread inside ActivateBestChain keeps running: WF_vars(ActivateBestChain(t))
\* with its ENABLED written out.
FairSpec ==
  /\ Spec
  /\ \A t \in Threads :
       \/ []<>(mostWork[t] = Idle \/ Aborted)
       \/ []<><<ActivateBestChain(t)>>_vars

-----------------------------------------------------------------------------
(* What CheckBlockIndex and the other assertions of validation.cpp say. *)

\* No thread is inside ActivateBestChain.
Quiescent == \A t \in Threads : mostWork[t] = Idle

\* The half of validation.cpp:5773 the linking code maintains whatever is
\* invalidated or reconsidered: a block has nChainTx only if it and all its
\* ancestors have data, so ConnectTip always finds the block it reads.
ChainTxSound == \A b \in chain.chainTx : Ancestry[b] \subseteq chain.haveData

NoInvalidAncestor(b) == Ancestry[b] \cap chain.failedValid = {}

\* validation.cpp:5784.  A block carries a failure flag only if it or one of its
\* ancestors carries BLOCK_FAILED_VALID.  ResetBlockFailureFlags breaks this, so it
\* is checked without reconsiderblock.
FailureHasACause ==
  \A b \in chain.index : NoInvalidAncestor(b) => b \notin Failed(chain)

\* validation.cpp:5793.  A block that sorts at least as good as the tip, with all
\* data and no invalid ancestor, is in setBlockIndexCandidates.  CheckBlockIndex
\* runs at the end of ActivateBestChain, never between its iterations.  Checked
\* without reconsiderblock, which clears ancestors without adding them, and for two
\* commands: PreciousBlock starts its counter anew when the chain has grown, so after
\* several commands it may raise the nSequenceId of an old precious tip, and blocks
\* of the same work that were pruned are as good as the tip again.
CandidatesComplete ==
  Quiescent =>
    \A b \in chain.chainTx :
      ~WorkLess(chain, b, chain.tip) /\ NoInvalidAncestor(b) => b \in chain.candidates

\* validation.cpp:5800.  setBlockIndexCandidates holds only blocks that have all
\* data and sort at least as good as the tip.
CandidatesSound ==
  \A b \in chain.candidates : b \in chain.chainTx /\ ~WorkLess(chain, b, chain.tip)

\* validation.cpp:5773 and 5811-5818 for blocks without an invalid ancestor.  A
\* block with data has nChainTx exactly when all its ancestors have data, and
\* otherwise is in mapBlocksUnlinked, whatever the order in which the data came.
\* Below an invalid block the code maintains less: a child that arrives while its
\* parent is marked is not put in mapBlocksUnlinked, and its own children are.
UnlinkedExact ==
  \A b \in chain.haveData :
    NoInvalidAncestor(b) =>
      /\ b \in chain.chainTx <=> Ancestry[b] \subseteq chain.haveData
      /\ b \in Waiting(chain) <=> b \notin chain.chainTx

\* What CheckBlockIndex asserts of the whole index after every call that changes it,
\* for sequences of commands without reconsiderblock.
CheckBlockIndex ==
  ChainTxSound /\ FailureHasACause /\ CandidatesComplete /\ CandidatesSound /\ UnlinkedExact

\* validation.cpp:3835.  Pruning the candidates never leaves the set empty.
NeverAborted == ~Aborted

\* No fully received chain without a failed block sorts better than the active one.
BestChain(c) ==
  \A b \in c.chainTx : Ancestry[b] \cap Failed(c) = {} => ~WorkLess(c, c.tip, b)

\* A thread that leaves ActivateBestChain without a new failed block leaves the best
\* chain active.
ReturnsBestChain ==
  \A t \in Threads :
    mostWork[t] # Idle /\ mostWork'[t] = Idle /\ chain'.failedValid = chain.failedValid
      => BestChain(chain')

\* validation.cpp:3949-3951, "The result is either failure or an activated best
\* chain": when a call of ActivateBestChain returns, the best chain is active.  The
\* call that refuses a deep reorganisation, which is the only one to return with a
\* new failed block, fails; it may leave a better chain for the next call.
BestChainActive == [][ReturnsBestChain]_vars

\* validation.cpp:3983-4000.  While the active height is in the enforcement window
\* block processing never replaces more than nMaxReorgDepth active blocks at once.
NoDeepReorg ==
  [][ \/ commands' # commands
      \/ Height[chain.tip] < nMaxReorgDepthEnforcementBlock
      \/ Height[chain.tip] >= DIP0008Height + 100
      \/ Height[FindFork(chain.tip, chain'.tip)] >= Height[chain.tip] - nMaxReorgDepth
    ]_vars

\* validation.cpp:3962-4049.  The loop of ActivateBestChain ends, also when another
\* thread's loop works towards a different chain and undoes its steps.
ActivationTerminates ==
  \A t \in Threads : mostWork[t] # Idle ~> mostWork[t] = Idle \/ Aborted
=============================================================================
