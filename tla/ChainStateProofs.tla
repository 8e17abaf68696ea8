-------------------------- MODULE ChainStateProofs --------------------------
(***************************************************************************)
(* Proofs about ChainState and ChainLocks, for any finite block tree.      *)
(***************************************************************************)
EXTENDS ChainLocks, BlockIndexProofs

\* The three ways an iteration of ActivateBestChain ends: nothing to do, a deep
\* reorganisation refused, a step made.  d and m are the index and pindexMostWork
\* after FindMostWorkChain, if it was called.
IterationTo(c, mw, rejected, i, d, m) ==
  /\ mw = NoBlock => d = FindMostWorkChain(c).chain /\ m = FindMostWorkChain(c).mostWork
  /\ mw # NoBlock => d = c /\ m = mw
  /\ \/ /\ m = NoBlock \/ m = d.tip
        /\ i.chain = d /\ i.next = Idle
     \/ /\ m \in d.chainTx /\ m # d.tip /\ mw = NoBlock /\ DeepReorg(d, m)
        /\ i.next = Idle
        /\ \E z \in Ancestry[m] \ Ancestry[d.tip] :
             /\ z # Genesis /\ Parent[z] = FindFork(d.tip, m)
             /\ i.chain = InvalidateBlock(d, z)
     \/ /\ m \in d.chainTx /\ m # d.tip /\ (mw # NoBlock \/ ~DeepReorg(d, m))
        /\ i.chain = ActivateBestChainStep(d, m, rejected).chain
        /\ i.next = NextMostWork(ActivateBestChainStep(d, m, rejected), m)

LEMMA IterationCases ==
  ASSUME NEW c, LinkedIndex(c), NEW mw \in c.chainTx \cup {NoBlock}, NEW rejected,
         NEW i, i = Iteration(c, mw, rejected)
  PROVE  \E d, m :
           /\ LinkedIndex(d) /\ (Ordered(c) => Ordered(d))
           /\ d.chainTx = c.chainTx /\ d.tip = c.tip
           /\ IterationTo(c, mw, rejected, i, d, m)
<1> DEFINE found == IF mw = NoBlock THEN FindMostWorkChain(c) ELSE [chain |-> c, mostWork |-> mw]
           d == found.chain
           m == found.mostWork
           step == ActivateBestChainStep(d, m, rejected)
           refused == CHOOSE b \in Branch(d, m) : Parent[b] = FindFork(d.tip, m)
<1>1. /\ LinkedIndex(d) /\ (Ordered(c) => Ordered(d)) /\ d.chainTx = c.chainTx /\ d.tip = c.tip
      /\ mw = NoBlock => d = FindMostWorkChain(c).chain /\ m = FindMostWorkChain(c).mostWork
      /\ mw # NoBlock => d = c /\ m = mw
  BY FindLinked, FindFields
<1>2. m = NoBlock \/ m \in d.chainTx
  BY <1>1, FindLinked, Zenon DEF LinkedIndex
<1>3. mw = NoBlock /\ m # NoBlock => m \in d.candidates
  BY FindLinked, Zenon
<1>4. i = IF m = NoBlock \/ m = d.tip
          THEN [chain |-> d, next |-> Idle, connected |-> {}, notify |-> FALSE]
          ELSE IF mw = NoBlock /\ DeepReorg(d, m)
          THEN [chain |-> InvalidateBlock(d, refused), next |-> Idle, connected |-> {}, notify |-> TRUE]
          ELSE [chain |-> step.chain, next |-> NextMostWork(step, m), connected |-> step.connected,
                notify |-> ~InActiveChain(d, step.chain.tip)]
  BY Zenon DEF Iteration
<1> HIDE DEF found, d, m, step, refused
<1>5. ASSUME m # NoBlock, m # d.tip, mw = NoBlock
      PROVE  refused \in Ancestry[m] \ Ancestry[d.tip] /\ refused # Genesis /\ Parent[refused] = FindFork(d.tip, m)
  <2>1. m \in Blocks /\ d.tip \in Blocks /\ ChainWork[m] >= ChainWork[d.tip]
    BY <1>1, <1>2, <1>3, <1>5, Zenon DEF LinkedIndex, IndexOK, IndexType
  <2>2. m \notin Ancestry[d.tip]
    BY <1>5, <2>1, Tree, BlockTree
  <2>3. PICK z \in Ancestry[m] \ Ancestry[d.tip] : z # Genesis /\ Parent[z] = FindFork(d.tip, m)
    BY <2>1, <2>2, ChildOfFork, Zenon
  <2>4. refused \in Branch(d, m) /\ Parent[refused] = FindFork(d.tip, m)
    BY <2>3, Zenon DEF refused, Branch
  <2> QED BY <2>1, <2>4, Tree, Zenon DEF Branch
<1>6. CASE m = NoBlock \/ m = d.tip
  BY <1>1, <1>4, <1>6 DEF IterationTo
<1>7. CASE m # NoBlock /\ m # d.tip /\ mw = NoBlock /\ DeepReorg(d, m)
  <2>1. i.next = Idle /\ i.chain = InvalidateBlock(d, refused)
    BY <1>4, <1>7
  <2>2. m \in d.chainTx
    BY <1>2, <1>7, Zenon
  <2>3. IterationTo(c, mw, rejected, i, d, m)
    BY <1>1, <1>5, <1>7, <2>1, <2>2, Zenon DEF IterationTo
  <2> QED BY <1>1, <2>3, Zenon
<1>8. CASE m # NoBlock /\ m # d.tip /\ ~(mw = NoBlock /\ DeepReorg(d, m))
  <2>1. i.next = NextMostWork(step, m) /\ i.chain = step.chain
    BY <1>4, <1>8
  <2>2. m \in d.chainTx
    BY <1>2, <1>8, Zenon
  <2>3. IterationTo(c, mw, rejected, i, d, m)
    BY <1>1, <1>8, <2>1, <2>2, Zenon DEF IterationTo, step
  <2> QED BY <1>1, <2>3, Zenon
<1> QED BY <1>6, <1>7, <1>8, Zenon

LEMMA IterationLinked ==
  ASSUME NEW c, LinkedIndex(c), NEW mw \in c.chainTx \cup {NoBlock}, NEW rejected,
         NEW i, i = Iteration(c, mw, rejected)
  PROVE  /\ LinkedIndex(i.chain)
         /\ Ordered(c) => Ordered(i.chain)
         /\ i.chain.chainTx = c.chainTx
         /\ i.next \in c.chainTx \cup {NoBlock, Idle}
<1>1. PICK d, m : /\ LinkedIndex(d) /\ (Ordered(c) => Ordered(d))
                  /\ d.chainTx = c.chainTx /\ d.tip = c.tip
                  /\ IterationTo(c, mw, rejected, i, d, m)
  BY IterationCases, Zenon
<1>2. d \in IndexType /\ d.chainTx \subseteq Blocks /\ d.chainTx \subseteq d.index
  BY <1>1, Zenon DEF LinkedIndex, IndexOK, IndexType
<1>3. CASE i.chain = d /\ i.next = Idle
  BY <1>1, <1>3, Zenon
<1>4. CASE /\ m \in d.chainTx /\ i.next = Idle
           /\ \E z \in Ancestry[m] \ Ancestry[d.tip] : z # Genesis /\ i.chain = InvalidateBlock(d, z)
  <2>1. PICK z \in Ancestry[m] : z # Genesis /\ i.chain = InvalidateBlock(d, z)
    BY <1>4, Zenon
  <2>2. z \in d.index \ {Genesis} /\ z \in Blocks \ {Genesis}
    BY <1>1, <1>2, <1>4, <2>1, Zenon DEF LinkedIndex
  <2>3. LinkedIndex(i.chain) /\ (Ordered(d) => Ordered(i.chain))
    BY <1>1, <2>1, <2>2, InvalidateLinked, Zenon
  <2>4. i.chain.chainTx = d.chainTx
    BY <1>2, <2>1, <2>2, InvalidateFields
  <2> QED BY <1>1, <1>4, <2>3, <2>4, Zenon
<1>5. CASE /\ m \in d.chainTx
           /\ i.chain = ActivateBestChainStep(d, m, rejected).chain
           /\ i.next = NextMostWork(ActivateBestChainStep(d, m, rejected), m)
  <2>1. LinkedIndex(i.chain) /\ (Ordered(d) => Ordered(i.chain))
    BY <1>1, <1>5, StepLinked, Zenon
  <2>2. i.chain.chainTx = d.chainTx
    BY <1>2, <1>5, StepFields
  <2>3. i.next \in {NoBlock, Idle, m}
    BY <1>5, Zenon DEF NextMostWork
  <2> QED BY <1>1, <1>5, <2>1, <2>2, <2>3, Zenon
<1> QED BY <1>1, <1>3, <1>4, <1>5, Zenon DEF IterationTo

-----------------------------------------------------------------------------
(* Any number of threads. *)

LinkedInv ==
  /\ LinkedIndex(chain)
  /\ mostWork \in [Threads -> chain.chainTx \cup {NoBlock, Idle}]
  /\ commands \in 0..MaxCommands

LEMMA LinkedInit == Init => LinkedInv /\ Ordered(chain)
<1> SUFFICES ASSUME Init PROVE LinkedInv /\ Ordered(chain)
  OBVIOUS
<1>1. chain \in IndexType
  BY BlockTree DEF Init, InitialIndex, IndexType
<1>2. /\ chain.index = {Genesis} /\ chain.haveData = {Genesis} /\ chain.chainTx = {Genesis}
      /\ chain.candidates = {Genesis} /\ chain.tip = Genesis
      /\ Failed(chain) = {} /\ Waiting(chain) = {}
      /\ chain.sequenceId \in [Blocks -> Int]
  BY DEF Init, InitialIndex, Failed, Waiting
<1>3. ChainWork[Genesis] \in Nat /\ Genesis \in Blocks /\ Ancestry[Genesis] = {Genesis}
  BY BlockTree, Zenon
<1>4. IndexOK(chain)
  BY <1>1, <1>2, <1>3, Zenon DEF IndexOK
<1>5. LinkedIndex(chain)
  BY <1>2, <1>3, <1>4 DEF LinkedIndex
<1>6. Ordered(chain)
  BY <1>2, <1>3, WorkOrder DEF Ordered
<1>7. commands \in 0..MaxCommands
  BY ChainStateAssumption DEF Init
<1> QED BY <1>5, <1>6, <1>7, Zenon DEF LinkedInv, Init

\* Every step keeps the links.  It keeps the candidates in order too, except that
\* preciousblock needs a valid tip.
LEMMA LinkedStep ==
  ASSUME LinkedInv, [Next]_vars
  PROVE  /\ LinkedInv'
         /\ Ordered(chain) /\ ("preciousblock" \in Commands => IsValid(chain, chain.tip))
              => Ordered(chain')
<1> DEFINE Goal == /\ LinkedInv'
                   /\ Ordered(chain) /\ ("preciousblock" \in Commands => IsValid(chain, chain.tip))
                        => Ordered(chain')
<1>0. /\ LinkedIndex(chain) /\ chain \in IndexType /\ chain.index \subseteq Blocks
      /\ mostWork \in [Threads -> chain.chainTx \cup {NoBlock, Idle}]
      /\ commands \in 0..MaxCommands
  BY Zenon DEF LinkedInv, LinkedIndex, IndexOK, IndexType
<1>1. ASSUME NEW t \in Threads, ActivateBestChain(t) PROVE Goal
  <2> DEFINE i == Iteration(chain, mostWork[t], InvalidBlocks)
  <2>1. /\ mostWork[t] \in chain.chainTx \cup {NoBlock} /\ chain' = i.chain
        /\ mostWork' = [mostWork EXCEPT ![t] = i.next] /\ commands' = commands
    BY <1>0, <1>1, Zenon DEF ActivateBestChain
  <2>2. /\ LinkedIndex(i.chain) /\ (Ordered(chain) => Ordered(i.chain))
        /\ i.chain.chainTx = chain.chainTx /\ i.next \in chain.chainTx \cup {NoBlock, Idle}
    BY <1>0, <2>1, IterationLinked
  <2> HIDE DEF i
  <2> QED BY <1>0, <2>1, <2>2, Zenon DEF LinkedInv
<1>2. ASSUME NEW b \in Blocks \ {Genesis}, ProcessNewBlockHeaders(b) PROVE Goal
  <2>1. /\ LinkedIndex(chain') /\ (Ordered(chain) => Ordered(chain')) /\ chain'.chainTx = chain.chainTx
    BY <1>0, <1>2, HeaderLinked, HeaderFields, Zenon DEF ProcessNewBlockHeaders, HeaderAcceptable
  <2> QED BY <1>0, <1>2, <2>1, Zenon DEF LinkedInv, ProcessNewBlockHeaders
<1>3. ASSUME NEW t \in Threads, NEW b \in Blocks \ {Genesis}, NEW f \in BOOLEAN, ProcessNewBlock(t, b, f)
      PROVE  Goal
  <2>1. LinkedIndex(chain') /\ (Ordered(chain) => Ordered(chain'))
    BY <1>0, <1>3, AcceptLinked, Zenon DEF ProcessNewBlock
  <2>2. chain.chainTx \subseteq chain'.chainTx
    BY <1>0, <1>3, AcceptGrows, Zenon DEF ProcessNewBlock
  <2>3. mostWork' \in [Threads -> chain'.chainTx \cup {NoBlock, Idle}] /\ commands' = commands
    BY <1>0, <1>3, <2>2, Zenon DEF ProcessNewBlock
  <2> QED BY <1>0, <2>1, <2>3, Zenon DEF LinkedInv
<1>4. ASSUME NEW name, NEW t \in Threads, NEW b, Command(name, t, b)
      PROVE  /\ mostWork' \in [Threads -> chain.chainTx \cup {NoBlock, Idle}]
             /\ commands' \in 0..MaxCommands /\ name \in Commands /\ b \in chain.index \ {Genesis}
  BY <1>0, <1>4, ChainStateAssumption DEF Command
<1>5. ASSUME NEW t \in Threads, NEW b \in Blocks \ {Genesis}, RpcInvalidateBlock(t, b) PROVE Goal
  <2>1. /\ b \in chain.index \ {Genesis} /\ chain' = InvalidateBlock(chain, b)
        /\ mostWork' \in [Threads -> chain.chainTx \cup {NoBlock, Idle}] /\ commands' \in 0..MaxCommands
    BY <1>4, <1>5, Zenon DEF RpcInvalidateBlock
  <2>2. /\ LinkedIndex(chain') /\ (Ordered(chain) => Ordered(chain')) /\ chain'.chainTx = chain.chainTx
    BY <1>0, <2>1, InvalidateLinked, InvalidateFields
  <2> QED BY <2>1, <2>2, Zenon DEF LinkedInv
<1>6. ASSUME NEW t \in Threads, NEW b \in Blocks \ {Genesis}, RpcReconsiderBlock(t, b) PROVE Goal
  <2>1. /\ chain' = ResetBlockFailureFlags(chain, b)
        /\ mostWork' \in [Threads -> chain.chainTx \cup {NoBlock, Idle}] /\ commands' \in 0..MaxCommands
    BY <1>4, <1>6, Zenon DEF RpcReconsiderBlock
  <2>2. /\ LinkedIndex(chain') /\ (Ordered(chain) => Ordered(chain')) /\ chain'.chainTx = chain.chainTx
    BY <1>0, <2>1, ResetLinked, Zenon
  <2> QED BY <2>1, <2>2, Zenon DEF LinkedInv
<1>7. ASSUME NEW t \in Threads, NEW b \in Blocks \ {Genesis}, RpcPreciousBlock(t, b) PROVE Goal
  <2>1. /\ chain' = PreciousBlock(chain, b) /\ "preciousblock" \in Commands
        /\ ChainWork[b] >= ChainWork[chain.tip]
        /\ mostWork' \in [Threads -> chain.chainTx \cup {NoBlock, Idle}] /\ commands' \in 0..MaxCommands
    BY <1>4, <1>7, Zenon DEF RpcPreciousBlock
  <2>2. /\ LinkedIndex(chain') /\ (Ordered(chain) /\ IsValid(chain, chain.tip) => Ordered(chain'))
        /\ chain'.chainTx = chain.chainTx
    BY <1>0, <2>1, PreciousLinked, Zenon
  <2> QED BY <2>1, <2>2, Zenon DEF LinkedInv
<1>8. CASE UNCHANGED vars
  BY <1>0, <1>8, Zenon DEF vars, LinkedInv, Ordered
<1> QED BY <1>1, <1>2, <1>3, <1>5, <1>6, <1>7, <1>8, Zenon DEF Next

\* validation.cpp:4208-4254 and everything that marks, unmarks, orders and activates
\* blocks, called by any number of threads with any commands: the index stays well
\* formed, and a block has nChainTx only if it and all its ancestors have data, so
\* ConnectTip always finds the block it reads.
THEOREM IndexStaysLinked == Spec => [](TypeOK /\ ChainTxSound)
<1>1. LinkedInv /\ [Next]_vars => LinkedInv'
  BY LinkedStep, Zenon
<1>2. LinkedInv => TypeOK /\ ChainTxSound
  BY Zenon DEF LinkedInv, LinkedIndex, IndexOK, IndexType, TypeOK, ChainTxSound
<1> QED BY LinkedInit, <1>1, <1>2, PTL DEF Spec

\* validation.cpp:5800.  With any number of threads, setBlockIndexCandidates holds only
\* linked blocks that sort at least as good as the tip, as long as preciousblock is
\* not used.
THEOREM CandidatesStaySound ==
  ASSUME "preciousblock" \notin Commands
  PROVE  Spec => []CandidatesSound
<1> DEFINE Inv == LinkedInv /\ Ordered(chain)
<1>1. Init => Inv
  BY LinkedInit, Zenon
<1>2. Inv /\ [Next]_vars => Inv'
  BY LinkedStep, Zenon
<1>3. Inv => CandidatesSound
  BY Zenon DEF LinkedInv, LinkedIndex, Ordered, CandidatesSound
<1> QED BY <1>1, <1>2, <1>3, PTL DEF Spec

-----------------------------------------------------------------------------
(* Any number of threads, without reconsiderblock. *)

\* A step that is no reconsiderblock keeps both.
LEMMA ExactStep ==
  ASSUME LinkedInv, Cause(chain), Exact(chain), "reconsiderblock" \notin Commands, [Next]_vars
  PROVE  Cause(chain') /\ Exact(chain')
<1>0. /\ LinkedIndex(chain) /\ mostWork \in [Threads -> chain.chainTx \cup {NoBlock, Idle}]
  BY Zenon DEF LinkedInv
<1>1. ASSUME NEW t \in Threads, ActivateBestChain(t) PROVE Cause(chain') /\ Exact(chain')
  <2> DEFINE i == Iteration(chain, mostWork[t], InvalidBlocks)
  <2>1. mostWork[t] \in chain.chainTx \cup {NoBlock} /\ chain' = i.chain
    BY <1>0, <1>1, Zenon DEF ActivateBestChain
  <2>2. PICK d, m : /\ LinkedIndex(d) /\ d.chainTx = chain.chainTx
                    /\ IterationTo(chain, mostWork[t], InvalidBlocks, i, d, m)
    BY <1>0, <2>1, IterationCases, Zenon
  <2> HIDE DEF i
  <2>3. Cause(d) /\ Exact(d)
    BY <1>0, <2>2, FindExact, Zenon DEF IterationTo
  <2>4. CASE i.chain = d
    BY <2>1, <2>3, <2>4, Zenon
  <2>5. ASSUME NEW z \in Ancestry[m], m \in d.chainTx, z # Genesis, i.chain = InvalidateBlock(d, z)
        PROVE  Cause(chain') /\ Exact(chain')
    <3>1. z \in d.index \ {Genesis}
      BY <2>2, <2>5, Zenon DEF LinkedIndex, IndexOK
    <3> QED BY <2>1, <2>2, <2>3, <2>5, <3>1, InvalidateExact, Zenon
  <2>6. CASE m \in d.chainTx /\ i.chain = ActivateBestChainStep(d, m, InvalidBlocks).chain
    BY <2>1, <2>2, <2>3, <2>6, StepExact, Zenon
  <2> QED BY <2>2, <2>4, <2>5, <2>6, Zenon DEF IterationTo
<1>2. ASSUME NEW b \in Blocks \ {Genesis}, ProcessNewBlockHeaders(b) PROVE Cause(chain') /\ Exact(chain')
  <2>1. /\ chain'.haveData = chain.haveData /\ chain'.chainTx = chain.chainTx
        /\ chain'.failedValid = chain.failedValid /\ chain'.failedChild = chain.failedChild
        /\ chain'.unlinked = chain.unlinked
    BY <1>0, <1>2, HeaderFields, Zenon DEF ProcessNewBlockHeaders, LinkedIndex, IndexOK
  <2> QED BY <2>1, Zenon DEF Cause, Exact, Failed, Waiting
<1>3. ASSUME NEW t \in Threads, NEW b \in Blocks \ {Genesis}, NEW f \in BOOLEAN, ProcessNewBlock(t, b, f)
      PROVE  Cause(chain') /\ Exact(chain')
  BY <1>0, <1>3, AcceptExact, Zenon DEF ProcessNewBlock
<1>4. ASSUME NEW t \in Threads, NEW b \in Blocks \ {Genesis}, RpcInvalidateBlock(t, b)
      PROVE  Cause(chain') /\ Exact(chain')
  BY <1>0, <1>4, InvalidateExact, Zenon DEF RpcInvalidateBlock, Command
<1>5. ASSUME NEW t \in Threads, NEW b \in Blocks \ {Genesis}, RpcPreciousBlock(t, b)
      PROVE  Cause(chain') /\ Exact(chain')
  <2>1. /\ chain'.haveData = chain.haveData /\ chain'.chainTx = chain.chainTx
        /\ chain'.failedValid = chain.failedValid /\ chain'.failedChild = chain.failedChild
        /\ Waiting(chain') = Waiting(chain)
    BY <1>0, <1>5, PreciousLinked, Zenon DEF RpcPreciousBlock
  <2> QED BY <2>1, Zenon DEF Cause, Exact, Failed
<1>6. ASSUME NEW t \in Threads, NEW b \in Blocks \ {Genesis}, RpcReconsiderBlock(t, b)
      PROVE  Cause(chain') /\ Exact(chain')
  BY <1>6, Zenon DEF RpcReconsiderBlock, Command
<1>7. CASE UNCHANGED vars
  BY <1>7, Zenon DEF vars
<1> QED BY <1>1, <1>2, <1>3, <1>4, <1>5, <1>6, <1>7, Zenon DEF Next

\* validation.cpp:5784 and 5811-5818.  With any number of threads, and any commands
\* but reconsiderblock, a failure flag has a cause, and away from invalid blocks
\* nChainTx and mapBlocksUnlinked come out right for every order in which headers and
\* data arrive.
THEOREM BookkeepingExact ==
  ASSUME "reconsiderblock" \notin Commands
  PROVE  Spec => [](FailureHasACause /\ UnlinkedExact)
<1> DEFINE Inv == LinkedInv /\ Cause(chain) /\ Exact(chain)
<1>1. Init => Inv
  <2> SUFFICES ASSUME Init PROVE Cause(chain) /\ Exact(chain)
    BY LinkedInit, Zenon
  <2>1. /\ chain.failedValid = {} /\ chain.failedChild = {} /\ chain.haveData = {Genesis}
        /\ chain.chainTx = {Genesis} /\ Waiting(chain) = {}
    BY Zenon DEF Init, InitialIndex, Waiting
  <2>2. Ancestry[Genesis] = {Genesis}
    BY BlockTree, Zenon
  <2> QED BY <2>1, <2>2, Zenon DEF Cause, Exact, Failed
<1>2. Inv /\ [Next]_vars => Inv'
  BY LinkedStep, ExactStep, Zenon
<1>3. Inv => FailureHasACause /\ UnlinkedExact
  BY Zenon DEF FailureHasACause, UnlinkedExact, NoInvalidAncestor, Cause, Exact
<1> QED BY <1>1, <1>2, <1>3, PTL DEF Spec

-----------------------------------------------------------------------------
(* One thread. *)

\* Between two iterations the thread is on its way up a chain without failed blocks.
OnTheWay(c, mw) == mw \in Blocks => c.tip \in Ancestry[mw] /\ Ancestry[mw] \cap Failed(c) = {}

\* From tip to next no more than nMaxReorgDepth blocks are replaced in the window.
Shallow(tip, next) ==
  \/ Height[tip] < nMaxReorgDepthEnforcementBlock
  \/ Height[tip] >= DIP0008Height + 100
  \/ Height[FindFork(tip, next)] >= Height[tip] - nMaxReorgDepth

LEMMA ForkOnChain ==
  ASSUME NEW a \in Blocks, NEW b \in Blocks, a \in Ancestry[b]
  PROVE  FindFork(a, b) = a /\ Shallow(a, b)
<1>1. a \in Ancestry[a] \cap Ancestry[b]
  BY Tree, Zenon
<1>2. FindFork(a, b) = a
  BY <1>1, ForkUnique, Zenon
<1>3. Height[a] \in Nat /\ nMaxReorgDepth \in Nat
  BY BlockTree, ChainStateAssumption, Zenon
<1> QED BY <1>2, <1>3 DEF Shallow

LEMMA StepOnTheWay ==
  ASSUME NEW c, LinkedIndex(c), SoundTip(c, InvalidBlocks), NEW m \in c.chainTx,
         Ancestry[m] \cap Failed(c) = {}, NEW step, step = ActivateBestChainStep(c, m, InvalidBlocks)
  PROVE  /\ SoundTip(step.chain, InvalidBlocks)
         /\ OnTheWay(step.chain, NextMostWork(step, m))
         /\ FindFork(c.tip, step.chain.tip) = FindFork(c.tip, m)
<1>1. /\ SoundTip(step.chain, InvalidBlocks) /\ step.chain.tip \in Ancestry[m]
      /\ ~step.fInvalidFound => Failed(step.chain) = Failed(c)
      /\ FindFork(c.tip, step.chain.tip) = FindFork(c.tip, m)
  BY StepSound
<1>2. NextMostWork(step, m) \in Blocks => ~step.fInvalidFound /\ NextMostWork(step, m) = m
  BY BlockTree, ChainStateAssumption, Zenon DEF NextMostWork
<1> QED BY <1>1, <1>2, Zenon DEF OnTheWay

LEMMA IterationSound ==
  ASSUME NEW c, LinkedIndex(c), SoundTip(c, InvalidBlocks), NEW mw \in c.chainTx \cup {NoBlock}, OnTheWay(c, mw),
         NEW i, i = Iteration(c, mw, InvalidBlocks)
  PROVE  SoundTip(i.chain, InvalidBlocks) /\ OnTheWay(i.chain, i.next) /\ Shallow(c.tip, i.chain.tip)
<1>1. PICK d, m : /\ LinkedIndex(d) /\ d.chainTx = c.chainTx /\ d.tip = c.tip
                  /\ IterationTo(c, mw, InvalidBlocks, i, d, m)
  BY IterationCases, Zenon
<1>2. c.tip \in Blocks /\ d \in IndexType /\ d.chainTx \subseteq Blocks /\ d.chainTx \subseteq d.index
  BY <1>1, Zenon DEF LinkedIndex, IndexOK, IndexType
<1>3. SoundTip(d, InvalidBlocks) /\ (m # NoBlock => Ancestry[m] \cap Failed(d) = {})
  <2>1. CASE mw = NoBlock
    BY <1>1, <2>1, FindSound, Zenon DEF IterationTo
  <2>2. CASE mw # NoBlock
    BY <1>1, <1>2, <2>2, Zenon DEF IterationTo, OnTheWay
  <2> QED BY <2>1, <2>2, Zenon
<1>4. Shallow(c.tip, c.tip)
  BY <1>2, ForkOnChain, Tree, Zenon
<1>5. Idle \notin Blocks /\ NoBlock \notin Blocks
  BY BlockTree, ChainStateAssumption, Zenon
<1>6. CASE i.chain = d /\ i.next = Idle
  BY <1>1, <1>3, <1>4, <1>5, <1>6, Zenon DEF OnTheWay
<1>7. CASE /\ m \in d.chainTx /\ i.next = Idle
           /\ \E z \in Ancestry[m] \ Ancestry[d.tip] : z # Genesis /\ i.chain = InvalidateBlock(d, z)
  <2>1. PICK z \in Ancestry[m] \ Ancestry[d.tip] : z # Genesis /\ i.chain = InvalidateBlock(d, z)
    BY <1>7, Zenon
  <2>2. z \in d.index \ {Genesis} /\ z \in Blocks \ {Genesis}
    BY <1>1, <1>2, <1>7, <2>1, Zenon DEF LinkedIndex
  <2>3. SoundTip(i.chain, InvalidBlocks)
    BY <1>1, <1>3, <2>1, <2>2, InvalidateSound, Zenon
  <2>4. i.chain.tip = c.tip
    BY <1>1, <1>2, <2>1, <2>2, InvalidateFields
  <2> QED BY <1>4, <1>5, <1>7, <2>3, <2>4, Zenon DEF OnTheWay
<1>8. CASE /\ m \in d.chainTx /\ (mw # NoBlock \/ ~DeepReorg(d, m))
           /\ i.chain = ActivateBestChainStep(d, m, InvalidBlocks).chain
           /\ i.next = NextMostWork(ActivateBestChainStep(d, m, InvalidBlocks), m)
  <2>1. m \in Blocks /\ m # NoBlock
    BY <1>2, <1>5, <1>8, Zenon
  <2>2. /\ SoundTip(i.chain, InvalidBlocks) /\ OnTheWay(i.chain, i.next)
        /\ FindFork(c.tip, i.chain.tip) = FindFork(c.tip, m)
    BY <1>1, <1>3, <1>8, <2>1, StepOnTheWay
  <2>3. CASE mw # NoBlock
    <3>1. c.tip \in Ancestry[m]
      BY <1>1, <2>1, <2>3, Zenon DEF IterationTo, OnTheWay
    <3>2. Shallow(c.tip, m)
      BY <1>2, <2>1, <3>1, ForkOnChain, Zenon
    <3> QED BY <2>2, <3>2, Zenon DEF Shallow
  <2>4. CASE ~DeepReorg(d, m)
    <3>1. FindFork(c.tip, m) \in Blocks
      BY <1>2, <2>1, Fork, Tree
    <3>2. /\ Height[c.tip] \in Nat /\ Height[FindFork(c.tip, m)] \in Nat /\ nMaxReorgDepth \in Nat
          /\ nMaxReorgDepthEnforcementBlock \in Nat /\ DIP0008Height \in Nat
      BY <1>2, <3>1, BlockTree, ChainStateAssumption, Zenon
    <3> QED BY <1>1, <2>2, <2>4, <3>2 DEF Shallow, DeepReorg
  <2> QED BY <1>8, <2>2, <2>3, <2>4, Zenon
<1> QED BY <1>1, <1>6, <1>7, <1>8, Zenon DEF IterationTo

\* The inductive invariant of a node whose blocks are all processed by thread t.
SoundInv(t) ==
  /\ LinkedInv /\ Ordered(chain) /\ SoundTip(chain, InvalidBlocks)
  /\ OnTheWay(chain, mostWork[t])

LEMMA SoundStep ==
  ASSUME NEW t, Threads = {t}, SoundInv(t), [Next]_vars
  PROVE  SoundInv(t)' /\ (commands' # commands \/ Shallow(chain.tip, chain'.tip))
<1> DEFINE Goal == /\ SoundTip(chain', InvalidBlocks) /\ OnTheWay(chain', mostWork'[t])
                   /\ commands' # commands \/ Shallow(chain.tip, chain'.tip)
<1>0. /\ LinkedIndex(chain) /\ chain \in IndexType /\ SoundTip(chain, InvalidBlocks) /\ OnTheWay(chain, mostWork[t])
      /\ mostWork \in [Threads -> chain.chainTx \cup {NoBlock, Idle}]
      /\ commands \in 0..MaxCommands /\ t \in Threads
      /\ chain.tip \in Blocks /\ chain.tip \in chain.chainTx
      /\ Ancestry[chain.tip] \subseteq chain.haveData
      /\ chain.index \subseteq Blocks
  BY Zenon DEF SoundInv, LinkedInv, LinkedIndex, IndexOK, IndexType
<1>1. Shallow(chain.tip, chain.tip)
  BY <1>0, ForkOnChain, Tree, Zenon
<1>2. Idle \notin Blocks /\ NoBlock \notin Blocks
  BY BlockTree, ChainStateAssumption, Zenon
<1>3. ASSUME NEW s \in Threads, ActivateBestChain(s) PROVE Goal
  <2> DEFINE i == Iteration(chain, mostWork[t], InvalidBlocks)
  <2>1. /\ mostWork[t] \in chain.chainTx \cup {NoBlock} /\ chain' = i.chain /\ mostWork'[t] = i.next
    BY <1>0, <1>3, Zenon DEF ActivateBestChain
  <2>2. SoundTip(i.chain, InvalidBlocks) /\ OnTheWay(i.chain, i.next) /\ Shallow(chain.tip, i.chain.tip)
    BY <1>0, <2>1, IterationSound, Zenon
  <2> QED BY <2>1, <2>2, Zenon
<1>4. ASSUME NEW b \in Blocks \ {Genesis}, ProcessNewBlockHeaders(b) PROVE Goal
  <2>1. /\ chain'.tip = chain.tip /\ chain'.failedValid = chain.failedValid
        /\ chain'.failedChild = chain.failedChild /\ mostWork' = mostWork
    BY <1>0, <1>4, HeaderFields, Zenon DEF ProcessNewBlockHeaders
  <2> QED BY <1>0, <1>1, <2>1, Zenon DEF SoundTip, OnTheWay, Failed
<1>5. ASSUME NEW s \in Threads, NEW b \in Blocks \ {Genesis}, NEW f \in BOOLEAN, ProcessNewBlock(s, b, f)
      PROVE  Goal
  <2>1. mostWork'[t] \in {NoBlock, Idle} /\ HeaderAcceptable(chain, b) /\ chain' = AcceptBlock(chain, b, f)[1]
    BY <1>0, <1>5, Zenon DEF ProcessNewBlock
  <2>2. chain'.tip = chain.tip /\ Failed(chain') \subseteq Failed(chain) \cup ({b} \ chain.haveData)
    BY <1>0, <2>1, AcceptMarks
  <2> QED BY <1>0, <1>1, <1>2, <2>1, <2>2, Zenon DEF SoundTip, OnTheWay
<1>6. ASSUME NEW name, NEW s \in Threads, NEW b, Command(name, s, b), SoundTip(chain', InvalidBlocks)
      PROVE  Goal
  <2>1. mostWork'[t] = NoBlock /\ commands' # commands
    BY <1>0, <1>6, ChainStateAssumption DEF Command
  <2> QED BY <1>2, <1>6, <2>1, Zenon DEF OnTheWay
<1>7. ASSUME NEW s \in Threads, NEW b \in Blocks \ {Genesis}, RpcInvalidateBlock(s, b) PROVE Goal
  <2>1. SoundTip(chain', InvalidBlocks)
    BY <1>0, <1>7, InvalidateSound, Zenon DEF RpcInvalidateBlock, Command
  <2> QED BY <1>6, <1>7, <2>1, Zenon DEF RpcInvalidateBlock
<1>8. ASSUME NEW s \in Threads, NEW b \in Blocks \ {Genesis}, RpcReconsiderBlock(s, b) PROVE Goal
  <2>1. chain'.tip = chain.tip /\ Failed(chain') \subseteq Failed(chain)
    BY <1>0, <1>8, ResetLinked, Zenon DEF RpcReconsiderBlock
  <2>2. SoundTip(chain', InvalidBlocks)
    BY <1>0, <2>1, Zenon DEF SoundTip
  <2> QED BY <1>6, <1>8, <2>2, Zenon DEF RpcReconsiderBlock
<1>9. ASSUME NEW s \in Threads, NEW b \in Blocks \ {Genesis}, RpcPreciousBlock(s, b) PROVE Goal
  <2>1. /\ chain'.tip = chain.tip /\ chain'.failedValid = chain.failedValid
        /\ chain'.failedChild = chain.failedChild
    BY <1>0, <1>9, PreciousLinked, Zenon DEF RpcPreciousBlock
  <2>2. SoundTip(chain', InvalidBlocks)
    BY <1>0, <2>1, Zenon DEF SoundTip, Failed
  <2> QED BY <1>6, <1>9, <2>2, Zenon DEF RpcPreciousBlock
<1>10. ASSUME UNCHANGED vars PROVE Goal
  <2>1. chain' = chain /\ mostWork' = mostWork
    BY <1>10, Zenon DEF vars
  <2> QED BY <1>0, <1>1, <2>1, Zenon DEF SoundTip, OnTheWay, Failed
<1>11. Goal
  <2> HIDE DEF Goal
  <2> QED BY <1>3, <1>4, <1>5, <1>7, <1>8, <1>9, <1>10, Zenon DEF Next
<1>12. IsValid(chain, chain.tip)
  BY <1>0, Tree, Zenon DEF IsValid, SoundTip
<1>13. LinkedInv' /\ Ordered(chain')
  BY <1>12, LinkedStep, Zenon DEF SoundInv
<1> QED BY <1>11, <1>13, Zenon DEF SoundInv

LEMMA SoundInit == ASSUME NEW t, Threads = {t}, Init PROVE SoundInv(t)
<1>1. LinkedInv /\ Ordered(chain)
  BY LinkedInit, Zenon
<1>2. chain.tip = Genesis /\ Failed(chain) = {} /\ mostWork[t] = Idle
  BY Zenon DEF Init, InitialIndex, Failed
<1>3. Ancestry[Genesis] = {Genesis} /\ Genesis \notin InvalidBlocks /\ Idle \notin Blocks
  BY BlockTree, ChainStateAssumption, Zenon
<1> QED BY <1>1, <1>2, <1>3, Zenon DEF SoundInv, SoundTip, OnTheWay

\* validation.cpp:3983-4000 and 5800.  With one thread, whatever the operator commands,
\* no iteration of block processing replaces more than nMaxReorgDepth active blocks
\* in the enforcement window, although the rule is tested only in the iteration that
\* chooses pindexMostWork; and the candidates stay sound with preciousblock too.
THEOREM ReorgsStayShallow ==
  ASSUME NEW t, Threads = {t}
  PROVE  Spec => NoDeepReorg /\ []CandidatesSound
<1>1. Init => SoundInv(t)
  BY SoundInit, Zenon
<1>2. SoundInv(t) /\ [Next]_vars => SoundInv(t)'
  BY SoundStep, Zenon
<1>3. SoundInv(t) /\ [Next]_vars =>
        [ \/ commands' # commands
          \/ Height[chain.tip] < nMaxReorgDepthEnforcementBlock
          \/ Height[chain.tip] >= DIP0008Height + 100
          \/ Height[FindFork(chain.tip, chain'.tip)] >= Height[chain.tip] - nMaxReorgDepth ]_vars
  BY SoundStep, Zenon DEF Shallow
<1>4. SoundInv(t) => CandidatesSound
  BY Zenon DEF SoundInv, LinkedInv, LinkedIndex, Ordered, CandidatesSound
<1> QED BY <1>1, <1>2, <1>3, <1>4, PTL DEF Spec, NoDeepReorg

-----------------------------------------------------------------------------
(* One thread and no command but invalidateblock. *)

\* An iteration that goes on is on its way to the best block, and one that ends with a
\* step has reached it.
LEMMA StepNext ==
  ASSUME NEW c, LinkedIndex(c), SoundTip(c, InvalidBlocks), ~c.asserted,
         NEW u, Full(c, u, InvalidBlocks), NEW m, Best(c, m), Unfailed(c, m),
         NEW step, step = ActivateBestChainStep(c, m, InvalidBlocks),
         NEW e, e = step.chain, NEW next, next = NextMostWork(step, m)
  PROVE  /\ ~e.asserted
         /\ \E v : Full(e, v, InvalidBlocks)
         /\ next \in Blocks => Best(e, next)
         /\ next = Idle => Full(e, e.tip, InvalidBlocks) /\ BestChain(e)
<1>1. /\ ~e.asserted /\ \E v : Full(e, v, InvalidBlocks)
      /\ step.fInvalidFound => e.tip # m
      /\ ~step.fInvalidFound => Best(e, m)
      /\ ~step.fInvalidFound /\ e.tip = m => Full(e, e.tip, InvalidBlocks)
  BY StepFull, Zenon
<1>2. m \in Blocks /\ Idle \notin Blocks /\ NoBlock \notin Blocks /\ Idle # NoBlock
  BY BlockTree, ChainStateAssumption, Zenon DEF Best, LinkedIndex, IndexOK, IndexType
<1>3. /\ next \in Blocks => ~step.fInvalidFound /\ next = m
      /\ next = Idle => ~step.fInvalidFound /\ e.tip = m
  <2>1. CASE step.fInvalidFound /\ e.tip # m
    BY <1>2, <2>1 DEF NextMostWork
  <2>2. CASE ~step.fInvalidFound /\ e.tip = m
    BY <1>2, <2>2 DEF NextMostWork
  <2>3. CASE ~step.fInvalidFound /\ e.tip # m
    BY <1>2, <2>3 DEF NextMostWork
  <2> QED BY <1>1, <2>1, <2>2, <2>3, Zenon
<1>4. Best(e, m) /\ e.tip = m => BestChain(e)
  BY Zenon DEF Best, BestChain, Unfailed
<1> QED BY <1>1, <1>3, <1>4, Zenon

LEMMA IterationFull ==
  ASSUME NEW c, LinkedIndex(c), SoundTip(c, InvalidBlocks), c.sequenceId \in [Blocks -> Nat], ~c.asserted,
         NEW mw \in c.chainTx \cup {NoBlock}, OnTheWay(c, mw),
         NEW u, Full(c, u, InvalidBlocks), mw \in Blocks => Best(c, mw),
         NEW i, i = Iteration(c, mw, InvalidBlocks)
  PROVE  /\ ~i.chain.asserted /\ i.chain.sequenceId \in [Blocks -> Nat]
         /\ \E v : Full(i.chain, v, InvalidBlocks)
         /\ i.next \in Blocks => Best(i.chain, i.next)
         /\ i.next = Idle => Full(i.chain, i.chain.tip, InvalidBlocks)
         /\ i.next = Idle /\ i.chain.failedValid = c.failedValid => BestChain(i.chain)
<1>1. PICK d, m : /\ LinkedIndex(d) /\ d.chainTx = c.chainTx /\ d.tip = c.tip
                  /\ IterationTo(c, mw, InvalidBlocks, i, d, m)
  BY IterationCases, Zenon
<1>2. /\ d \in IndexType /\ d.chainTx \subseteq Blocks /\ d.chainTx \subseteq d.index
      /\ c.chainTx \subseteq Blocks
  BY <1>1, Zenon DEF LinkedIndex, IndexOK, IndexType
<1>3. Idle \notin Blocks /\ NoBlock \notin Blocks
  BY BlockTree, ChainStateAssumption, Zenon
<1>4. /\ SoundTip(d, InvalidBlocks) /\ m # NoBlock /\ Unfailed(d, m) /\ Full(d, u, InvalidBlocks) /\ Best(d, m)
      /\ d.sequenceId = c.sequenceId /\ ~d.asserted /\ d.failedValid = c.failedValid
  <2>1. CASE mw = NoBlock
    <3>1. d = FindMostWorkChain(c).chain /\ m = FindMostWorkChain(c).mostWork
      BY <1>1, <2>1, Zenon DEF IterationTo
    <3>2. m # NoBlock /\ Full(d, u, InvalidBlocks) /\ Best(d, m)
      BY <3>1, FindFull, Zenon
    <3>3. SoundTip(d, InvalidBlocks) /\ Unfailed(d, m)
      BY <3>1, <3>2, FindSound, Zenon DEF Unfailed
    <3>4. d.sequenceId = c.sequenceId /\ ~d.asserted /\ d.failedValid = c.failedValid
      BY <3>1, FindFields, Zenon
    <3> QED BY <3>2, <3>3, <3>4, Zenon
  <2>2. CASE mw # NoBlock
    BY <1>1, <1>2, <2>2, Zenon DEF IterationTo, OnTheWay, Unfailed
  <2> QED BY <2>1, <2>2, Zenon
<1>5. m \in d.chainTx /\ m \in Blocks /\ u \in d.chainTx /\ u \in Blocks /\ d.sequenceId \in [Blocks -> Int]
  BY <1>1, <1>2, <1>4, Zenon DEF Best, Full, LinkedIndex, IndexType
<1>6. CASE m = d.tip /\ i.chain = d /\ i.next = Idle
  <2>1. ~WorkLess(d, m, u)
    BY <1>4, <1>5, Zenon DEF Best, Full, Unfailed
  <2>2. \A b \in d.chainTx : Unfailed(d, b) /\ ~WorkLess(d, b, m) => b \in d.candidates
    BY <1>2, <1>4, <1>5, <2>1, WorkOrder, Zenon DEF Full
  <2>3. Full(d, d.tip, InvalidBlocks)
    BY <1>4, <1>6, <2>2, Zenon DEF Full, Best, SoundTip
  <2>4. BestChain(d)
    BY <1>4, <1>6, Zenon DEF BestChain, Best, Unfailed
  <2> QED BY <1>3, <1>4, <1>6, <2>3, <2>4, Zenon
<1>7. CASE /\ i.next = Idle
           /\ \E z \in Ancestry[m] \ Ancestry[d.tip] : z # Genesis /\ i.chain = InvalidateBlock(d, z)
  <2>1. PICK z \in Ancestry[m] \ Ancestry[d.tip] : z # Genesis /\ i.chain = InvalidateBlock(d, z)
    BY <1>7, Zenon
  <2>2. z \in d.index \ {Genesis} /\ z \in Blocks \ {Genesis} /\ z \notin d.failedValid
    BY <1>1, <1>2, <1>4, <1>5, <2>1, Zenon DEF LinkedIndex, Unfailed, Failed
  <2>3. Full(i.chain, i.chain.tip, InvalidBlocks)
    BY <1>1, <1>4, <2>1, <2>2, InvalidateFull, Zenon
  <2>4. /\ i.chain.asserted = d.asserted /\ i.chain.sequenceId = d.sequenceId
        /\ i.chain.failedValid = d.failedValid \cup {z}
    BY <1>2, <2>1, <2>2, InvalidateFields
  <2>5. i.chain.failedValid # c.failedValid
    BY <1>4, <2>2, <2>4, Zenon
  <2> QED BY <1>3, <1>4, <1>7, <2>3, <2>4, <2>5, Zenon
<1>8. CASE /\ i.chain = ActivateBestChainStep(d, m, InvalidBlocks).chain
           /\ i.next = NextMostWork(ActivateBestChainStep(d, m, InvalidBlocks), m)
  <2>1. /\ ~i.chain.asserted
        /\ \E v : Full(i.chain, v, InvalidBlocks)
        /\ i.next \in Blocks => Best(i.chain, i.next)
        /\ i.next = Idle => Full(i.chain, i.chain.tip, InvalidBlocks) /\ BestChain(i.chain)
    BY <1>1, <1>4, <1>8, StepNext, Zenon
  <2>2. i.chain.sequenceId = d.sequenceId
    BY <1>2, <1>5, <1>8, StepFields
  <2> QED BY <1>4, <2>1, <2>2, Zenon
<1> QED BY <1>1, <1>4, <1>6, <1>7, <1>8, Zenon DEF IterationTo

\* The inductive invariant of a node with one thread, t, and no command but
\* invalidateblock.  Between two calls every block at least as good as the tip is a
\* candidate.  Within a call the tip may have gone down, and a candidate to fall back
\* on takes its place.
FullInv(t) ==
  /\ SoundInv(t) /\ Cause(chain) /\ Exact(chain)
  /\ chain.sequenceId \in [Blocks -> Nat] /\ ~chain.asserted
  /\ \E u : Full(chain, u, InvalidBlocks)
  /\ mostWork[t] = Idle => Full(chain, chain.tip, InvalidBlocks)
  /\ mostWork[t] \in Blocks => Best(chain, mostWork[t])

LEMMA FullStep ==
  ASSUME NEW t, Threads = {t}, Commands \subseteq {"invalidateblock"}, FullInv(t), [Next]_vars
  PROVE  /\ FullInv(t)'
         /\ mostWork[t] # Idle /\ mostWork'[t] = Idle /\ chain'.failedValid = chain.failedValid
              => BestChain(chain')
<1> DEFINE Goal == /\ chain'.sequenceId \in [Blocks -> Nat] /\ ~chain'.asserted
                   /\ \E u : Full(chain', u, InvalidBlocks)
                   /\ mostWork'[t] = Idle => Full(chain', chain'.tip, InvalidBlocks)
                   /\ mostWork'[t] \in Blocks => Best(chain', mostWork'[t])
                   /\ mostWork[t] # Idle /\ mostWork'[t] = Idle
                        /\ chain'.failedValid = chain.failedValid => BestChain(chain')
<1>0. /\ LinkedIndex(chain) /\ chain \in IndexType /\ SoundTip(chain, InvalidBlocks) /\ OnTheWay(chain, mostWork[t])
      /\ mostWork \in [Threads -> chain.chainTx \cup {NoBlock, Idle}]
      /\ t \in Threads /\ chain.index \subseteq Blocks
      /\ chain.sequenceId \in [Blocks -> Nat] /\ ~chain.asserted
      /\ mostWork[t] = Idle => Full(chain, chain.tip, InvalidBlocks)
      /\ mostWork[t] \in Blocks => Best(chain, mostWork[t])
  BY Zenon DEF FullInv, SoundInv, LinkedInv, LinkedIndex, IndexOK, IndexType
<1>1. PICK u : Full(chain, u, InvalidBlocks)
  BY Zenon DEF FullInv
<1>2. Idle \notin Blocks /\ NoBlock \notin Blocks
  BY BlockTree, ChainStateAssumption, Zenon
<1>3. ASSUME NEW s \in Threads, ActivateBestChain(s) PROVE Goal
  <2> DEFINE i == Iteration(chain, mostWork[t], InvalidBlocks)
  <2>1. /\ mostWork[t] \in chain.chainTx \cup {NoBlock} /\ chain' = i.chain /\ mostWork'[t] = i.next
    BY <1>0, <1>3, Zenon DEF ActivateBestChain
  <2>2. /\ ~i.chain.asserted /\ i.chain.sequenceId \in [Blocks -> Nat]
        /\ \E v : Full(i.chain, v, InvalidBlocks)
        /\ i.next \in Blocks => Best(i.chain, i.next)
        /\ i.next = Idle => Full(i.chain, i.chain.tip, InvalidBlocks)
        /\ i.next = Idle /\ i.chain.failedValid = chain.failedValid => BestChain(i.chain)
    BY <1>0, <1>1, <2>1, IterationFull, Zenon
  <2> HIDE DEF i
  <2> QED BY <2>1, <2>2, Zenon
<1>4. ASSUME NEW b \in Blocks \ {Genesis}, ProcessNewBlockHeaders(b) PROVE Goal
  <2>1. /\ chain'.tip = chain.tip /\ chain'.failedValid = chain.failedValid
        /\ chain'.failedChild = chain.failedChild /\ chain'.chainTx = chain.chainTx
        /\ chain'.sequenceId = chain.sequenceId /\ chain'.candidates = chain.candidates
        /\ chain'.asserted = chain.asserted /\ mostWork' = mostWork
    BY <1>0, <1>4, HeaderFields, Zenon DEF ProcessNewBlockHeaders
  <2>2. \A v : (Full(chain', v, InvalidBlocks) <=> Full(chain, v, InvalidBlocks)) /\ (Best(chain', v) <=> Best(chain, v))
    BY <2>1, Zenon DEF Full, Best, Unfailed, Failed, WorkLess
  <2> QED BY <1>0, <1>1, <2>1, <2>2, Zenon
<1>5. ASSUME NEW s \in Threads, NEW b \in Blocks \ {Genesis}, NEW f \in BOOLEAN, ProcessNewBlock(s, b, f)
      PROVE  Goal
  <2>1. /\ mostWork[t] = Idle /\ mostWork'[t] \in {NoBlock, Idle} /\ HeaderAcceptable(chain, b)
        /\ chain' = AcceptBlock(chain, b, f)[1]
    BY <1>0, <1>5, Zenon DEF ProcessNewBlock
  <2>2. /\ Full(chain', chain'.tip, InvalidBlocks) /\ chain'.sequenceId \in [Blocks -> Nat]
        /\ chain'.asserted = chain.asserted
    BY <1>0, <2>1, AcceptFull
  <2> QED BY <1>0, <1>2, <2>1, <2>2, Zenon
<1>6. ASSUME NEW s \in Threads, NEW b \in Blocks \ {Genesis}, RpcInvalidateBlock(s, b) PROVE Goal
  <2>1. /\ mostWork[t] = Idle /\ mostWork'[t] = NoBlock /\ b \in chain.index \ {Genesis}
        /\ chain' = InvalidateBlock(chain, b)
    BY <1>0, <1>6, Zenon DEF RpcInvalidateBlock, Command
  <2>2. Full(chain', chain'.tip, InvalidBlocks)
    BY <1>0, <2>1, InvalidateFull, Zenon
  <2>3. chain'.sequenceId = chain.sequenceId /\ chain'.asserted = chain.asserted
    BY <1>0, <2>1, InvalidateFields
  <2> QED BY <1>0, <1>2, <2>1, <2>2, <2>3, Zenon
<1>7. ASSUME NEW s \in Threads, NEW b \in Blocks \ {Genesis},
             RpcReconsiderBlock(s, b) \/ RpcPreciousBlock(s, b)
      PROVE  Goal
  BY <1>7, Zenon DEF RpcReconsiderBlock, RpcPreciousBlock, Command
<1>8. ASSUME UNCHANGED vars PROVE Goal
  <2>1. chain' = chain /\ mostWork' = mostWork
    BY <1>8, Zenon DEF vars
  <2> QED BY <1>0, <1>1, <2>1, Zenon
<1>9. Goal
  <2> HIDE DEF Goal
  <2> QED BY <1>3, <1>4, <1>5, <1>6, <1>7, <1>8, Zenon DEF Next
<1>10. SoundInv(t)'
  BY SoundStep, Zenon DEF FullInv
<1>11. Cause(chain') /\ Exact(chain')
  BY ExactStep, Zenon DEF FullInv, SoundInv
<1> QED BY <1>9, <1>10, <1>11, Zenon DEF FullInv

LEMMA FullInit == ASSUME NEW t, Threads = {t}, Init PROVE FullInv(t)
<1>1. /\ chain.failedValid = {} /\ chain.failedChild = {} /\ chain.haveData = {Genesis}
      /\ chain.chainTx = {Genesis} /\ chain.candidates = {Genesis} /\ chain.tip = Genesis
      /\ Waiting(chain) = {} /\ ~chain.asserted /\ chain.sequenceId \in [Blocks -> Nat]
      /\ mostWork[t] = Idle
  BY Zenon DEF Init, InitialIndex, Waiting
<1>2. /\ Ancestry[Genesis] = {Genesis} /\ Genesis \notin InvalidBlocks /\ Idle \notin Blocks
  BY BlockTree, ChainStateAssumption, Zenon
<1>3. Full(chain, chain.tip, InvalidBlocks) /\ Cause(chain) /\ Exact(chain)
  BY <1>1, <1>2, Zenon DEF Full, Cause, Exact, Failed
<1> QED BY <1>1, <1>2, <1>3, SoundInit, Zenon DEF FullInv

\* A block below no invalid block has no failed ancestor, so the candidates that Full
\* speaks about are those CheckBlockIndex looks for.
LEMMA FullImplies ==
  ASSUME NEW t, Threads = {t}, FullInv(t)
  PROVE  CheckBlockIndex /\ NeverAborted
<1>1. ChainTxSound
  BY Zenon DEF FullInv, SoundInv, LinkedInv, LinkedIndex, IndexOK, IndexType, ChainTxSound
<1>2. FailureHasACause /\ UnlinkedExact
  BY Zenon DEF FullInv, FailureHasACause, UnlinkedExact, NoInvalidAncestor, Cause, Exact
<1>3. CandidatesSound
  BY Zenon DEF FullInv, SoundInv, LinkedInv, LinkedIndex, Ordered, CandidatesSound
<1>4. ASSUME NEW b \in chain.chainTx, NoInvalidAncestor(b) PROVE Unfailed(chain, b)
  <2>1. b \in Blocks /\ Ancestry[b] \subseteq chain.index
    BY Zenon DEF FullInv, SoundInv, LinkedInv, LinkedIndex, IndexOK, IndexType
  <2>2. \A y \in Ancestry[b] : Ancestry[y] \subseteq Ancestry[b]
    BY <2>1, Tree, Zenon
  <2> QED BY <1>2, <1>4, <2>1, <2>2, Zenon DEF FailureHasACause, NoInvalidAncestor, Unfailed
<1>5. CandidatesComplete
  BY <1>4, Zenon DEF CandidatesComplete, Quiescent, FullInv, Full
<1> QED BY <1>1, <1>2, <1>3, <1>5, Zenon DEF CheckBlockIndex, NeverAborted, Aborted, FullInv

\* validation.cpp:5773-5818.  With one thread, and for operators who use no command
\* but invalidateblock, in every block tree: all that CheckBlockIndex asserts holds.
THEOREM IndexConsistent ==
  ASSUME NEW t, Threads = {t}, Commands \subseteq {"invalidateblock"}
  PROVE  Spec => []CheckBlockIndex
<1>1. Init => FullInv(t)
  BY FullInit, Zenon
<1>2. FullInv(t) /\ [Next]_vars => FullInv(t)'
  BY FullStep, Zenon
<1>3. FullInv(t) => CheckBlockIndex
  BY FullImplies, Zenon
<1> QED BY <1>1, <1>2, <1>3, PTL DEF Spec

\* validation.cpp:3835.  Under the same conditions PruneBlockIndexCandidates never
\* empties setBlockIndexCandidates, so its assert does not end the process.
THEOREM NoAssertFails ==
  ASSUME NEW t, Threads = {t}, Commands \subseteq {"invalidateblock"}
  PROVE  Spec => []NeverAborted
<1>1. Init => FullInv(t)
  BY FullInit, Zenon
<1>2. FullInv(t) /\ [Next]_vars => FullInv(t)'
  BY FullStep, Zenon
<1>3. FullInv(t) => NeverAborted
  BY FullImplies, Zenon
<1> QED BY <1>1, <1>2, <1>3, PTL DEF Spec

\* validation.cpp:3949-3951.  Under the same conditions a call of ActivateBestChain that
\* does not refuse a deep reorganisation leaves the best chain active.
THEOREM BestChainGetsActive ==
  ASSUME NEW t, Threads = {t}, Commands \subseteq {"invalidateblock"}
  PROVE  Spec => BestChainActive
<1>1. Init => FullInv(t)
  BY FullInit, Zenon
<1>2. FullInv(t) /\ [Next]_vars => FullInv(t)'
  BY FullStep, Zenon
<1>3. FullInv(t) /\ [Next]_vars => [ReturnsBestChain]_vars
  BY FullStep, Zenon DEF ReturnsBestChain
<1> QED BY <1>1, <1>2, <1>3, PTL DEF Spec, BestChainActive

-----------------------------------------------------------------------------
(* ChainLocks. *)

\* chain is a record that has the keys of mapBlockIndex.
HasIndex(c) == "index" \in DOMAIN c

\* Choosing, activating and pruning chains leave mapBlockIndex alone.
LEMMA IterationKeepsIndex ==
  ASSUME NEW c, HasIndex(c), NEW mw, NEW rejected
  PROVE  /\ Iteration(c, mw, rejected).chain.index = c.index
         /\ HasIndex(Iteration(c, mw, rejected).chain)
<1> USE ZenonT(30)
<1>1. /\ FindMostWorkChain(c).chain.index = c.index
      /\ HasIndex(FindMostWorkChain(c).chain)
  BY Zenon DEF FindMostWorkChain, HasIndex
<1>2. ASSUME NEW d, HasIndex(d), NEW m
      PROVE  /\ ActivateBestChainStep(d, m, rejected).chain.index = d.index
             /\ HasIndex(ActivateBestChainStep(d, m, rejected).chain)
  BY <1>2, Zenon DEF ActivateBestChainStep, PruneBlockIndexCandidates, HasIndex
<1>3. ASSUME NEW d, HasIndex(d), NEW b
      PROVE  /\ InvalidateBlock(d, b).index = d.index
             /\ HasIndex(InvalidateBlock(d, b))
  BY <1>3, Zenon DEF InvalidateBlock, HasIndex
<1> DEFINE found == IF mw = NoBlock THEN FindMostWorkChain(c) ELSE [chain |-> c, mostWork |-> mw]
           d == found.chain
           m == found.mostWork
           z == CHOOSE b \in Branch(d, m) : Parent[b] = FindFork(d.tip, m)
           i == Iteration(c, mw, rejected)
<1>4. d.index = c.index /\ HasIndex(d)
  BY <1>1, Zenon
<1>5. \/ i.chain = d
      \/ i.chain = InvalidateBlock(d, z)
      \/ i.chain = ActivateBestChainStep(d, m, rejected).chain
  BY Zenon DEF Iteration
<1> HIDE DEF d, m, z, i
<1>6. i.chain.index = c.index /\ HasIndex(i.chain)
  BY <1>2, <1>3, <1>4, <1>5
<1> QED BY <1>6, Zenon DEF i

\* AcceptBlock adds the header it was given, whatever becomes of the block.
LEMMA AcceptBlockAddsHeader ==
  ASSUME NEW c, HasIndex(c), NEW b, NEW f
  PROVE  /\ AcceptBlock(c, b, f)[1].index = c.index \cup {b}
         /\ HasIndex(AcceptBlock(c, b, f)[1])
<1>1. AddToBlockIndex(c, b).index = c.index \cup {b} /\ HasIndex(AddToBlockIndex(c, b))
  BY Zenon DEF AddToBlockIndex, HasIndex
<1>2. ASSUME NEW d, HasIndex(d)
      PROVE  /\ ReceivedBlockTransactions(d, b).index = d.index
             /\ HasIndex(ReceivedBlockTransactions(d, b))
  BY <1>2, Zenon DEF ReceivedBlockTransactions, HasIndex
<1> QED BY <1>1, <1>2, Zenon DEF AcceptBlock, HasIndex

\* EnforceBestChainLock marks blocks and moves the tip, and leaves mapBlockIndex alone.
LEMMA EnforcingKeepsIndex ==
  ASSUME NEW c, HasIndex(c), NEW S, NEW b
  PROVE  /\ InvalidateSiblings(c, S).index = c.index
         /\ HasIndex(InvalidateSiblings(c, S))
         /\ ResetBlockFailureFlags(c, b).index = c.index
         /\ HasIndex(ResetBlockFailureFlags(c, b))
  BY Zenon DEF InvalidateSiblings, ResetBlockFailureFlags, HasIndex

IndexInv == HasIndex(chain) /\ KnownLockTracksBest

\* Headers: the lock waits for its header and takes it.
LEMMA HeaderStep ==
  ASSUME IndexInv, NEW b, chain'.index = chain.index \cup {b}, HasIndex(chain'),
         AcceptedBlockHeader(b), bestChainLock' = bestChainLock
  PROVE  IndexInv'
  BY Zenon DEF IndexInv, KnownLockTracksBest, AcceptedBlockHeader, HasIndex

\* Steps that leave both the headers and the best lock alone.
LEMMA OtherStep ==
  ASSUME IndexInv, chain'.index = chain.index, HasIndex(chain'),
         UNCHANGED <<bestChainLock, bestChainLockBlockIndex>>
  PROVE  IndexInv'
  BY Zenon DEF IndexInv, KnownLockTracksBest, HasIndex

\* Whichever of a CLSIG and its header comes first, and however the threads that
\* process headers, verify CLSIGs and reset the lock interleave, the enforced block
\* is that of the best CLSIG as soon as its header is known, for any block tree and
\* any CLSIGs (ProcessNewChainLock, AcceptedBlockHeader, CheckActiveState).
THEOREM LockTracked == LocksSpec => []KnownLockTracksBest
<1>1. LocksInit => IndexInv
  BY Zenon DEF LocksInit, Init, InitialIndex, IndexInv, HasIndex, KnownLockTracksBest
<1>2. IndexInv /\ [LocksNext]_allVars => IndexInv'
  <2> SUFFICES ASSUME IndexInv, [LocksNext]_allVars PROVE IndexInv'
    OBVIOUS
  <2>0. HasIndex(chain)
    BY Zenon DEF IndexInv
  <2>1. ASSUME NEW t \in Threads, Activate(t) PROVE IndexInv'
    BY <2>0, <2>1, IterationKeepsIndex, OtherStep, Zenon DEF Activate, lockVars
  <2>2. ASSUME NEW b \in Blocks \ {Genesis}, Header(b) PROVE IndexInv'
    BY <2>0, <2>2, HeaderStep, Zenon DEF Header, ProcessNewBlockHeaders, AddToBlockIndex, HasIndex
  <2>3. ASSUME NEW b \in Blocks \ {Genesis}, NEW f \in BOOLEAN, Block(b, f) PROVE IndexInv'
    BY <2>0, <2>3, AcceptBlockAddsHeader, HeaderStep, Zenon DEF Block, ProcessNewBlock
  <2>4. ASSUME NEW t, NEW sig \in CLSigs, ProcessNewChainLock(t, sig) \/ Cleanup(sig)
        PROVE  IndexInv'
    BY <2>0, <2>4, OtherStep, Zenon DEF ProcessNewChainLock, Cleanup, vars
  <2>5. ASSUME NEW t \in LockThreads, AcceptChainLock(t) PROVE IndexInv'
    BY <2>5, Zenon DEF AcceptChainLock, vars, IndexInv, KnownLockTracksBest
  <2>6. ASSUME NEW task, CheckActiveState(task) PROVE IndexInv'
    BY <2>0, <2>6, OtherStep, Zenon DEF CheckActiveState, vars, lockVars
  <2>7. CASE UpdateEnforced
    BY <2>7, Zenon DEF UpdateEnforced, vars, IndexInv, KnownLockTracksBest
  <2>8. CASE EnforceBestChainLock
    BY <2>0, <2>8, EnforcingKeepsIndex, OtherStep DEF EnforceBestChainLock, lockVars
  <2>9. CASE NotifyChainLock
    BY <2>0, <2>9, OtherStep, Zenon DEF NotifyChainLock, vars, lockVars
  <2>10. CASE UNCHANGED allVars
    BY <2>0, <2>10, OtherStep, Zenon DEF allVars, vars, lockVars
  <2> QED
    BY <2>1, <2>2, <2>3, <2>4, <2>5, <2>6, <2>7, <2>8, <2>9, <2>10, ChainLocksAssumption, Zenon
    DEF LocksNext, Scheduler, ProcessMessage, HandleNewRecoveredSig
<1>3. IndexInv => KnownLockTracksBest
  BY Zenon DEF IndexInv
<1> QED
  BY <1>1, <1>2, <1>3, PTL DEF LocksSpec
=============================================================================
