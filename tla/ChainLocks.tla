----------------------------- MODULE ChainLocks -----------------------------
(***************************************************************************)
(* CChainLocksHandler (llmq/quorums_chainlocks.cpp) on one node, composed  *)
(* with the block processing of ChainState.  Three threads take part:      *)
(*   msghand    headers, blocks and CLSIG messages from peers              *)
(*   sigshares  CLSIGs recovered from this masternode's own signing        *)
(*   scheduler  CheckActiveState and EnforceBestChainLock                  *)
(* cs_main guards the block index, CChainLocksHandler::cs the lock state.  *)
(* Each critical section is one step; the values a thread carries from one *)
(* to the next are variables.                                              *)
(*                                                                         *)
(* Signing (TrySignChainTip) is not part of this module: the CLSIGs that   *)
(* exist are a constant.                                                   *)
(***************************************************************************)
EXTENDS ChainState, FiniteSetsExt

CONSTANTS
  CLSigs,           \* the CLSIGs around: records of nHeight and blockHash
  OwnCLSigs,        \* those among them this masternode has signed itself
  NoLock,           \* a null CChainLockSig
  IslockConflicts,  \* blocks with a transaction that conflicts with an islock
  DisabledAt,       \* blocks at which a spork disables ChainLocks
  SIGN_HEIGHT_OFFSET,
  msghand, scheduler, \* the two threads of Threads, which process blocks
  sigshares         \* a thread that only delivers OwnCLSigs

ASSUME ChainLocksAssumption ==
  /\ CLSigs \subseteq [nHeight : Nat, blockHash : Blocks]
  /\ OwnCLSigs \subseteq CLSigs /\ NoLock \notin CLSigs
  /\ IslockConflicts \cup DisabledAt \subseteq Blocks \ {Genesis}
  /\ SIGN_HEIGHT_OFFSET \in Nat

VARIABLES
  bestChainLock, bestChainLockBlockIndex, lastNotifyChainLockBlockIndex,
  isChainlocksEnabled, isChainLocksActive, isEnforced,
  seenChainLocks,
  verifying,       \* per thread, the CLSIG of ProcessNewChainLock in flight
  tasks,           \* one-shot scheduler tasks waiting to run
  tryLockChainTipScheduled,
  job,             \* what the scheduler thread is doing
  islocked         \* blocks that still conflict with an islock

lockVars == <<bestChainLock, bestChainLockBlockIndex, seenChainLocks>>
stateVars == <<isChainlocksEnabled, isChainLocksActive, isEnforced>>
schedVars == <<tasks, tryLockChainTipScheduled>>
allVars == <<vars, lockVars, stateVars, schedVars, lastNotifyChainLockBlockIndex,
             verifying, job, islocked>>

LockThreads == {msghand, sigshares}
Resting == [pc |-> "idle", task |-> "none", fDIP0008Active |-> FALSE, lock |-> NoBlock]

\* InitializeCurrentBlockTip has reported the tip, or it came during the initial
\* download and was ignored.
LocksInit ==
  /\ Init
  /\ bestChainLock = NoLock
  /\ bestChainLockBlockIndex = NoBlock
  /\ lastNotifyChainLockBlockIndex = NoBlock
  /\ isChainlocksEnabled \in BOOLEAN
  /\ isChainLocksActive = FALSE
  /\ isEnforced = FALSE
  /\ seenChainLocks = {}
  /\ verifying = [t \in LockThreads |-> NoLock]
  /\ tasks = IF isChainlocksEnabled THEN {"tip"} ELSE {}
  /\ tryLockChainTipScheduled = isChainlocksEnabled
  /\ job = Resting
  /\ islocked = IslockConflicts

-----------------------------------------------------------------------------
InternalHasChainLock(b) ==
  /\ isEnforced
  /\ bestChainLockBlockIndex # NoBlock
  /\ Descends(bestChainLockBlockIndex, b)

\* The ancestor of the locked block at nHeight is another block.  Nothing above
\* the locked height conflicts.
InternalHasConflictingChainLock(sig) ==
  /\ isEnforced
  /\ bestChainLockBlockIndex # NoBlock
  /\ sig.nHeight <= Height[bestChainLockBlockIndex]
  /\ \A a \in Ancestry[bestChainLockBlockIndex] :
       Height[a] = sig.nHeight => a # sig.blockHash

\* VerifyRecoveredSig on a genuine CLSIG: it fails when the active chain is too
\* short for GetActiveQuorumSet to find the quorums of that height.
VerifyRecoveredSig(sig) == sig.nHeight - SIGN_HEIGHT_OFFSET <= Height[chain.tip]

\* The UpdatedBlockTip notification of the new index value c.
UpdatedBlockTip(c, notify) ==
  IF notify
  THEN /\ isChainlocksEnabled' = (c.tip \notin DisabledAt)
       /\ tasks' = IF tryLockChainTipScheduled THEN tasks ELSE tasks \cup {"tip"}
       /\ tryLockChainTipScheduled' = TRUE
  ELSE UNCHANGED <<isChainlocksEnabled, schedVars>>

\* Mutant: a header that comes after its CLSIG is not noticed.
AcceptedBlockHeaderIgnored(b) == UNCHANGED bestChainLockBlockIndex

\* The AcceptedBlockHeader notification for a header that was not known before.
AcceptedBlockHeader(b) ==
  bestChainLockBlockIndex' =
    IF /\ b \notin chain.index
       /\ bestChainLock # NoLock
       /\ bestChainLock.blockHash = b
       /\ bestChainLock.nHeight = Height[b]
    THEN b ELSE bestChainLockBlockIndex

-----------------------------------------------------------------------------
(* Block processing, with the notifications and the InstantSend check. *)

\* Mutant: an islock wins over a ChainLock.
ConnectBlockIslockWins(b) == b \notin InvalidBlocks \cup islocked

\* ConnectBlock: a block that conflicts with an islock connects only if it is
\* chainlocked, and then the islock is removed.
ConnectBlock(b) ==
  /\ b \notin InvalidBlocks
  /\ b \in islocked => InternalHasChainLock(b)

Activate(t) ==
  /\ ~Aborted
  /\ mostWork[t] # Idle
  /\ LET i == Iteration(chain, mostWork[t], {b \in Blocks : ~ConnectBlock(b)})
     IN  /\ chain' = i.chain
         /\ mostWork' = [mostWork EXCEPT ![t] = i.next]
         /\ islocked' = islocked \ i.connected
         /\ UpdatedBlockTip(i.chain, i.notify)
  /\ UNCHANGED <<commands, lockVars, isChainLocksActive, isEnforced, verifying, job,
                 lastNotifyChainLockBlockIndex>>

MsghandFree == mostWork[msghand] = Idle /\ verifying[msghand] = NoLock

Header(b) ==
  /\ MsghandFree
  /\ ProcessNewBlockHeaders(b)
  /\ AcceptedBlockHeader(b)
  /\ UNCHANGED <<bestChainLock, seenChainLocks, stateVars, schedVars, verifying, job,
                 lastNotifyChainLockBlockIndex, islocked>>

Block(b, fForceProcessing) ==
  /\ MsghandFree
  /\ ProcessNewBlock(msghand, b, fForceProcessing)
  /\ AcceptedBlockHeader(b)
  /\ UNCHANGED <<bestChainLock, seenChainLocks, stateVars, schedVars, verifying, job,
                 lastNotifyChainLockBlockIndex, islocked>>

-----------------------------------------------------------------------------
(* Receiving CLSIGs. *)

\* First section of ProcessNewChainLock, under cs.
ProcessNewChainLock(t, sig) ==
  /\ ~Aborted
  /\ verifying[t] = NoLock
  /\ sig \notin seenChainLocks
  /\ seenChainLocks' = seenChainLocks \cup {sig}
  /\ verifying' = IF bestChainLock # NoLock /\ sig.nHeight <= bestChainLock.nHeight
                  THEN verifying ELSE [verifying EXCEPT ![t] = sig]
  /\ UNCHANGED <<vars, bestChainLock, bestChainLockBlockIndex, stateVars, schedVars,
                 lastNotifyChainLockBlockIndex, job, islocked>>

\* A CLSIG message from a peer.
ProcessMessage(sig) ==
  /\ isChainlocksEnabled
  /\ MsghandFree
  /\ ProcessNewChainLock(msghand, sig)

\* HandleNewRecoveredSig for the message this node signed last.
HandleNewRecoveredSig(sig) ==
  /\ isChainLocksActive
  /\ bestChainLock # NoLock => bestChainLock.nHeight < sig.nHeight
  /\ ProcessNewChainLock(sigshares, sig)

\* Signature check, then the last section of ProcessNewChainLock under cs_main
\* and cs.  The height is not compared with bestChainLock again.
AcceptChainLock(t) ==
  /\ ~Aborted
  /\ verifying[t] # NoLock
  /\ LET sig == verifying[t]
         known == sig.blockHash \in chain.index /\ Height[sig.blockHash] = sig.nHeight
     IN  IF ~VerifyRecoveredSig(sig) \/ InternalHasConflictingChainLock(sig)
         THEN UNCHANGED <<bestChainLock, bestChainLockBlockIndex, tasks>>
         ELSE /\ bestChainLock' = sig
              /\ bestChainLockBlockIndex' = IF known THEN sig.blockHash
                                            ELSE bestChainLockBlockIndex
              /\ tasks' = IF known THEN tasks \cup {"clsig"} ELSE tasks
  /\ verifying' = [verifying EXCEPT ![t] = NoLock]
  /\ UNCHANGED <<vars, seenChainLocks, stateVars, tryLockChainTipScheduled,
                 lastNotifyChainLockBlockIndex, job, islocked>>

\* Cleanup forgets CLSIGs seen long ago.
Cleanup(sig) ==
  /\ ~Aborted
  /\ sig \in seenChainLocks \ {verifying[t] : t \in LockThreads}
  /\ seenChainLocks' = seenChainLocks \ {sig}
  /\ UNCHANGED <<vars, bestChainLock, bestChainLockBlockIndex, stateVars, schedVars,
                 lastNotifyChainLockBlockIndex, verifying, job, islocked>>

-----------------------------------------------------------------------------
(* The scheduler thread. *)

\* First section of CheckActiveState, under cs_main, at the start of a task.
CheckActiveState(task) ==
  /\ ~Aborted
  /\ job.pc = "idle"
  /\ task \in tasks \cup {"periodic"}
  /\ tasks' = tasks \ {task}
  /\ isChainLocksActive' = isChainlocksEnabled
  /\ job' = [Resting EXCEPT !.pc = "check", !.task = task,
                            !.fDIP0008Active = Height[chain.tip] >= DIP0008Height]
  /\ UNCHANGED <<vars, lockVars, isChainlocksEnabled, isEnforced, verifying, islocked,
                 tryLockChainTipScheduled, lastNotifyChainLockBlockIndex>>

\* The rest of CheckActiveState and the first section of EnforceBestChainLock, under
\* cs.  The locks a node holds when enforcement turns on are dropped.
UpdateEnforced ==
  LET enforced  == job.fDIP0008Active /\ isChainLocksActive
      turnedOn  == enforced /\ ~isEnforced
      lock      == IF turnedOn THEN NoBlock ELSE bestChainLockBlockIndex
      enforcing == enforced /\ lock # NoBlock
  IN  /\ ~Aborted
      /\ job.pc = "check"
      /\ isEnforced' = enforced
      /\ bestChainLock' = IF turnedOn THEN NoLock ELSE bestChainLock
      /\ bestChainLockBlockIndex' = lock
      /\ lastNotifyChainLockBlockIndex' =
           IF turnedOn THEN NoBlock ELSE lastNotifyChainLockBlockIndex
      /\ job' = IF enforcing THEN [job EXCEPT !.pc = "enforce", !.lock = lock] ELSE Resting
      /\ tryLockChainTipScheduled' =
           (tryLockChainTipScheduled /\ (job.task = "tip" => enforcing))
      /\ UNCHANGED <<vars, seenChainLocks, isChainlocksEnabled, isChainLocksActive, tasks,
                     verifying, islocked>>

\* Siblings of the blocks from the locked block down to the active chain.
ConflictingSiblings(lock) ==
  LET branch == Branch(chain, lock)
  IN  {b \in chain.index \ (branch \cup {Genesis}) : Parent[b] \in {Parent[x] : x \in branch}}

\* DoInvalidateBlock for one of the blocks after the other; no header comes or goes.
InvalidateEach(c, blocks) == FoldSet(LAMBDA b, acc : InvalidateBlock(acc, b), c, blocks)

InvalidateSiblings(c, siblings) ==
  LET d == InvalidateEach(c, siblings)
  IN  [c EXCEPT !.failedValid = d.failedValid, !.failedChild = d.failedChild,
                !.candidates = d.candidates, !.tip = d.tip]

\* Second section of EnforceBestChainLock, under cs_main.
EnforceBestChainLock ==
  LET lock == job.lock
      siblings == ConflictingSiblings(lock)
      c == InvalidateSiblings(chain, siblings)
      d == IF IsValid(c, lock) THEN c ELSE ResetBlockFailureFlags(c, lock)
  IN  /\ ~Aborted
      /\ job.pc = "enforce"
      /\ chain' = d
      /\ UpdatedBlockTip(d, siblings # {})
      /\ mostWork' = [mostWork EXCEPT ![scheduler] =
                        IF InActiveChain(d, lock) THEN Idle ELSE NoBlock]
      /\ job' = [job EXCEPT !.pc = "notify"]
      /\ UNCHANGED <<commands, lockVars, isChainLocksActive, isEnforced, verifying,
                     lastNotifyChainLockBlockIndex, islocked>>

\* Last section of EnforceBestChainLock, and the end of the task.
NotifyChainLock ==
  /\ ~Aborted
  /\ job.pc = "notify"
  /\ mostWork[scheduler] = Idle
  /\ lastNotifyChainLockBlockIndex' =
       IF InActiveChain(chain, job.lock) THEN job.lock ELSE lastNotifyChainLockBlockIndex
  /\ job' = Resting
  /\ tryLockChainTipScheduled' = (tryLockChainTipScheduled /\ job.task # "tip")
  /\ UNCHANGED <<vars, lockVars, stateVars, tasks, verifying, islocked>>

-----------------------------------------------------------------------------
Scheduler ==
  \/ \E task \in {"tip", "clsig", "periodic"} : CheckActiveState(task)
  \/ UpdateEnforced
  \/ EnforceBestChainLock
  \/ NotifyChainLock

LocksNext ==
  \/ \E t \in Threads : Activate(t)
  \/ \E b \in Blocks \ {Genesis} :
       \/ Header(b)
       \/ \E f \in BOOLEAN : Block(b, f)
  \/ \E sig \in CLSigs : ProcessMessage(sig) \/ Cleanup(sig)
  \/ \E sig \in OwnCLSigs : HandleNewRecoveredSig(sig)
  \/ \E t \in LockThreads : AcceptChainLock(t)
  \/ Scheduler

LocksSpec == LocksInit /\ [][LocksNext]_allVars

\* The threads run: the scheduler takes a task at least every five seconds (Start),
\* a started EnforceBestChainLock, ActivateBestChain or ProcessNewChainLock goes
\* on.  WF of each with its ENABLED written out.
ThreadsFair ==
  /\ \/ []<>(Aborted \/ job.pc # "idle")
     \/ []<><<CheckActiveState("periodic")>>_allVars
  /\ []<>(Aborted \/ job.pc # "check") \/ []<><<UpdateEnforced>>_allVars
  /\ []<>(Aborted \/ job.pc # "enforce") \/ []<><<EnforceBestChainLock>>_allVars
  /\ \/ []<>(Aborted \/ job.pc # "notify" \/ mostWork[scheduler] # Idle)
     \/ []<><<NotifyChainLock>>_allVars
  /\ \A t \in Threads :
       []<>(Aborted \/ mostWork[t] = Idle) \/ []<><<Activate(t)>>_allVars
  /\ \A t \in LockThreads :
       []<>(Aborted \/ verifying[t] = NoLock) \/ []<><<AcceptChainLock(t)>>_allVars

LocksFairSpec == LocksSpec /\ ThreadsFair

-----------------------------------------------------------------------------
\* ProcessNewChainLock and AcceptedBlockHeader together: whichever of a CLSIG and
\* its header comes first, once both are there the enforced index is that of the
\* best CLSIG, and no index is left when the lock was reset.
KnownLockTracksBest ==
  IF bestChainLock = NoLock THEN bestChainLockBlockIndex = NoBlock
  ELSE LET b == bestChainLock.blockHash
       IN  b \in chain.index /\ Height[b] = bestChainLock.nHeight
             => bestChainLockBlockIndex = b

\* EnforceBestChainLock: while a fully received lock without an invalid block below
\* it stands, the active chain comes to hold it, whatever islocks it conflicts with,
\* whatever failure flags its chain has and however often other chains outgrow it.
LockedChainActivates ==
  \A b \in Blocks \ {Genesis} :
    (/\ isEnforced
     /\ bestChainLockBlockIndex = b
     /\ b \in chain.chainTx
     /\ Ancestry[b] \cap InvalidBlocks = {})
      ~> \/ InActiveChain(chain, b)
         \/ ~isEnforced
         \/ bestChainLockBlockIndex # b
         \/ Aborted
=============================================================================
