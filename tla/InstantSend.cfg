SPECIFICATION Spec
INVARIANTS
   PoolFollowsLocks IndexedConflictsResolved TrackingExact 
 
CHECK_DEADLOCK FALSE
CONSTANTS
  g = g  a1 = a1  b1 = b1  tf = tf  tp = tp  tc = tc  tx = tx
  NoBlock = NoBlock
  None = None
  Blocks = {g, a1, b1}
  Genesis = g
  Parent <- TreeParent
  Ancestry <- TreeAncestry
  Height <- TreeHeight
  ChainWork <- TreeWork
  Address <- TreeWork
  MalformedBlocks = {}
  MIN_BLOCKS_TO_KEEP = 1
  Txs = {tp, tc, tx}
  Inputs <- MCInputs
  Funding = {tf}
  BlockTxs <- MCBlockTxs
  Islocks = {tp}
  CLSigs = {a1, b1}
  nInstantSendConfirmationsRequired = 6
