SPECIFICATION Spec
INVARIANTS LinksMatchInputs PackagesExact PoolMinable SerialsMatchEntries
CHECK_DEADLOCK FALSE
PROPERTY ConfirmedNotLost
CONSTANTS
  g = g  f = f  m = m  a2 = a2  a3 = a3  b2 = b2  b3 = b3  b4 = b4
  tp = tp  tq = tq  tc = tc  td = td  tn = tn  te = te  tx = tx  tk = tk  tl = tl  j1 = j1  j2 = j2  js = js
  NoBlock = NoBlock
  Blocks = {g, m, a2, a3, b2, b3, b4}
  Genesis = g
  Parent <- TreeParent
  Ancestry <- TreeAncestry
  Height <- TreeHeight
  ChainWork <- UnitWork
  Address <- TreeAddress
  MalformedBlocks = {}
  MIN_BLOCKS_TO_KEEP = 1
  Txs = {tp, tq, tc, td, tn, te, tx, tk, tl, j1, j2, js}
  Inputs <- MCInputs
  nOutputs = 2
  Serials <- MCSerials
  Fee <- MCFee
  LockTime <- MCLockTime
  Replaceable = {tc, tp}
  BlockTxs <- MCBlockTxs
  Funding <- MCFunding
  Deltas <- MCDeltas
  MaxMempool = 4
  LimitAncestors = 3
  LimitDescendants = 4
  MaxDescendantsToVisit = 2
  minRelayTxFee = 1
  COINBASE_MATURITY = 2
