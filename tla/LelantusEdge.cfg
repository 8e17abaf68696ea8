SPECIFICATION Spec
INVARIANT NeverAborts
CONSTANTS
  g = g  a1 = a1  a2 = a2  a3 = a3  a4 = a4  b2 = b2  b3 = b3  b4 = b4
  NoBlock = NoBlock
  Blocks = {g, a1, a2, a3, a4, b2, b3, b4}
  Genesis = g
  Parent <- TreeParent
  Ancestry <- TreeAncestry
  Height <- TreeHeight
  ChainWork <- UnitWork
  Address <- TreeAddress
  MalformedBlocks = {}
  MIN_BLOCKS_TO_KEEP = 1
  maxCoinInGroup = 4
  Forged = {8, 9}
  nLelantusFixesStartBlock = 2
  startGroupSize = 2
  nMaxLelantusInputPerBlock = 3
  Bodies <- UnevenBodies
  Disallowed = {}
