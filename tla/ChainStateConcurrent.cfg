CONSTANTS
  g = g  a1 = a1  a2 = a2  a3 = a3  a4 = a4  b1 = b1  b2 = b2  c2 = c2
  Blocks = {g, a1, a2, b1, b2, c2}
  Genesis = g
  Parent <- TreeParent
  Ancestry <- TreeAncestry
  Height <- TreeHeight
  ChainWork <- UnitWork
  Address <- TreeAddress
  NoBlock = NoBlock
  Idle = Idle
  MalformedBlocks = {c2}
  InvalidBlocks = {b2}
  MIN_BLOCKS_TO_KEEP = 2
  Threads = {t1, t2}
  Commands = {"invalidateblock", "reconsiderblock"}
  MaxCommands = 3
  nMaxReorgDepth = 5
  nMaxReorgDepthEnforcementBlock = 100
  DIP0008Height = 0
SPECIFICATION FairSpec
INVARIANT CandidatesSound
PROPERTY ActivationTerminates
CHECK_DEADLOCK FALSE
