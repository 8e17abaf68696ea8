CONSTANTS
  g = g  a1 = a1  a2 = a2  a3 = a3  a4 = a4  b1 = b1  b2 = b2  c2 = c2
  Blocks = {g, a1, a2, a3, a4, b1, c2}
  Genesis = g
  Parent <- TreeParent
  Ancestry <- TreeAncestry
  Height <- TreeHeight
  ChainWork <- UnevenWork
  Address <- TreeAddress
  NoBlock = NoBlock
  Idle = Idle
  MalformedBlocks = {}
  InvalidBlocks = {c2}
  MIN_BLOCKS_TO_KEEP = 2
  Threads = {main}
  Commands = {"invalidateblock", "preciousblock"}
  MaxCommands = 2
  nMaxReorgDepth = 1
  nMaxReorgDepthEnforcementBlock = 2
  DIP0008Height = 0
SPECIFICATION Spec
INVARIANTS
  TypeOK NeverAborted 
PROPERTIES BestChainActive 
CHECK_DEADLOCK FALSE
