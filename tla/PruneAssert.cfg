CONSTANTS
  g = g  a1 = a1  a2 = a2  b1 = b1  b2 = b2
  Blocks = {g, a1, a2, b1, b2}
  Genesis = g
  Parent <- TreeParent
  Ancestry <- TreeAncestry
  Height <- TreeHeight
  ChainWork <- UnitWork
  Address <- TreeAddress
  NoBlock = NoBlock
  Idle = Idle
  NoLock = NoLock
  msghand = msghand  scheduler = scheduler  sigshares = sigshares
  MalformedBlocks = {}
  InvalidBlocks = {}
  MIN_BLOCKS_TO_KEEP = 2
  Threads = {msghand, scheduler}
  Commands = {}
  MaxCommands = 0
  nMaxReorgDepth = 5
  nMaxReorgDepthEnforcementBlock = 100
  DIP0008Height = 0
  CLSigs <- LockA2
  OwnCLSigs <- NoCLSigs
  IslockConflicts = {}
  DisabledAt = {}
  SIGN_HEIGHT_OFFSET = 2
SPECIFICATION LocksSpec
INVARIANT NeverAborted
CHECK_DEADLOCK FALSE
