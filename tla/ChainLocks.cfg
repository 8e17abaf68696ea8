CONSTANTS
  g = g  a1 = a1  a2 = a2  b1 = b1  b2 = b2
  Blocks = {g, a1, a2, b1, b2}
  Genesis = g
  Parent <- TreeParent
  Ancestry <- TreeAncestry
  Height <- TreeHeight
  ChainWork <- UnitWork
  Address <- TreeAddress
  NoBlock = NoBlock
  Idle = Idle
  NoLock = NoLock
  msghand = msghand  scheduler = scheduler  sigshares = sigshares
  MalformedBlocks = {}
  InvalidBlocks = {}
  MIN_BLOCKS_TO_KEEP = 2
  Threads = {msghand, scheduler}
  Commands = {}
  MaxCommands = 0
  nMaxReorgDepth = 5
  nMaxReorgDepthEnforcementBlock = 100
  DIP0008Height = 1
  CLSigs <- LockA1A2
  OwnCLSigs <- LockA1
  IslockConflicts = {a2}
  DisabledAt = {b1}
  SIGN_HEIGHT_OFFSET = 2
SPECIFICATION LocksFairSpec
INVARIANTS
  KnownLockTracksBest
PROPERTY LockedChainActivates
CHECK_DEADLOCK FALSE
