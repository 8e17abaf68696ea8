CONSTANTS
  g = g  a1 = a1  a2 = a2  honest = honest  silent = silent
  Blocks = {g, a1, a2}
  Genesis = g
  Parent <- TreeParent
  Ancestry <- TreeAncestry
  Height <- TreeHeight
  ChainWork <- UnitWork
  Address <- TreeHeight
  NoBlock = NoBlock
  MalformedBlocks = {}
  MIN_BLOCKS_TO_KEEP = 1
  Peers = {honest, silent}
  Honest = {honest}
  Outbound = {honest}
  Submitted = {a2}
  None = None
  BLOCK_DOWNLOAD_WINDOW = 1
  MAX_BLOCKS_IN_TRANSIT_PER_PEER = 2
  BLOCK_STALLING_TIMEOUT = 0
  BLOCK_DOWNLOAD_TIMEOUT_BASE = 0
  BLOCK_DOWNLOAD_TIMEOUT_PER_PEER = 1
  DirectFetchHeight = 0
  RecentHeight = 2
SPECIFICATION FairSpec
INVARIANTS
  TypeOK QueuesMatchMap CountersExact StallerOwesABlock NothingSkipped
PROPERTIES RequestsEnd SyncCompletes
