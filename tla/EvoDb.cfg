SPECIFICATION Spec
CONSTANTS
  g = g  a1 = a1  a2 = a2  a3 = a3  b1 = b1  b2 = b2
  Blocks <- MCBlocks
  Genesis = g
  Parent <- MCParent
  Height <- MCHeight
  Ancestors <- MCAncestors
  DIP0003Height = 2
  BestBlock = BestBlock
  Record = Record
  None = None
INVARIANTS
  TypeOK EvoDbAtomic StoresAgree RestartSucceeds
