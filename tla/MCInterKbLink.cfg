SPECIFICATION FairSpec
CONSTANTS
  c1 = c1
  c2 = c2
  k1 = k1
  None = None
  SlaveKeySet <- MCSlaveKeySet
  Conns <- MCConns
  TxBuffers <- MCTxBuffers
INVARIANTS
  TypeOK
  StillLooking
  StillAdvertising
  ViewCurrent
PROPERTIES
  Reconnects
  ImplementsSlaveLink
