SPECIFICATION Spec
CONSTANTS
  c1 = c1
  c2 = c2
  k1 = k1
  None = None
  SlaveKeySet <- MCSlaveKeySet
  Conns <- MCConns
  TxBuffers <- MCTxBuffers
PROPERTY
  PressReal
