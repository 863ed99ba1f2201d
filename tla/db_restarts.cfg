SPECIFICATION Spec
CONSTANTS
  StoreHeight = 3
  TxCount <- MCTxCount
  CommitEvery = 2
  InitRowValues = {"ok", "stale"}
  Restarts = TRUE
  NoRow = NoRow
  NoTx = NoTx
PROPERTY StaleRowsKept
