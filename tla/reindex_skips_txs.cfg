SPECIFICATION Spec
CONSTANTS
  StoreHeight = 3
  TxCount <- MCTxCount
  CommitEvery = 2
  InitRowValues = {"ok", "stale"}
  Restarts = FALSE
  NoRow = NoRow
  NoTx = NoTx
INVARIANT MissingRowsHaveReindex
