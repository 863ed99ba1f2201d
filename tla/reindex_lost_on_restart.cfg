SPECIFICATION Spec
CONSTANTS
  StoreHeight = 3
  TxCount <- MCTxCount
  CommitEvery = 2
  InitRowValues = {"ok"}
  Restarts = TRUE
  NoRow = NoRow
  NoTx = NoTx
INVARIANT MissingRowsHaveReindex
