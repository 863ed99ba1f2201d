SPECIFICATION FairSpec
CONSTANTS
  StoreHeight = 3
  TxCount <- MCTxCount
  CommitEvery = 2
  InitRowValues = {"ok"}
  Restarts = FALSE
  NoRow = NoRow
  NoTx = NoTx
INVARIANTS TypeOK MissingRowsHaveReindex
PROPERTY IndexEventuallyComplete
