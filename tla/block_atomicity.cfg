CONSTANTS
  Processes = {p1}
  Nullifiers = {n1, n2}
  Accounts = {a1}
  Balances = {1, 2}
  Infos = {i1, i2}
  Questions <- MCQuestions
  MaxValue = 1
  Packages <- MCOnePackage
  Weights = {1}
  MaxOverwrites = 1
  MaxHeight = 3
  MaxTokenRows = 1
  MaxCrashes = 0
  IgnoreLiveResults = TRUE
  BootstrapConcurrent = FALSE
  ReindexMode = "betweenBlocks"
  NoRow = NoRow
  NoVote = NoVote
  NoTx = NoTx
  NoReplay = NoReplay
SPECIFICATION Spec
INVARIANTS
  IndexMatchesCommittedChain
PROPERTY
  IndexRefinesSpec
