CONSTANTS
  Processes = {p1}
  Nullifiers = {n1, n2}
  Accounts = {}
  Balances = {1}
  Infos = {i1, i2}
  Questions <- MCQuestions
  MaxValue = 1
  Packages <- MCValidPackages
  Weights = {1, 2}
  MaxOverwrites = 1
  MaxHeight = 3
  MaxTokenRows = 0
  MaxCrashes = 0
  IgnoreLiveResults = FALSE
  BootstrapConcurrent = TRUE
  ReindexMode = "goroutine"
  NoRow = NoRow
  NoVote = NoVote
  NoTx = NoTx
  NoReplay = NoReplay
SPECIFICATION Spec
INVARIANTS
  IndexMatchesCommittedChain
