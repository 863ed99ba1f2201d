CONSTANTS
  Processes = {p1}
  Nullifiers = {n1, n2}
  Accounts = {}
  Balances = {1}
  Infos = {i1, i2}
  Questions <- MCQuestions
  MaxValue = 1
  Packages <- MCValidPackages
  Weights = {1}
  MaxOverwrites = 1
  MaxHeight = 3
  MaxTokenRows = 0
  MaxCrashes = 1
  IgnoreLiveResults = FALSE
  BootstrapConcurrent = FALSE
  ReindexMode = "betweenBlocks"
  NoRow = NoRow
  NoVote = NoVote
  NoTx = NoTx
  NoReplay = NoReplay
SPECIFICATION Spec
INVARIANTS
  TypeOK
  IndexMatchesCommittedChain
  VoteCountMatchesChain
  LiveResultsMatchChain
PROPERTY
  IndexRefinesSpec
