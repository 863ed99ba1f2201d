# TLA+ model of the vochain indexer

This directory holds TLA+ models of the vocdoni-node indexer, which is in
`src/vochain/indexer/indexer.go`, and of the ZK circuit artifact loader in
`src/crypto/zk/circuit/circuit.go`. It also holds the TLC configurations that
check the models. The indexer mirrors the chain state into a SQLite database:
processes, votes, accounts, token transfers, token fees and blocks. It also
maintains *live results*, which are running tallies of the ballots of a voting
process.

## 1. The system

### Parts and how they interact

| Part | Source | Role |
|---|---|---|
| Chain application (environment) | outside `src/` | Executes blocks. For each transaction it calls the indexer's event callbacks. At the end of a block it calls `Indexer.Commit(height)` and then saves its state, or it calls `Indexer.Rollback()`. It reads state as committed (last saved block) or uncommitted (working). |
| Event sink | indexer.go 683-856 | `OnProcess`, `OnVote`, `OnCancel`, `OnProcessKeys`, `OnProcessStatusChange`, `OnProcessDurationChange`, `OnRevealKeys`, `OnProcessResults`, `OnProcessesStart`, `OnSetAccount`, `OnTransferTokens`, `OnCensusUpdate`, `OnSpendTokens`. They write rows through the block transaction, or they mark a process for `Commit` to revisit. |
| Block transaction manager | indexer.go 312-326, 521-681 | `blockMu` guards one lazily opened write transaction, `blockTx`, and three scratch sets: `votePool`, `blockUpdateProcs` and `blockUpdateProcVoteCounts`. `Commit` finishes the block and commits `blockTx`. `Rollback` discards both. |
| Vote pool and live results | indexer.go 561-644, 695-739 | `OnVote` keeps the last ballot of each voter of a live process in `votePool`. `Commit` adds the pooled ballots to the stored results. For an overwrite it subtracts the previously committed ballot. It then recomputes the vote counts as `COUNT(DISTINCT nullifier)`. |
| After-sync bootstrap | indexer.go 328-431 | Runs once the chain is synced. It zeroes the results of every unfinished process, recomputes them from the committed ballots, makes those processes live and commits `blockTx`. Production runs it on its own goroutine. Tests call it between blocks. |
| Reindex | indexer.go 433-519 | Rebuilds the transaction index from the block store after a migration. It runs on its own goroutine. |
| Persistence gateway | indexer.go 114-310 | `New`, `startDB` (goose migrations, schedules a reindex), `RestoreBackup`, `SaveBackup`, `ExportBackupAsBytes`, `Close`. |
| Query surface | indexer.go 858-988 | Paginated listings of token fees, token transfers and accounts, plus counts and `AccountExists`. |
| Results aggregator | package `vochain/results`, outside `src/` | `Results.AddVote`, `NewEmptyVotes`: tallies per question and choice. A ballot whose choice lies outside the vote options is rejected. |
| Indexer types | indexertypes/types.go | Row structs and the `ProcessFromDB` and JSON conversions. Lines 206-335 are a stand-alone websocket test client. |
| API client | apiclient/account.go, vote.go | HTTP request builders for accounts, votes and censuses. |
| ZK circuit loader | crypto/zk/circuit/circuit.go | Loads circuit artifacts from a local cache, or downloads and stores them, and checks their hashes. |
| Merkle tree tests | tree_test.go | Tests of the external `arbo` library. |

The chain goroutine drives the indexer. During a block, the chain changes its
working state and then calls the matching callback. After the last transaction
it calls `Commit` and then saves its state, or it calls `Rollback`.
`startDB` schedules `ReindexBlocks` when migrations were pending; `AfterSyncBootstrap` and `ReindexBlocks` run on their own goroutines. They
synchronise with the block only by taking `blockMu`, and they share the same
`blockTx`.

### Behaviours that make the indexer hard

* **Concurrency.** The bootstrap goroutine can take `blockMu` between two
  callbacks of a block in progress. It can also take it between
  `Indexer.Commit` and the chain's save of the block.
* **Split lock in `OnVote`.** `OnVote` updates `votePool` before it takes
  `blockMu` (701-713 against 722).
* **Overwrites.** `Commit` must subtract the ballot it counted before. It
  reads that ballot from the committed state (593), and it can skip a ballot
  (606-617).
* **Rollback.** A rollback must leave the database as it was before the block.
* **Vote counts.** A count must count voters, not ballots (640).
* **Restarts.** The database file outlives the process; the reindex goroutine
  and the open `blockTx` do not. `goose.Up` records the migrations at once,
  while the reindex they call for happens later.
* **Restore.** `copyFile` truncates the database file in place before it
  copies the snapshot.
* **Shared artifact cache.** Several loaders may read and rewrite the same
  cache files; `storeFile` truncates a file before writing it.

## 2. Modules

| Module | Models | Source |
|---|---|---|
| `Indexer` | The chain's block loop (environment), the event sink, the block transaction manager, the vote pool and live results, the results aggregator, the after-sync bootstrap, and `ReindexBlocks` as a writer on the shared `blockTx`. | indexer.go 312-856 |
| `IndexerDB` | The database file across process lifetimes: `New`, `startDB` with the goose migrations, `RestoreBackup` and `copyFile`, `SaveBackup`, `ExportBackupAsBytes`, `Close`, and the `ReindexBlocks` goroutine. | indexer.go 112-310, 433-519 |
| `Queries` | The listings (`TokenFeesList`, `TokenTransfersList`, `AccountList`), the counts and `AccountExists`, interleaved with blocks adding rows. | indexer.go 804-988 |
| `Circuit` | `LoadZkCircuit` with `LoadLocal`, the hash check, `LoadRemote`, `downloadFile` and `storeFile`, for concurrent loaders sharing a cache directory. | circuit.go 61-264 |
| `IndexSpec` | What the indexer promises its readers: the index is the index of the last saved chain state, it moves one saved block at a time, and processes leave the live set only on a restart. `Indexer` is shown to implement it. | — (abstract) |
| `MC_Indexer`, `MC_IndexerDB`, `MC_Queries`, `MC_Circuit` | Definitions the TLC configurations substitute for constants, and the loader symmetry. | — |

The line-level correspondence of every definition is in `PROJECT.json`,
under "map".

### How `Indexer` corresponds to the code

**State.** Each of `votePool`, `blockUpdateProcs`,
`blockUpdateProcVoteCounts` and `liveResultsProcs` is the indexer field of the
same name:
* `votePool` maps a process to a function from nullifier to ballot.
* The other three are sets of processes; `liveResultsProcs` is a `sync.Map`
  in the code.

**Database.** `db` is the database content that is committed. `blockTx` is
what a query through the open `blockTx` sees, or `NoTx` when none is open.
`blockTxQueries` opens the transaction on first use, so a write is modelled
as `blockTx' = f(blockTxQueries)`. A row is abstracted to the fields the
properties compare:
* a process row keeps its fields (abstracted as `Infos`), its results and its
  vote count;
* a vote row keeps its process, nullifier and overwrite counter;
* token transfer and fee rows are counters of appended rows.

**Chain side.** `chainPc`, `height`, `synced`, `committed`, `working` and
`curVote` model the chain application:
* `committed` is what `State.X(committed=true)` reads;
* `working` includes the block in progress.

**Locking.** Every section that holds `blockMu` is one action, so two of them
never interleave and the mutex needs no variable. `OnVote` is two actions:
* `OnVote` is the chain's state change plus the unlocked pool update;
* `OnVoteLocked` writes the vote row and marks the vote count.

**Actions.**
* **Chain:** `BeginBlock`, `Sync` and `SaveState` are the environment.
* **Callbacks:** one action each. The callbacks that only mark a process
  share `MarkProcessUpdate`.
* **`Commit`:** the whole of `Indexer.Commit`:
  * the block row;
  * re-reading the marked processes;
  * the pooled ballots, added and subtracted through `commitVotesUnsafe`;
  * the vote-count recomputation;
  * committing `blockTx`;
  * clearing the scratch sets.
* **`Rollback`:** clears the sets, rolls back `blockTx`, and the chain
  discards its working state.
* **`AfterSyncBootstrap`:** the whole function. This includes:
  * the skip on `ErrEmptyTree`;
  * the fact that `ProcessInfo` reads through the read-only connection, so a
    process whose row exists only in the open `blockTx` is not recovered;
  * the commit of `blockTx`.
* **`Crash`:** the node process dies and restarts. What `New` builds
  afresh (indexer.go 114-126) is lost: `votePool`, the scratch sets,
  `liveResultsProcs`, the open `blockTx`, the sync flag and the bootstrap.
  The database and the saved chain state stay. A crash between
  `Indexer.Commit` and the chain's save leaves the decided block to be
  replayed (`replay`). `Commit` of the replayed block must decide the same
  state, and `Sync` waits until the replay is done, as the ABCI handshake
  replays stored blocks before the node starts syncing. `MaxCrashes` bounds
  the crashes.
* **`ReindexBlocks`:** the whole loop, which holds `blockMu` throughout. It
  reuses the shared `blockTx`, and adds a block row for every height in the
  block store (`BlockStoreHeights`): the saved heights, and a decided block
  until the chain saves or replays it. A block the chain executes and rolls
  back is a proposal and is never stored, so the block in progress is not
  counted; the model does not distinguish a finalised execution whose block
  is already stored. A `CreateBlock` of a height already
  indexed fails and is only logged. It commits `blockTx` and leaves it nil.
  `ReindexMode` selects how it is scheduled:
  * `"never"`: no migration was pending;
  * `"betweenBlocks"`: the tests' call site, `ReindexBlocks(true)`;
  * `"goroutine"`: after `WaitUntilSynced`, as `startDB` schedules it.

  A crash drops a pending reindex, because the restarted `startDB` finds no
  migration pending. Its transaction rows and mismatch handling are in
  `IndexerDB`.
* **`HeightBoundReached`:** the stuttering step once the height bound is
  reached, so that the end of the bounded run is not reported as a deadlock.

**Results.** The aggregator is abstracted to tallies per question and choice
plus a total weight. A package is countable iff every choice is at most
`MaxValue`; otherwise `AddVote` fails. `Tally(p, st)` is the reference
definition: the sum of the latest countable ballot of each voter in state
`st`.

### The refinement of `IndexSpec`

`IndexSpec` has one step per saved block (`SaveBlock`), one per processes
becoming live (`GoLive`) and a `Restart` that empties the live set. The index
of a chain state is a parameter; `Indexer` supplies `ChainIndex`. It holds:
* the block rows, accounts, transfer and fee counters;
* per process, its info, the latest overwrite counter of each voter, the
  vote count;
* for a live process, when live results are on, the tally of its ballots.

The mapping (`Abstract` in `Indexer`) reads the abstract index from the
committed database (`DBIndex`). The abstract chain is `savedChain`:
* the working state while the chain saves a block;
* the block pending replay after a crash;
* otherwise the committed state.

`IndexRefinesSpec == Abstract!Spec` then says that no step of `Indexer`
(a callback, a rollback, the bootstrap, a crash) changes what readers see,
except the commit of a decided block, which moves it exactly one block.

### How `IndexerDB` corresponds to the code

**State.** The durable state, which a restart keeps, is:
* `file`, the database file at `dbPath`. It may be absent, an empty file, a
  file with the old schema, or one with the current schema. Its block and
  transaction rows are `"ok"` (as in the block store), `"stale"` (another
  time or hash) or absent;
* `backup`, the latest snapshot;
* `expect`, the node's `ExpectBackupRestore` option.

The process state, which a restart loses, is:
* `proc`, where the node is in its life;
* `rwOpen`, whether the writer connection is open;
* `synced`;
* `rx` and `rxHeight`, the reindex goroutine and its loop counter;
* `blockTx`, the open transaction of the reindex.

**Actions.**
* `New` and `startDB` open the file. When migrations are pending,
  `startDB` schedules the reindex, then migrates the schema to current.
* `RestoreBackup` panics if the writer is open. Otherwise it truncates the
  file, as `os.Create` does.
* `RestoreCopy` either finishes the copy and opens the database, or fails,
  and the node exits.
* `ReindexStart`, `ReindexBlock` and `ReindexFinish` are the goroutine's
  steps, each under `blockMu`. `ReindexBlock` is one height of the loop:
  * every `CommitEvery` heights it commits `blockTx`;
  * it keeps a block row whose time differs;
  * it indexes the block's transactions up to the first one whose hash
    differs (the `return` at 496).
* `SaveBackup` and `ExportBackupAsBytes` copy the committed file.
* `Close` ends the process's use of the database.
* `ProcessExit` (a crash, or an exit) and `WipeDataDir` are the environment.

### How `Queries` corresponds to the code

**Rows and queries.** Rows are sequences in commit order, with only the
columns the filters compare. Each query is one SQL statement, so it reads
one committed snapshot and is one action.

**Account ids.** An account id filter is a full address, a shorter prefix,
an unknown 40-character id, or empty. Its meaning is abstracted to its
length and to the set of addresses it is a substring of.

**`listResponse`.** This is the code's shared handling of a listing:
* it refuses a negative offset or a limit that is not positive;
* it takes the total from the first row of the page.

The SQL statements live outside `src/` and are modelled from the
specification (`SearchPage`, `IdMatches`).

### How `Circuit` corresponds to the code

**State.** `disk` is the cache file of each artifact: absent, `"good"` (the
hash matches), `"bad"`, or `"partial"` (truncated by `os.Create` and not yet
written). Each loader has:
* a program counter;
* the index of the artifact it is reading or downloading;
* the contents it holds in memory.

**Actions.**
* `LoadLocal` reads one artifact per step; a missing file makes the loader
  go remote.
* `VerifyLocal` and `VerifyRemote` are the hash checks of `LoadZkCircuit`.
* `Download` is one step of `LoadRemote`. It takes an outcome of
  `downloadFile`: the remote serves a good or a bad artifact, or, when
  `Faults` holds, the download fails (bad URL, failed request, a status
  other than 200, an unreadable body).
* `storeFile` is split into `StoreCreate` (the truncation) and `StoreWrite`,
  so another loader can read the truncated file in between.
* `Crash` stops a loader.

**The `excused` flag.** It records a loader's own faults: a failed download
or store, a crash, or a bad artifact served to it.

**Store before verify.** `LoadRemote` stores each artifact as it arrives,
and the hashes are checked only afterwards (circuit.go:151, 81). So a
non-matching remote artifact replaces a good cached one. The model has this
order, but the properties excuse a loader that was served a bad artifact, so
no checked property covers the replaced file.

## 3. Runs

| Run | Module | Expect | Properties | Shows |
|---|---|---|---|---|
| `live_results` | Indexer | pass | TypeOK, IndexMatchesCommittedChain, VoteCountMatchesChain, LiveResultsMatchChain, IndexRefinesSpec | Overwrites within a block and across blocks, rollbacks, the bootstrap called between blocks (the tests' call site), and a crash at any step with the replay of a decided block always leave the live results equal to the tally of the saved ballots, and the index refines `IndexSpec`. |
| `block_atomicity` | Indexer | pass | IndexMatchesCommittedChain, IndexRefinesSpec | With accounts and token rows, each block's rows reach the database exactly when the chain saves the block, and never after a rollback. |
| `invalid_overwrite` | Indexer | violation | LiveResultsMatchChain | A valid overwrite of a non-countable ballot is never counted (indexer.go:614-617). |
| `bootstrap_race` | Indexer | violation | LiveResultsMatchChain | The bootstrap goroutine runs between `Indexer.Commit` and the chain's save, and a block's ballots are lost from the live results. |
| `goroutines_commit_block` | Indexer | violation | IndexMatchesCommittedChain | The bootstrap goroutine and the reindex goroutine each commit the `blockTx` of a block in progress, so a `Rollback` cannot undo that block's rows. In TLC's trace, `OnProcess` writes a process row, the bootstrap commits `blockTx`, and the block is rolled back. With `BootstrapConcurrent = FALSE`, the same configuration reports the reindex doing the same thing. |
| `db_lifecycle` | IndexerDB | pass | TypeOK, MissingRowsHaveReindex, IndexEventuallyComplete | Without crashes, every start from an absent, old-schema or current file, with or without an expected restore, runs with a complete index or a reindex on its way. A running node with missing rows eventually has them all. |
| `db_restarts` | IndexerDB | pass | StaleRowsKept | With crashes, restarts and wiped data directories at any step, a stale row is never overwritten, except by a restore. |
| `reindex_skips_txs` | IndexerDB | violation | MissingRowsHaveReindex | A stale transaction row ends the block's transaction loop, so the later transactions of the block stay unindexed (indexer.go:496). |
| `reindex_lost_on_restart` | IndexerDB | violation | MissingRowsHaveReindex | A node that stops before the reindex commits never reindexes again, because the migrations are already recorded (indexer.go:177-182). |
| `restore_interrupted` | IndexerDB | violation | RestoreNeverPanics | A restore interrupted after `copyFile` created the file makes the next start open it, and `RestoreBackup` panics (indexer.go:138, 224, 248). |
| `queries` | Queries | pass | AccountExistsMatchesIndex | Rows are committed between queries. `AccountExists` is true exactly for indexed full addresses, although `AccountList` matches by substring. |
| `circuit` | Circuit | pass | LoadFailsOnlyOnFault, CacheRepairedWhenNoFault | Two loaders share the cache. Any initial cache content is allowed, and so are bad remote artifacts, failed downloads and stores, and crashes. Even so, the loaders fail only on their own faults, and leave a good cache when nothing failed. |

Every property of a passing run is also checked against a seeded fault in the
code it is about. `PROJECT.json` "mutants" names each fault; the seeded
operators are in the modules, marked "Seeded fault".

### Bounds and why they are enough

**`Indexer`.** Both runs use one process, two voters, two values of process
fields, three blocks and at most one overwrite per voter.
* Both run `ReindexBlocks` at the tests' call site, between blocks, where
  it must change nothing a reader sees.
* `live_results` adds two questions with choices 0..1, weight 1 and at most
  one crash. One crash reaches every crash point once, including the one
  between `Indexer.Commit` and the save. Weight 1 keeps the run under a
  minute with the crash; a wrong subtraction still shows, as a tally off by
  one ballot.
* `block_atomicity` adds one account with two balances, and at most one
  transfer row and one fee row.

These bounds cover the interesting cases:
* Three blocks let a ballot be cast, then overwritten in a later block, with
  a rolled-back block in between.
* Two voters make `COUNT(*)` and `COUNT(DISTINCT)` differ.

A second process takes the state space past half an hour. The processes only
share the scratch sets, which one process already exercises.

**`IndexerDB`.** The block store has three blocks with 1, 2 and 0
transactions, and the reindex commits every 2 heights.
* There is an intermediate commit, a block with two transactions (so the
  early `return` can skip one), and a block with none.
* Initial rows of an old file are `"ok"` (`db_lifecycle`), or `"ok"` and
  `"stale"` (`db_restarts`).

**`Queries`.** The model has:
* two addresses, and two prefixes, one of which matches both addresses;
* at most two transfer and two fee rows;
* limits 0..2 and offsets -1..2.

That covers an offset past the rows, a zero limit, a page cut by the limit,
an empty page and a prefix with several matches.

**`Circuit`.** The model has two loaders (symmetric), three artifacts, and
every initial cache content. Two loaders are the least that can race on one
file; three artifacts let a failure fall between two stores.

### Fairness

`db_lifecycle` checks `IndexEventuallyComplete` under `FairSpec` of
`IndexerDB`: weak fairness of `Sync` and of the three reindex steps.
* `Sync` is fair because a running node catches up with its peers;
  `WaitUntilSynced` returns.
* The reindex steps are fair because the goroutine only waits for
  `blockMu`, which each block releases. Go's mutex does not starve a
  waiter.
* Nothing else is fair. The node may exit or crash, and may never restart.
  A node that keeps running does sync, because `Sync` is fair. The property
  is conditional on `proc = "up"`, so it speaks only of behaviours in which
  the node keeps running.

The other properties are safety properties: invariants, the action property
`StaleRowsKept`, and the refinement `IndexRefinesSpec`. Refinement needs no
fairness, because `IndexSpec` has none.

## 4. Findings

The findings are listed in `PROJECT.json`:
* **Bootstrap on its own goroutine.** When it runs there, as production runs
  it, the bootstrap breaks both block atomicity and the live results.
* **Reindex on its own goroutine.** `startDB` schedules `ReindexBlocks` on a
  goroutine. It can take `blockMu` between two callbacks of a block. It then
  commits that block's `blockTx`, holding the rows the block's callbacks
  wrote, as the bootstrap does, and a `Rollback` can no longer discard
  them.
* **Invalid ballot overwrite.** A valid overwrite of an invalid ballot is
  never counted.
* **Reindex early return.** A transaction with a mismatched hash makes the
  reindex skip the rest of its block, not just that row.
* **Reindex lost on restart.** The reindex that migrations call for is lost
  if the node stops before it commits.
* **Interrupted restore.** An interrupted restore leaves a file that makes
  the next `RestoreBackup` panic.

`bootstrap_race` assumes that the chain calls `Indexer.Commit` before it saves
its state. The specification describes this order. The chain code is not in
this repository.

Two divergences are known without a run of their own:
* **A process with no ballots is never made live.** `AfterSyncBootstrap`
  skips a process that has no ballots yet (`ErrEmptyTree`,
  indexer.go:407-409), so that process never becomes live. `Indexer` states
  the specification's promise as `BootstrapMakesProcessesLive`; it fails.
* **An empty page reports a total of 0.** A listing whose offset is past the
  last row returns an empty page with total 0, because the total is read from
  the first row of the page (indexer.go:890-893). The real count of matching
  rows is not 0. No checked property states the total.

Two more divergences are recorded without a run, because the run list is
kept to one run per question:
* **Token rows of a replayed block.** `Indexer.Commit` commits the block's
  token fee and transfer rows before the chain saves its state. After a crash
  in between, the chain replays the block, and `OnSpendTokens` and
  `OnTransferTokens` insert the rows again. The specification calls both
  entities append-only and says a block's effects become visible exactly
  once, at its commit. Checking `IndexRefinesSpec` on the `block_atomicity`
  configuration with `MaxCrashes = 1` finds this in five steps: `BeginBlock`,
  `OnTransferTokens`, `Commit`, `Crash`, then the replayed block. A fee row
  has no identifying column (`CreateTokenFeeParams`), so it is duplicated. A
  transfer row carries its `TxHash`; whether the schema (outside `src/`)
  makes that a unique key, so that the second insert fails and is only
  logged, is not known here. The published runs keep `MaxCrashes = 0`
  wherever token rows are enabled.
* **`Transfer` signs its transaction as `SET_ACCOUNT_INFO_URI`.** In
  `apiclient/account.go`, `Transfer` builds a `SendTokens` transaction but
  sets its `TxType` to `TxType_SET_ACCOUNT_INFO_URI`. This is noted from the
  code only; what the chain does with it is outside the repository.

## 5. Not modelled, and the plan

These parts are not modelled:
* **API client:** HTTP request builders. A call reads the account nonce
  and sends one transaction. Whether the chain accepts it depends on the
  chain's transaction rules, which are outside `src/` and not described by
  the specification, so no property of the client alone could be checked.
  One hazard is recorded for it. `Transfer` and `AccountSetMetadata` read the
  account nonce through the API and sign with it. Two calls made before the
  first transaction lands in a block carry the same nonce (account.go:74,
  174). `SetSIK` and `DelSIK` carry no nonce at all.
* **Websocket test client:** network I/O in a test helper.
* **Merkle tree tests:** an external library.
* **Indexer type conversions:** data conversion, represented only through the
  row fields.
* **The state read for a previous ballot:** modelled as never failing
  (indexer.go:595-600).
* **`Close` before `New` finished:** `Close` dereferences the connections
  (indexer.go:234), which the model never does.
* **Unclosed descriptors:** the descriptors `storeFile` never closes.

What of `indexer.go` is left unmapped is the package's declarations and
the type definitions (lines 1-111). The rest of the unmapped code is the API
client and the type conversions listed above.

What is left could not be modelled faithfully, or not checked within the
project's twelve runs:
* **Final results.** `OnProcessResults` only marks the process. The writing
  of final results (`setResultsHeight`, the final-results flag) is in the
  indexer's process code, which is not in `src/`.
* **Hazards with a property but no run to check it.**
  * A process with no ballots is never made live (indexer.go:407).
  * The token rows of a replayed block are inserted twice.

  Each shows as a violation of a property the model states, and each would
  need a violation run of its own. Both are recorded above with the trace
  that shows them.
* **A pooled ballot is eventually counted.** The liveness of the vote pool
  adds nothing to `LiveResultsMatchChain`. A block the chain decides is
  committed in the same `Commit` step, and a ballot of a rolled-back block
  leaves the chain state too.
