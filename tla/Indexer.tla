------------------------------ MODULE Indexer ------------------------------
(***************************************************************************)
(* The vochain indexer (src/vochain/indexer/indexer.go) together with the  *)
(* part of the chain application that drives it.                           *)
(*                                                                         *)
(* The chain goroutine executes a block: it mutates its working state and *)
(* calls the indexer's event callbacks (OnProcess, OnVote, ...), then     *)
(* calls Indexer.Commit and saves its state, or calls Indexer.Rollback and *)
(* discards the working state.  The indexer writes every row of a block   *)
(* into one lazily opened SQL transaction (blockTx) and keeps three       *)
(* scratch sets guarded by blockMu.  AfterSyncBootstrap runs, once the    *)
(* chain is synced, either on its own goroutine (production) or on the    *)
(* chain's goroutine between blocks (the call site of the tests).         *)
(*                                                                         *)
(* Every section of the code that holds blockMu is one atomic action, so  *)
(* the mutex itself needs no variable: two such actions never overlap.    *)
(* OnVote is two actions because its vote-pool update runs before it      *)
(* takes blockMu.                                                         *)
(***************************************************************************)
EXTENDS Integers, FiniteSets, FiniteSetsExt

CONSTANTS
  Processes,          \* process (election) ids
  Nullifiers,         \* voter nullifiers
  Accounts,           \* account addresses
  Balances,           \* account balances a SetAccount may store
  Infos,              \* abstract process fields (status, census, keys, end block)
  Questions,          \* question indexes of the vote options
  MaxValue,           \* vote options: a choice must lie in 0..MaxValue
  Packages,           \* vote packages: one choice per question
  Weights,            \* census weights a ballot may carry
  MaxOverwrites,      \* bound: highest overwrite counter of a ballot
  MaxHeight,          \* bound: last block height the chain executes
  MaxTokenRows,       \* bound: token transfer and token fee rows
  MaxCrashes,         \* bound: crashes of the node
  IgnoreLiveResults,  \* Options.IgnoreLiveResults
  BootstrapConcurrent,\* AfterSyncBootstrap runs on its own goroutine
  ReindexMode,        \* ReindexBlocks: "never" (no migration pending),
                      \* "betweenBlocks" (the tests' call site) or "goroutine"
                      \* (scheduled by startDB)
  NoRow, NoVote, NoTx, NoReplay \* sentinels

ASSUME Packages \subseteq [Questions -> 0..(MaxValue + 1)]
ASSUME MaxOverwrites \in Nat /\ MaxHeight \in Nat \ {0} /\ MaxTokenRows \in Nat
ASSUME MaxCrashes \in Nat
ASSUME IgnoreLiveResults \in BOOLEAN /\ BootstrapConcurrent \in BOOLEAN
ASSUME ReindexMode \in {"never", "betweenBlocks", "goroutine"}

VARIABLES
  \* the chain application
  chainPc,      \* "idle" between blocks, "inBlock", "onVote" inside OnVote, "saving"
  height,       \* height of the block being executed
  synced,       \* App.IsSynced()
  committed,    \* chain state as of the last saved block (committed=true reads)
  working,      \* chain state including the block in progress
  curVote,      \* the ballot OnVote is handling between its two halves
  \* the indexer
  votePool,                  \* Indexer.votePool
  blockUpdateProcs,          \* Indexer.blockUpdateProcs
  blockUpdateProcVoteCounts, \* Indexer.blockUpdateProcVoteCounts
  liveResultsProcs,          \* Indexer.liveResultsProcs
  db,                        \* rows committed to the sqlite database
  blockTx,                   \* rows as seen inside the open blockTx, or NoTx
  bootstrapDone,             \* AfterSyncBootstrap has returned
  reindexPending,            \* ReindexBlocks is scheduled and has not run
  \* faults
  crashes,      \* crashes so far
  replay        \* the chain state of a block Indexer.Commit committed and the
                \* chain did not save before a crash, or NoReplay

chainVars == <<chainPc, height, synced, committed, working, curVote>>
idxVars == <<votePool, blockUpdateProcs, blockUpdateProcVoteCounts,
             liveResultsProcs, db, blockTx, bootstrapDone, reindexPending>>
faultVars == <<crashes, replay>>
vars == <<chainVars, idxVars, faultVars>>

-----------------------------------------------------------------------------
(* Data *)

Heights == 1..MaxHeight
ChoiceValues == 0..MaxValue

\* A ballot as the state keeps it (state.Vote / models.StateDBVote).
Ballot == [pid: Processes, nullifier: Nullifiers, ow: 0..MaxOverwrites,
           pkg: Packages, weight: Weights]

ChainState == [procs: [Processes -> Infos \cup {NoRow}],
               votes: [Processes -> [Nullifiers -> Ballot \cup {NoVote}]],
               accounts: [Accounts -> Balances \cup {NoRow}],
               transfers: 0..MaxTokenRows,
               fees: 0..MaxTokenRows]

\* results.Results: per question, the weight given to each choice, and the
\* total weight.
Results == [votes: [Questions -> [ChoiceValues -> Int]], weight: Int]

ProcRow == [info: Infos, results: Results, voteCount: 0..Cardinality(Nullifiers)]
VoteRow == [pid: Processes, nullifier: Nullifiers, ow: 0..MaxOverwrites]
DB == [proc: [Processes -> ProcRow \cup {NoRow}], votes: SUBSET VoteRow,
       accounts: [Accounts -> Balances \cup {NoRow}],
       transfers: 0..MaxTokenRows, fees: 0..MaxTokenRows, blocks: SUBSET Heights]

-----------------------------------------------------------------------------
(* Results aggregation (package vochain/results, outside src/) *)

\* results.NewEmptyVotes: zero tallies sized by the vote options.
NewEmptyVotes == [votes |-> [q \in Questions |-> [c \in ChoiceValues |-> 0]], weight |-> 0]

\* A package is countable when every choice is within the vote options.
ValidPackage(pkg) == \A q \in Questions : pkg[q] <= MaxValue

\* Results.AddVote: add a ballot's choices, with its weight.
AddVote(r, b) ==
  [votes |-> [q \in Questions |->
                [c \in ChoiceValues |-> r.votes[q][c] + IF b.pkg[q] = c THEN b.weight ELSE 0]],
   weight |-> r.weight + b.weight]

\* Fold a set of ballots into zero tallies.
SumBallots(S) == FoldSet(LAMBDA b, acc : AddVote(acc, b), NewEmptyVotes, S)

\* commitVotesUnsafe: stored results := current + added - subtracted.
commitVotesUnsafe(cur, added, subtracted) ==
  [votes |-> [q \in Questions |-> [c \in ChoiceValues |->
                cur.votes[q][c] + added.votes[q][c] - subtracted.votes[q][c]]],
   weight |-> cur.weight + added.weight - subtracted.weight]

\* Reference tally: the effective (latest) countable ballot of every voter.
Tally(p, st) ==
  SumBallots({st.votes[p][n] : n \in {m \in Nullifiers :
                 st.votes[p][m] # NoVote /\ ValidPackage(st.votes[p][m].pkg)}})

-----------------------------------------------------------------------------
(* Indexer helpers *)

\* blockTxQueries: the rows seen through blockTx, opening it if needed.
blockTxQueries == IF blockTx = NoTx THEN db ELSE blockTx

isProcessLiveResults(p) == p \in liveResultsProcs

\* newEmptyProcess: insert a process row with zeroed results.
newEmptyProcess(q, p, info) ==
  IF q.proc[p] # NoRow THEN q
  ELSE [q EXCEPT !.proc[p] = [info |-> info, results |-> NewEmptyVotes, voteCount |-> 0]]

\* updateProcess: re-read the process fields from the chain state.
updateProcess(q, p) ==
  IF q.proc[p] = NoRow \/ working.procs[p] = NoRow THEN q
  ELSE [q EXCEPT !.proc[p].info = working.procs[p]]

\* Seeded fault (mutation testing): the previous ballot read from the
\* uncommitted state (State.Vote with committed=false).
PreviousVoteUncommitted(v) == IF v.ow > 0 THEN working.votes[v.pid][v.nullifier] ELSE NoVote

\* The previously committed ballot Commit subtracts, fetched with
\* State.Vote(committed=true) only for an overwrite.
PreviousVote(v) == IF v.ow > 0 THEN committed.votes[v.pid][v.nullifier] ELSE NoVote

\* Commit skips a pooled ballot whose previous version has an overwrite
\* counter not below its own, or cannot be added to subtractedResults.
SkippedVote(v) ==
  LET prev == PreviousVote(v)
  IN  prev # NoVote /\ (v.ow <= prev.ow \/ ~ValidPackage(prev.pkg))

PooledVotes(p) == {votePool[p][n] : n \in {m \in Nullifiers : votePool[p][m] # NoVote}}

addedResults(p) ==
  SumBallots({v \in PooledVotes(p) : ~SkippedVote(v) /\ ValidPackage(v.pkg)})

subtractedResults(p) ==
  SumBallots({PreviousVote(v) : v \in {u \in PooledVotes(p) :
                 PreviousVote(u) # NoVote /\ ~SkippedVote(u)}})

\* Seeded fault (mutation testing): COUNT(*) instead of COUNT(DISTINCT nullifier).
ComputeProcessVoteCountRows(q, p) == Cardinality({s \in q.votes : s.pid = p})

\* ComputeProcessVoteCount: COUNT(DISTINCT nullifier) over the votes table.
ComputeProcessVoteCount(q, p) ==
  Cardinality({r.nullifier : r \in {s \in q.votes : s.pid = p}})

EmptyPool == [p \in Processes |-> [n \in Nullifiers |-> NoVote]]

EmptyChain == [procs |-> [p \in Processes |-> NoRow],
               votes |-> [p \in Processes |-> [n \in Nullifiers |-> NoVote]],
               accounts |-> [a \in Accounts |-> NoRow],
               transfers |-> 0, fees |-> 0]

EmptyDB == [proc |-> [p \in Processes |-> NoRow], votes |-> {},
            accounts |-> [a \in Accounts |-> NoRow],
            transfers |-> 0, fees |-> 0, blocks |-> {}]
-----------------------------------------------------------------------------
(* Initial state: New() on an empty data directory, chain at genesis. *)

Init ==
  /\ chainPc = "idle"
  /\ height = 1
  /\ synced = FALSE
  /\ committed = EmptyChain
  /\ working = EmptyChain
  /\ curVote = NoVote
  /\ votePool = EmptyPool
  /\ blockUpdateProcs = {}
  /\ blockUpdateProcVoteCounts = {}
  /\ liveResultsProcs = {}
  /\ db = EmptyDB
  /\ blockTx = NoTx
  /\ bootstrapDone = FALSE
  /\ reindexPending = (ReindexMode # "never")
  /\ crashes = 0
  /\ replay = NoReplay

-----------------------------------------------------------------------------
(* The chain application *)

\* The chain starts executing the next block.
BeginBlock ==
  /\ chainPc = "idle"
  /\ height <= MaxHeight
  /\ chainPc' = "inBlock"
  /\ UNCHANGED <<height, synced, committed, working, curVote, idxVars>>
  /\ UNCHANGED faultVars

\* The node catches up with the network between two blocks; after a
\* restart, only once the handshake has replayed the block the chain did
\* not save.
Sync ==
  /\ chainPc = "idle"
  /\ ~synced
  /\ replay = NoReplay
  /\ synced' = TRUE
  /\ UNCHANGED <<chainPc, height, committed, working, curVote, idxVars>>
  /\ UNCHANGED faultVars

\* The chain saves the block's state after Indexer.Commit returned.
SaveState ==
  /\ chainPc = "saving"
  /\ committed' = working
  /\ height' = height + 1
  /\ chainPc' = "idle"
  /\ UNCHANGED <<synced, working, curVote, idxVars>>
  /\ UNCHANGED faultVars

-----------------------------------------------------------------------------
(* Event callbacks, each called by the chain right after the transaction   *)
(* that caused it changed the working state.                               *)

\* A NewProcess tx; OnProcess inserts the row and, once synced, makes the
\* process live.
OnProcess(p, info) ==
  /\ chainPc = "inBlock"
  /\ working.procs[p] = NoRow
  /\ working' = [working EXCEPT !.procs[p] = info]
  /\ blockTx' = newEmptyProcess(blockTxQueries, p, info)
  /\ liveResultsProcs' = IF synced THEN liveResultsProcs \cup {p} ELSE liveResultsProcs
  /\ UNCHANGED <<chainPc, height, synced, committed, curVote, votePool,
                 blockUpdateProcs, blockUpdateProcVoteCounts, db, bootstrapDone, reindexPending>>
  /\ UNCHANGED faultVars

\* A Vote tx; first half of OnVote, before it takes blockMu: a live process
\* keeps the last ballot received for each nullifier in votePool.
OnVote(p, n, pkg, w) ==
  LET prev == working.votes[p][n]
      ow == IF prev = NoVote THEN 0 ELSE prev.ow + 1
      vote == [pid |-> p, nullifier |-> n, ow |-> ow, pkg |-> pkg, weight |-> w]
  IN
  /\ chainPc = "inBlock"
  /\ working.procs[p] # NoRow
  /\ ow <= MaxOverwrites
  /\ working' = [working EXCEPT !.votes[p][n] = vote]
  /\ curVote' = vote
  /\ chainPc' = "onVote"
  /\ votePool' = IF ~IgnoreLiveResults /\ isProcessLiveResults(p)
                   THEN [votePool EXCEPT ![p][n] = vote]
                   ELSE votePool
  /\ UNCHANGED <<height, synced, committed, blockUpdateProcs,
                 blockUpdateProcVoteCounts, liveResultsProcs, db, blockTx, bootstrapDone, reindexPending>>
  /\ UNCHANGED faultVars

\* Seeded fault (mutation testing): the vote row is written but the vote
\* count is not marked for recomputation.
OnVoteLockedUnmarked ==
  /\ chainPc = "onVote"
  /\ blockTx' = [blockTxQueries EXCEPT !.votes = @ \cup
                   {[pid |-> curVote.pid, nullifier |-> curVote.nullifier, ow |-> curVote.ow]}]
  /\ curVote' = NoVote
  /\ chainPc' = "inBlock"
  /\ UNCHANGED <<height, synced, committed, working, votePool, blockUpdateProcs,
                 blockUpdateProcVoteCounts, liveResultsProcs, db, bootstrapDone, reindexPending>>
  /\ UNCHANGED faultVars

\* Second half of OnVote, under blockMu: the vote row, and the process's
\* vote count marked for recomputation.
OnVoteLocked ==
  /\ chainPc = "onVote"
  /\ blockTx' = [blockTxQueries EXCEPT !.votes = @ \cup
                   {[pid |-> curVote.pid, nullifier |-> curVote.nullifier, ow |-> curVote.ow]}]
  /\ blockUpdateProcVoteCounts' = blockUpdateProcVoteCounts \cup {curVote.pid}
  /\ curVote' = NoVote
  /\ chainPc' = "inBlock"
  /\ UNCHANGED <<height, synced, committed, working, votePool, blockUpdateProcs,
                 liveResultsProcs, db, bootstrapDone, reindexPending>>
  /\ UNCHANGED faultVars

\* A tx that changes process fields; the callback marks the process so that
\* Commit re-reads it.
MarkProcessUpdate(p, info) ==
  /\ chainPc = "inBlock"
  /\ working.procs[p] # NoRow
  /\ working' = [working EXCEPT !.procs[p] = info]
  /\ blockUpdateProcs' = blockUpdateProcs \cup {p}
  /\ UNCHANGED <<chainPc, height, synced, committed, curVote, votePool,
                 blockUpdateProcVoteCounts, liveResultsProcs, db, blockTx, bootstrapDone, reindexPending>>
  /\ UNCHANGED faultVars

\* OnCancel, OnProcessKeys, OnProcessStatusChange, OnProcessDurationChange.
OnProcessChange(p, info) == MarkProcessUpdate(p, info)

\* OnRevealKeys: returns early when the process is not in the working state.
OnRevealKeys(p, info) == MarkProcessUpdate(p, info)

\* OnProcessResults.
OnProcessResults(p, info) == MarkProcessUpdate(p, info)

\* OnCensusUpdate.
OnCensusUpdate(p, info) == MarkProcessUpdate(p, info)

\* OnProcessesStart: every process starting in the block is marked.
OnProcessesStart(ps) ==
  /\ chainPc = "inBlock"
  /\ ps # {}
  /\ \A p \in ps : working.procs[p] # NoRow
  /\ blockUpdateProcs' = blockUpdateProcs \cup ps
  /\ UNCHANGED <<chainPc, height, synced, committed, working, curVote, votePool,
                 blockUpdateProcVoteCounts, liveResultsProcs, db, blockTx, bootstrapDone, reindexPending>>
  /\ UNCHANGED faultVars

\* Seeded fault (mutation testing): the account row is written through the
\* read-write connection instead of blockTx.
OnSetAccountOutsideTx(a, bal) ==
  /\ chainPc = "inBlock"
  /\ working' = [working EXCEPT !.accounts[a] = bal]
  /\ db' = [db EXCEPT !.accounts[a] = bal]
  /\ blockTx' = IF blockTx = NoTx THEN NoTx ELSE [blockTx EXCEPT !.accounts[a] = bal]
  /\ UNCHANGED <<chainPc, height, synced, committed, curVote, votePool, blockUpdateProcs,
                 blockUpdateProcVoteCounts, liveResultsProcs, bootstrapDone, reindexPending>>
  /\ UNCHANGED faultVars

\* OnSetAccount: upsert the account row.
OnSetAccount(a, bal) ==
  /\ chainPc = "inBlock"
  /\ working' = [working EXCEPT !.accounts[a] = bal]
  /\ blockTx' = [blockTxQueries EXCEPT !.accounts[a] = bal]
  /\ UNCHANGED <<chainPc, height, synced, committed, curVote, votePool, blockUpdateProcs,
                 blockUpdateProcVoteCounts, liveResultsProcs, db, bootstrapDone, reindexPending>>
  /\ UNCHANGED faultVars

\* OnTransferTokens: append a token transfer row.
OnTransferTokens ==
  /\ chainPc = "inBlock"
  /\ working.transfers < MaxTokenRows
  /\ working' = [working EXCEPT !.transfers = @ + 1]
  /\ blockTx' = [blockTxQueries EXCEPT !.transfers = @ + 1]
  /\ UNCHANGED <<chainPc, height, synced, committed, curVote, votePool, blockUpdateProcs,
                 blockUpdateProcVoteCounts, liveResultsProcs, db, bootstrapDone, reindexPending>>
  /\ UNCHANGED faultVars

\* OnSpendTokens: append a token fee row.
OnSpendTokens ==
  /\ chainPc = "inBlock"
  /\ working.fees < MaxTokenRows
  /\ working' = [working EXCEPT !.fees = @ + 1]
  /\ blockTx' = [blockTxQueries EXCEPT !.fees = @ + 1]
  /\ UNCHANGED <<chainPc, height, synced, committed, curVote, votePool, blockUpdateProcs,
                 blockUpdateProcVoteCounts, liveResultsProcs, db, bootstrapDone, reindexPending>>
  /\ UNCHANGED faultVars
-----------------------------------------------------------------------------
(* Block commit and rollback, and the after-sync bootstrap *)

\* Indexer.Commit(height), under blockMu: the block row, the marked process
\* rows re-read from the state, the pooled ballots added to the live results
\* (an overwrite replacing its previously committed ballot), the marked vote
\* counts recomputed; then blockTx is committed.
Commit ==
  /\ chainPc = "inBlock"
  /\ replay = NoReplay \/ working = replay
  /\ LET q0 == [blockTxQueries EXCEPT !.blocks = @ \cup {height}]
         q1 == [q0 EXCEPT !.proc = [p \in Processes |->
                  IF p \in blockUpdateProcs THEN updateProcess(q0, p).proc[p] ELSE q0.proc[p]]]
         q2 == [q1 EXCEPT !.proc = [p \in Processes |->
                  IF PooledVotes(p) # {} /\ q1.proc[p] # NoRow
                  THEN [q1.proc[p] EXCEPT !.results =
                          commitVotesUnsafe(q1.proc[p].results, addedResults(p),
                                            subtractedResults(p))]
                  ELSE q1.proc[p]]]
         q3 == [q2 EXCEPT !.proc = [p \in Processes |->
                  IF p \in blockUpdateProcVoteCounts /\ q2.proc[p] # NoRow
                  THEN [q2.proc[p] EXCEPT !.voteCount = ComputeProcessVoteCount(q2, p)]
                  ELSE q2.proc[p]]]
     IN  db' = q3
  /\ blockTx' = NoTx
  /\ votePool' = EmptyPool
  /\ blockUpdateProcs' = {}
  /\ blockUpdateProcVoteCounts' = {}
  /\ chainPc' = "saving"
  /\ replay' = NoReplay
  /\ UNCHANGED <<height, synced, committed, working, curVote, liveResultsProcs, bootstrapDone,
                 reindexPending, crashes>>

\* Seeded fault (mutation testing): Rollback clears the scratch sets but
\* leaves blockTx open, so the next Commit commits the discarded rows.
RollbackKeepsTx ==
  /\ chainPc = "inBlock"
  /\ votePool' = EmptyPool
  /\ blockUpdateProcs' = {}
  /\ blockUpdateProcVoteCounts' = {}
  /\ working' = committed
  /\ chainPc' = "idle"
  /\ UNCHANGED <<height, synced, committed, curVote, liveResultsProcs, db, blockTx, bootstrapDone, reindexPending>>
  /\ UNCHANGED faultVars

\* Indexer.Rollback, under blockMu: the scratch sets are cleared and blockTx
\* is rolled back; the chain discards the block's working state.
Rollback ==
  /\ chainPc = "inBlock"
  /\ votePool' = EmptyPool
  /\ blockUpdateProcs' = {}
  /\ blockUpdateProcVoteCounts' = {}
  /\ blockTx' = NoTx
  /\ working' = committed
  /\ chainPc' = "idle"
  /\ UNCHANGED <<height, synced, committed, curVote, liveResultsProcs, db, bootstrapDone, reindexPending>>
  /\ UNCHANGED faultVars

\* Seeded fault (mutation testing): the stored results are not reset
\* (UpdateProcessResultByID left out), so the ballots are added on top.
AfterSyncBootstrapNoReset ==
  /\ synced
  /\ ~bootstrapDone
  /\ BootstrapConcurrent \/ chainPc = "idle"
  /\ bootstrapDone' = TRUE
  /\ \/ /\ IgnoreLiveResults
        /\ UNCHANGED <<db, blockTx, liveResultsProcs>>
     \/ /\ ~IgnoreLiveResults
        /\ LET q0 == blockTxQueries
               recovered == {p \in Processes : q0.proc[p] # NoRow /\ db.proc[p] # NoRow}
               counted == {p \in recovered : \E n \in Nullifiers : committed.votes[p][n] # NoVote}
               partial(p) == IF p \in counted THEN Tally(p, committed) ELSE NewEmptyVotes
           IN  /\ db' = [q0 EXCEPT !.proc = [p \in Processes |->
                          IF p \in recovered
                          THEN [q0.proc[p] EXCEPT !.results =
                                  commitVotesUnsafe(q0.proc[p].results, partial(p), NewEmptyVotes)]
                          ELSE q0.proc[p]]]
               /\ liveResultsProcs' = liveResultsProcs \cup counted
        /\ blockTx' = NoTx
  /\ UNCHANGED <<chainVars, votePool, blockUpdateProcs, blockUpdateProcVoteCounts, reindexPending>>
  /\ UNCHANGED faultVars

\* AfterSyncBootstrap, once the chain is synced, under blockMu.  Every
\* process row (none has final results here) that ProcessInfo can read
\* through the read-only connection gets zeroed results; when the committed
\* state holds ballots for it (IterateVotes does not fail with ErrEmptyTree)
\* they are summed into its results and the process becomes live.  blockTx
\* is then committed.  With IgnoreLiveResults it returns at once.
AfterSyncBootstrap ==
  /\ synced
  /\ ~bootstrapDone
  /\ BootstrapConcurrent \/ chainPc = "idle"
  /\ bootstrapDone' = TRUE
  /\ \/ /\ IgnoreLiveResults
        /\ UNCHANGED <<db, blockTx, liveResultsProcs>>
     \/ /\ ~IgnoreLiveResults
        /\ LET q0 == blockTxQueries
               recovered == {p \in Processes : q0.proc[p] # NoRow /\ db.proc[p] # NoRow}
               counted == {p \in recovered : \E n \in Nullifiers : committed.votes[p][n] # NoVote}
               partial(p) == IF p \in counted THEN Tally(p, committed) ELSE NewEmptyVotes
           IN  /\ db' = [q0 EXCEPT !.proc = [p \in Processes |->
                          IF p \in recovered
                          THEN [q0.proc[p] EXCEPT !.results =
                                  commitVotesUnsafe(NewEmptyVotes, partial(p), NewEmptyVotes)]
                          ELSE q0.proc[p]]]
               /\ liveResultsProcs' = liveResultsProcs \cup counted
        /\ blockTx' = NoTx
  /\ UNCHANGED <<chainVars, votePool, blockUpdateProcs, blockUpdateProcVoteCounts, reindexPending>>
  /\ UNCHANGED faultVars

\* The heights the block store holds: the saved blocks, and a block once it
\* is decided (from Indexer.Commit until the chain saves it, and across a
\* crash until its replay).  A block the chain executes and then rolls back
\* is a proposal that is never stored, so the block in progress is not
\* counted.
BlockStoreHeights ==
  IF chainPc = "saving" \/ replay # NoReplay THEN 1..height ELSE 1..(height - 1)

\* ReindexBlocks, under blockMu for the whole loop: after WaitUntilSynced
\* (on its goroutine) it walks the block store, writing through the shared
\* blockTx a block row for every stored height (CreateBlock of a height
\* already indexed fails and is only logged), commits blockTx at the first
\* height and at the end, and leaves blockTx nil.  Its transaction rows are
\* modelled in IndexerDB.
ReindexBlocks ==
  /\ reindexPending
  /\ ReindexMode = "goroutine" => synced
  /\ ReindexMode = "goroutine" \/ chainPc = "idle"
  /\ reindexPending' = FALSE
  /\ db' = [blockTxQueries EXCEPT !.blocks = @ \cup BlockStoreHeights]
  /\ blockTx' = NoTx
  /\ UNCHANGED <<chainVars, votePool, blockUpdateProcs, blockUpdateProcVoteCounts,
                 liveResultsProcs, bootstrapDone>>
  /\ UNCHANGED faultVars

\* The node crashes at any point and restarts: the database keeps what was
\* committed, blockTx is lost uncommitted, and New starts an indexer with
\* empty scratch sets and no live process.  The chain restarts from its
\* saved state; a block Indexer.Commit committed but the chain did not save
\* is executed again (the handshake replays the same block), which the
\* model enforces by letting Commit take it only when it ends in the same
\* state.
Crash ==
  /\ crashes < MaxCrashes
  /\ crashes' = crashes + 1
  /\ replay' = IF chainPc = "saving" THEN working ELSE replay
  /\ chainPc' = "idle"
  /\ synced' = FALSE
  /\ working' = committed
  /\ curVote' = NoVote
  /\ votePool' = EmptyPool
  /\ blockUpdateProcs' = {}
  /\ blockUpdateProcVoteCounts' = {}
  /\ liveResultsProcs' = {}
  /\ blockTx' = NoTx
  /\ bootstrapDone' = FALSE
  /\ reindexPending' = FALSE
  /\ UNCHANGED <<height, committed, db>>

\* The model's bound on the chain's height is reached.
HeightBoundReached ==
  /\ chainPc = "idle"
  /\ height > MaxHeight
  /\ UNCHANGED vars

Next ==
  \/ BeginBlock
  \/ Sync
  \/ \E p \in Processes, i \in Infos :
        \/ OnProcess(p, i)
        \/ OnProcessChange(p, i)
        \/ OnRevealKeys(p, i)
        \/ OnProcessResults(p, i)
        \/ OnCensusUpdate(p, i)
  \/ \E p \in Processes, n \in Nullifiers, pkg \in Packages, w \in Weights : OnVote(p, n, pkg, w)
  \/ OnVoteLocked
  \/ \E ps \in SUBSET Processes : OnProcessesStart(ps)
  \/ \E a \in Accounts, b \in Balances : OnSetAccount(a, b)
  \/ OnTransferTokens
  \/ OnSpendTokens
  \/ Commit
  \/ SaveState
  \/ Rollback
  \/ AfterSyncBootstrap
  \/ ReindexBlocks
  \/ Crash
  \/ HeightBoundReached

Spec == Init /\ [][Next]_vars

-----------------------------------------------------------------------------
(* Refinement of IndexSpec *)

\* The index a reader should see for chain state c after n saved blocks with
\* the processes L live: a block row per saved block, the accounts and
\* token rows, and for each process its fields, the overwrite counter of
\* each voter's latest ballot, the number of voters and, when live, the
\* tally of the ballots.
ChainIndex(c, n, L) ==
  [blocks |-> 1..n, accounts |-> c.accounts, transfers |-> c.transfers, fees |-> c.fees,
   proc |-> [p \in Processes |->
     IF c.procs[p] = NoRow THEN NoRow
     ELSE [info |-> c.procs[p],
           voters |-> [m \in Nullifiers |->
                        IF c.votes[p][m] = NoVote THEN NoVote ELSE c.votes[p][m].ow],
           voteCount |-> Cardinality({m \in Nullifiers : c.votes[p][m] # NoVote}),
           results |-> IF p \in L /\ ~IgnoreLiveResults THEN Tally(p, c) ELSE NoRow]]]

\* The same view read from the rows of database q: a voter's latest ballot
\* is the vote row with the highest overwrite counter.
DBIndex(q, L) ==
  [blocks |-> q.blocks, accounts |-> q.accounts, transfers |-> q.transfers, fees |-> q.fees,
   proc |-> [p \in Processes |->
     IF q.proc[p] = NoRow THEN NoRow
     ELSE LET rows(m) == {r.ow : r \in {s \in q.votes : s.pid = p /\ s.nullifier = m}}
          IN  [info |-> q.proc[p].info,
               voters |-> [m \in Nullifiers |-> IF rows(m) = {} THEN NoVote ELSE Max(rows(m))],
               voteCount |-> q.proc[p].voteCount,
               results |-> IF p \in L /\ ~IgnoreLiveResults THEN q.proc[p].results ELSE NoRow]]]

\* Between Indexer.Commit and the chain's save, and after a crash in that
\* window until the block is replayed, the block the indexer committed is
\* the one readers must see: the chain has decided it.
savedChain == IF chainPc = "saving" THEN working
              ELSE IF replay # NoReplay THEN replay ELSE committed
savedBlocks == IF chainPc = "saving" \/ replay # NoReplay THEN height ELSE height - 1

Abstract == INSTANCE IndexSpec WITH
  ChainStates <- ChainState, IndexOf <- ChainIndex,
  chain <- savedChain, saved <- savedBlocks, live <- liveResultsProcs,
  index <- DBIndex(db, liveResultsProcs)

-----------------------------------------------------------------------------
(* Properties *)

TypeOK ==
  /\ chainPc \in {"idle", "inBlock", "onVote", "saving"}
  /\ height \in 1..(MaxHeight + 1)
  /\ synced \in BOOLEAN
  /\ committed \in ChainState
  /\ working \in ChainState
  /\ curVote \in Ballot \cup {NoVote}
  /\ votePool \in [Processes -> [Nullifiers -> Ballot \cup {NoVote}]]
  /\ blockUpdateProcs \subseteq Processes
  /\ blockUpdateProcVoteCounts \subseteq Processes
  /\ liveResultsProcs \subseteq Processes
  /\ db \in DB
  /\ blockTx \in DB \cup {NoTx}
  /\ bootstrapDone \in BOOLEAN
  /\ reindexPending \in BOOLEAN
  /\ crashes \in 0..MaxCrashes
  /\ replay \in ChainState \cup {NoReplay}

\* Block atomicity (Commit, Rollback, blockTx): between two blocks the
\* committed index holds exactly the rows of the blocks the chain saved
\* (after a crash, also of the decided block it will replay):
\* one block row per saved height, the saved accounts, token rows and
\* process fields, and a vote row for every saved ballot and for no ballot
\* the chain did not save.
IndexMatchesCommittedChain ==
  chainPc = "idle" =>
    /\ db.blocks = 1..savedBlocks
    /\ db.accounts = savedChain.accounts
    /\ db.transfers = savedChain.transfers
    /\ db.fees = savedChain.fees
    /\ \A p \in Processes :
          IF savedChain.procs[p] = NoRow THEN db.proc[p] = NoRow
          ELSE db.proc[p] # NoRow /\ db.proc[p].info = savedChain.procs[p]
    /\ \A r \in db.votes :
          /\ savedChain.votes[r.pid][r.nullifier] # NoVote
          /\ r.ow <= savedChain.votes[r.pid][r.nullifier].ow
    /\ \A p \in Processes, n \in Nullifiers :
          savedChain.votes[p][n] # NoVote =>
            [pid |-> p, nullifier |-> n, ow |-> savedChain.votes[p][n].ow] \in db.votes

\* Vote count (OnVote marking, Commit's COUNT(DISTINCT nullifier)): between
\* blocks a process row counts exactly the voters the chain has saved a
\* ballot of, however often they overwrote it.
VoteCountMatchesChain ==
  chainPc = "idle" =>
    \A p \in Processes :
      db.proc[p] # NoRow =>
        db.proc[p].voteCount = Cardinality({n \in Nullifiers : savedChain.votes[p][n] # NoVote})

\* Live results (OnVote's vote pool, Commit's added and subtracted results,
\* AfterSyncBootstrap): between blocks the stored results of every live
\* process equal the sum of the latest countable ballot of each voter in the
\* saved chain state.
LiveResultsMatchChain ==
  (chainPc = "idle" /\ ~IgnoreLiveResults) =>
    \A p \in liveResultsProcs :
      db.proc[p] # NoRow => db.proc[p].results = Tally(p, savedChain)

\* Block atomicity and live results as one promise (Commit, Rollback,
\* blockTx, OnVote's pool, AfterSyncBootstrap): in every state, also inside
\* a block, the committed database is the index of the chain state last
\* saved, and it moves to the next saved state in the single step that
\* commits blockTx.  Across a crash between Indexer.Commit and the chain's
\* save, the committed rows already hold the decided block, and the replay
\* of that block before the node syncs must not move them again.
IndexRefinesSpec == Abstract!Spec

\* AfterSyncBootstrap: once it has returned, every process with a row and
\* without final results is live, so that its new ballots are counted.
BootstrapMakesProcessesLive ==
  (chainPc = "idle" /\ bootstrapDone /\ ~IgnoreLiveResults) =>
    \A p \in Processes : db.proc[p] # NoRow => p \in liveResultsProcs
=============================================================================
