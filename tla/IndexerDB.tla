----------------------------- MODULE IndexerDB -----------------------------
(***************************************************************************)
(* The life of the indexer's database file (src/vochain/indexer/          *)
(* indexer.go): New and startDB with the goose migrations, RestoreBackup,  *)
(* SaveBackup and ExportBackupAsBytes, Close, and the ReindexBlocks        *)
(* goroutine that startDB schedules when migrations were pending, across   *)
(* crashes and restarts of the node.                                       *)
(*                                                                         *)
(* The file is durable; the connections, the open blockTx, the sync flag  *)
(* and the reindex goroutine live in the process and are lost when it     *)
(* stops.  Rows are abstracted to the block and transaction rows that     *)
(* ReindexBlocks rebuilds: a row agrees with the block store ("ok"), is a *)
(* stale row whose time or hash differs ("stale"), or is absent.  Live    *)
(* ingestion of new blocks is the subject of module Indexer.              *)
(***************************************************************************)
EXTENDS Naturals, FiniteSets, FiniteSetsExt

CONSTANTS
  StoreHeight,    \* the block store holds blocks 1..StoreHeight (Base() = 1)
  TxCount,        \* TxCount[h]: number of transactions of block h
  CommitEvery,    \* ReindexBlocks commits at heights h with h % CommitEvery = 1
  InitRowValues,  \* values a row left by an earlier run may hold
  Restarts,       \* the node may crash, or exit, and be started again
  NoRow, NoTx

ASSUME StoreHeight \in Nat \ {0} /\ TxCount \in [1..StoreHeight -> Nat]
ASSUME CommitEvery \in Nat \ {0} /\ Restarts \in BOOLEAN

Heights == 1..StoreHeight
TxKeys == UNION {{<<h, i>> : i \in 0..(TxCount[h] - 1)} : h \in Heights}
RowVals == {"ok", "stale", NoRow}
Rows == [blocks: [Heights -> RowVals], txs: [TxKeys -> RowVals]]
\* schema "none": an empty file; "old": migrations pending; "current": none pending
DBFile == [exists: BOOLEAN, schema: {"none", "old", "current"},
           blocks: [Heights -> RowVals], txs: [TxKeys -> RowVals]]

AbsentFile == [exists |-> FALSE, schema |-> "none",
               blocks |-> [h \in Heights |-> NoRow], txs |-> [k \in TxKeys |-> NoRow]]
\* The file os.Create leaves before any byte is copied: an empty database.
EmptyFile == [AbsentFile EXCEPT !.exists = TRUE]
FullFile == [exists |-> TRUE, schema |-> "current",
             blocks |-> [h \in Heights |-> "ok"], txs |-> [k \in TxKeys |-> "ok"]]

\* Every block and transaction of the block store has a row.
Complete(f) == (\A h \in Heights : f.blocks[h] # NoRow) /\ (\A k \in TxKeys : f.txs[k] # NoRow)

VARIABLES
  \* durable
  file,      \* the database file at dbPath
  backup,    \* the latest snapshot made by SaveBackup / ExportBackupAsBytes
  expect,    \* the node is to restore a snapshot (Options.ExpectBackupRestore)
  \* in the process
  proc,      \* "init", "new" (New returned, restore due), "restoring", "up",
             \* "closed", "down" (exited), "panicked"
  rwOpen,    \* Indexer.readWriteDB != nil
  synced,    \* App.IsSynced()
  rx,        \* ReindexBlocks goroutine: "none", "waiting", "running", "done"
  rxHeight,  \* the height its loop is at
  blockTx    \* rows seen through the open blockTx, or NoTx

vars == <<file, backup, expect, proc, rwOpen, synced, rx, rxHeight, blockTx>>

RowsOf(f) == [blocks |-> f.blocks, txs |-> f.txs]
WithRows(f, r) == [f EXCEPT !.blocks = r.blocks, !.txs = r.txs]

-----------------------------------------------------------------------------
Init ==
  /\ file \in {AbsentFile, FullFile} \cup
        [exists: {TRUE}, schema: {"old"},
         blocks: [Heights -> InitRowValues \cup {NoRow}],
         txs: [TxKeys -> InitRowValues \cup {NoRow}]]
  /\ backup = FullFile
  /\ expect \in BOOLEAN
  /\ expect => ~file.exists
  /\ proc = "init"
  /\ rwOpen = FALSE
  /\ synced = FALSE
  /\ rx = "none"
  /\ rxHeight = 1
  /\ blockTx = NoTx

\* Seeded fault (mutation testing): an empty file is taken as up to date.
gooseMigrationsPendingOld(f) == f.schema = "old"

\* gooseMigrationsPending: goose.GetDBVersion creates the version table of an
\* empty file and reports version 0, so every migration is pending.
gooseMigrationsPending(f) == f.schema # "current"

\* startDB: open the writer, schedule ReindexBlocks (deferred go statement)
\* when migrations are pending, goose.Up, open the readers.
startDB(f) ==
  /\ file' = [f EXCEPT !.exists = TRUE, !.schema = "current"]
  /\ rwOpen' = TRUE
  /\ rx' = IF gooseMigrationsPending(f) THEN "waiting" ELSE rx

\* New: the file is opened if it exists, or if no restore is expected;
\* otherwise opening waits for RestoreBackup.  The node then calls
\* RestoreBackup when it expects to restore.
New ==
  /\ proc = "init" \/ (proc = "down" /\ Restarts)
  /\ IF file.exists \/ ~expect THEN startDB(file) ELSE UNCHANGED <<file, rwOpen, rx>>
  /\ proc' = IF expect THEN "new" ELSE "up"
  /\ UNCHANGED <<backup, expect, synced, rxHeight, blockTx>>

\* RestoreBackup: panics when the database was already opened; otherwise
\* copyFile opens the snapshot and creates (truncates) the file at dbPath.
RestoreBackup ==
  /\ proc = "new"
  /\ \/ /\ rwOpen
        /\ proc' = "panicked"
        /\ UNCHANGED file
     \/ /\ ~rwOpen
        /\ file' = EmptyFile
        /\ proc' = "restoring"
  /\ UNCHANGED <<backup, expect, rwOpen, synced, rx, rxHeight, blockTx>>

\* copyFile copies the bytes and the database is opened, so the node's
\* restore is done; or the copy fails and RestoreBackup returns the error,
\* on which the node exits, leaving what was copied so far.
RestoreCopy ==
  /\ proc = "restoring"
  /\ \/ /\ startDB(backup)
        /\ proc' = "up"
        /\ expect' = FALSE
     \/ /\ proc' = "down"
        /\ UNCHANGED <<file, rwOpen, rx, expect>>
  /\ UNCHANGED <<backup, synced, rxHeight, blockTx>>

\* The chain catches up with the network.
Sync ==
  /\ proc \in {"new", "up"}
  /\ ~synced
  /\ synced' = TRUE
  /\ UNCHANGED <<file, backup, expect, proc, rwOpen, rx, rxHeight, blockTx>>

\* ReindexBlocks, after WaitUntilSynced, under blockMu: blockTxQueries
\* opens the transaction; the loop starts at BlockStore().Base().
ReindexStart ==
  /\ rx = "waiting"
  /\ synced
  /\ rx' = "running"
  /\ rxHeight' = 1
  /\ blockTx' = RowsOf(file)
  /\ UNCHANGED <<file, backup, expect, proc, rwOpen, synced>>

\* Index of the first transaction of block h whose committed row has another
\* hash: the loop over the block's transactions returns there.
FirstStale(h, f) ==
  LET S == {i \in 0..(TxCount[h] - 1) : f.txs[<<h, i>>] = "stale"}
  IN  IF S = {} THEN TxCount[h] ELSE Min(S)

\* Seeded fault (mutation testing): the block row is written without the
\* comparison of the committed row's time.
ReindexHeightNoTimeCheck(h) ==
  LET flush == h % CommitEvery = 1
      f1 == IF flush THEN WithRows(file, blockTx) ELSE file
      stop == FirstStale(h, f1)
  IN  /\ file' = f1
      /\ blockTx' = [blockTx EXCEPT
                       !.blocks[h] = "ok",
                       !.txs = [k \in TxKeys |->
                                  IF k[1] = h /\ k[2] < stop THEN "ok" ELSE @[k]]]

ReindexHeight(h) ==
  LET flush == h % CommitEvery = 1
      f1 == IF flush THEN WithRows(file, blockTx) ELSE file
      stop == FirstStale(h, f1)
  IN  /\ file' = f1
      /\ blockTx' = [blockTx EXCEPT
                       !.blocks[h] = IF f1.blocks[h] = "stale" THEN @ ELSE "ok",
                       !.txs = [k \in TxKeys |->
                                  IF k[1] = h /\ k[2] < stop THEN "ok" ELSE @[k]]]

\* Seeded fault (mutation testing): the loop counter is not advanced.
ReindexBlockStuck ==
  /\ rx = "running"
  /\ rxHeight <= StoreHeight
  /\ ReindexHeight(rxHeight)
  /\ UNCHANGED <<backup, expect, proc, rwOpen, synced, rx, rxHeight>>

\* Seeded fault (mutation testing): the loop counter advances twice.
ReindexBlockSkip ==
  /\ rx = "running"
  /\ rxHeight <= StoreHeight
  /\ ReindexHeight(rxHeight)
  /\ rxHeight' = rxHeight + 2
  /\ UNCHANGED <<backup, expect, proc, rwOpen, synced, rx>>

\* One height of the ReindexBlocks loop: every CommitEvery heights blockTx is
\* committed and a new one begun; the block row is created unless the
\* committed row has another time; the block's transactions are indexed in
\* order until one whose committed row has another hash.
ReindexBlock ==
  /\ rx = "running"
  /\ rxHeight <= StoreHeight
  /\ ReindexHeight(rxHeight)
  /\ rxHeight' = rxHeight + 1
  /\ UNCHANGED <<backup, expect, proc, rwOpen, synced, rx>>

\* After the loop, blockTx is committed.
ReindexFinish ==
  /\ rx = "running"
  /\ rxHeight > StoreHeight
  /\ file' = WithRows(file, blockTx)
  /\ blockTx' = NoTx
  /\ rx' = "done"
  /\ UNCHANGED <<backup, expect, proc, rwOpen, synced, rxHeight>>

\* SaveBackup: VACUUM INTO through the read-only connection copies the
\* committed content of the file; an open blockTx is not part of it.
SaveBackup ==
  /\ proc = "up"
  /\ backup' = file
  /\ UNCHANGED <<file, expect, proc, rwOpen, synced, rx, rxHeight, blockTx>>

\* ExportBackupAsBytes: SaveBackup into a temporary file, read back.
ExportBackupAsBytes == SaveBackup

\* Close at shutdown.  Without restarts the node shuts down only when no
\* reindex is waiting or running.
Close ==
  /\ proc = "up"
  /\ Restarts \/ rx \in {"none", "done"}
  /\ proc' = "closed"
  /\ rwOpen' = FALSE
  /\ blockTx' = NoTx
  /\ rx' = "none"
  /\ UNCHANGED <<file, backup, expect, synced, rxHeight>>

\* The process stops (crash, or exit after Close): only the file survives;
\* sqlite discards an uncommitted blockTx.
ProcessExit ==
  /\ Restarts
  /\ proc \notin {"init", "down", "panicked"}
  /\ proc' = "down"
  /\ rwOpen' = FALSE
  /\ synced' = FALSE
  /\ rx' = "none"
  /\ rxHeight' = 1
  /\ blockTx' = NoTx
  /\ UNCHANGED <<file, backup, expect>>

\* The operator empties the data directory to restore the latest snapshot.
WipeDataDir ==
  /\ Restarts
  /\ proc = "down"
  /\ file' = AbsentFile
  /\ expect' = TRUE
  /\ UNCHANGED <<backup, proc, rwOpen, synced, rx, rxHeight, blockTx>>

\* The node has stopped for good.
Stopped ==
  /\ proc = "panicked" \/ (~Restarts /\ proc \in {"closed", "down"})
  /\ UNCHANGED vars

Next ==
  \/ New \/ RestoreBackup \/ RestoreCopy \/ Sync
  \/ ReindexStart \/ ReindexBlock \/ ReindexFinish
  \/ SaveBackup \/ ExportBackupAsBytes \/ Close
  \/ ProcessExit \/ WipeDataDir \/ Stopped

Spec == Init /\ [][Next]_vars

\* The chain eventually catches up (WaitUntilSynced returns), and the
\* reindex goroutine, once it can take blockMu, keeps being scheduled.
FairSpec ==
  /\ Spec
  /\ WF_vars(Sync)
  /\ WF_vars(ReindexStart) /\ WF_vars(ReindexBlock) /\ WF_vars(ReindexFinish)

-----------------------------------------------------------------------------
(* Properties *)

TypeOK ==
  /\ file \in DBFile
  /\ backup \in DBFile
  /\ expect \in BOOLEAN
  /\ proc \in {"init", "new", "restoring", "up", "closed", "down", "panicked"}
  /\ rwOpen \in BOOLEAN
  /\ synced \in BOOLEAN
  /\ rx \in {"none", "waiting", "running", "done"}
  /\ rxHeight \in 1..(StoreHeight + 1)
  /\ blockTx \in Rows \cup {NoTx}

\* Reindex after migrations (startDB, ReindexBlocks): whenever the node runs
\* with an index that lacks a row of some block or transaction of the block
\* store, a reindex is scheduled or running that will create it.
MissingRowsHaveReindex ==
  (proc = "up" /\ ~Complete(file)) => rx \in {"waiting", "running"}

\* Reindex after migrations (startDB, ReindexBlocks, WaitUntilSynced): a
\* node that runs with an index lacking rows of the block store eventually
\* has every row, when it keeps running.
IndexEventuallyComplete ==
  (proc = "up" /\ ~Complete(file)) ~> Complete(file)

\* Restore protocol (New with ExpectBackupRestore, RestoreBackup): a node
\* that is to restore a snapshot never hits the panic of RestoreBackup.
RestoreNeverPanics == proc # "panicked"

\* Mismatch handling of ReindexBlocks: a committed block or transaction row
\* whose time or hash differs from the block store is left untouched, across
\* intermediate commits, crashes and restarts; only a restore or an emptied
\* data directory replaces it.
StaleRowsKept ==
  [][(proc # "restoring" /\ proc' # "restoring" /\ file'.exists) =>
       /\ \A h \in Heights : file.blocks[h] = "stale" => file'.blocks[h] = "stale"
       /\ \A k \in TxKeys : file.txs[k] = "stale" => file'.txs[k] = "stale"]_file
=============================================================================
