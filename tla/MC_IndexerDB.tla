---------------------------- MODULE MC_IndexerDB ----------------------------
(* Instance of IndexerDB for TLC: a block store of three blocks with one,  *)
(* two and no transactions.                                                *)
EXTENDS IndexerDB

MCTxCount == <<1, 2, 0>>
=============================================================================
