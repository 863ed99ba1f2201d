------------------------------ MODULE Queries ------------------------------
(***************************************************************************)
(* The indexer's query surface (src/vochain/indexer/indexer.go 858-988):  *)
(* the paginated listings of token fees, token transfers and accounts,    *)
(* the two counts and AccountExists, served through the read-only         *)
(* connection while blocks keep adding rows.                              *)
(*                                                                         *)
(* Each query is one SQL statement, so it reads one committed snapshot;   *)
(* the statements (SearchTokenFees, SearchTokenTransfers, SearchAccounts, *)
(* with LIMIT, OFFSET and the total count as a window column)             *)
(* live outside src/ and are modelled from the specification.  Rows keep  *)
(* the columns the filters compare; an account id filter is abstracted to *)
(* its length and the set of addresses it is a substring of.              *)
(***************************************************************************)
EXTENDS Integers, Sequences, SequencesExt

CONSTANTS
  Addresses,      \* account addresses (40 hex characters)
  IdPrefixes,       \* shorter account id filters
  PrefixMatches,  \* PrefixMatches[q]: the addresses that contain prefix q
  Unknown,        \* a 40-character id that is no indexed address
  Empty,          \* the empty filter: ignored
  TxTypes,        \* token fee transaction types
  Limits,         \* limit arguments a caller may pass
  Offsets,        \* offset arguments a caller may pass
  MaxRows         \* bound: token transfer and token fee rows

ASSUME PrefixMatches \in [IdPrefixes -> SUBSET Addresses]

IdFilters == Addresses \cup IdPrefixes \cup {Unknown, Empty}

\* len(accountID) of a filter.
IdLen(q) == IF q \in IdPrefixes THEN 8 ELSE IF q = Empty THEN 0 ELSE 40

\* SearchAccounts' substring match of the account id.
IdMatches(q) ==
  IF q \in Addresses THEN {q}
  ELSE IF q \in IdPrefixes THEN PrefixMatches[q]
  ELSE IF q = Empty THEN Addresses ELSE {}

ListOps == {"fees", "transfers", "accounts"}
Ops == ListOps \cup {"none", "countTransfers", "countAccounts", "exists"}

VARIABLES
  accounts,   \* addresses with an account row
  transfers,  \* token transfer rows in commit order
  fees,       \* token fee rows in commit order
  resp        \* the last answer returned to a caller, with the account
              \* rows of the snapshot it read

vars == <<accounts, transfers, fees, resp>>

NoResp == [op |-> "none", err |-> FALSE, n |-> 0, total |-> 0, match |-> 0,
           limit |-> 0, offset |-> 0, exists |-> FALSE, id |-> Empty, read |-> {}]

-----------------------------------------------------------------------------
\* The page LIMIT limit OFFSET offset of the matching rows.
SearchPage(rows, limit, offset) ==
  SubSeq(rows, offset + 1, IF offset + limit < Len(rows) THEN offset + limit ELSE Len(rows))

\* A listing: offset and limit are checked, the page is read, and the total
\* is read from the first row of the page, 0 when the page is empty.
listResponse(op, limit, offset, rows) ==
  IF offset < 0 \/ limit <= 0
  THEN [NoResp EXCEPT !.op = op, !.err = TRUE, !.limit = limit, !.offset = offset,
                      !.match = Len(rows)]
  ELSE LET page == SearchPage(rows, limit, offset)
       IN  [NoResp EXCEPT !.op = op, !.n = Len(page), !.limit = limit, !.offset = offset,
                          !.total = IF Len(page) = 0 THEN 0 ELSE Len(rows),
                          !.match = Len(rows)]

Init ==
  /\ accounts = {}
  /\ transfers = <<>>
  /\ fees = <<>>
  /\ resp = NoResp

\* A block commits a new account row (OnSetAccount).
IndexAccount(a) ==
  /\ a \notin accounts
  /\ accounts' = accounts \cup {a}
  /\ UNCHANGED <<transfers, fees, resp>>

\* A block commits a token transfer row (OnTransferTokens).
IndexTransfer(from, to) ==
  /\ Len(transfers) < MaxRows
  /\ transfers' = Append(transfers, [from |-> from, to |-> to])
  /\ UNCHANGED <<accounts, fees, resp>>

\* A block commits a token fee row (OnSpendTokens).
IndexFee(from, type) ==
  /\ Len(fees) < MaxRows
  /\ fees' = Append(fees, [from |-> from, txType |-> type])
  /\ UNCHANGED <<accounts, transfers, resp>>

\* TokenFeesList(limit, offset, txType, reference, fromAccount); the
\* reference filter is left out.
TokenFeesList(limit, offset, type, from) ==
  LET rows == SelectSeq(fees, LAMBDA r : (type = Empty \/ r.txType = type)
                                         /\ (from = Empty \/ r.from = from))
  IN  /\ resp' = listResponse("fees", limit, offset, rows)
      /\ UNCHANGED <<accounts, transfers, fees>>

\* TokenTransfersList(limit, offset, fromOrToAccount, fromAccount, toAccount).
TokenTransfersList(limit, offset, any, from, to) ==
  LET rows == SelectSeq(transfers, LAMBDA r : (any = Empty \/ r.from = any \/ r.to = any)
                                              /\ (from = Empty \/ r.from = from)
                                              /\ (to = Empty \/ r.to = to))
  IN  /\ resp' = listResponse("transfers", limit, offset, rows)
      /\ UNCHANGED <<accounts, transfers, fees>>

\* CountTokenTransfersByAccount: the transfers made from the account.
CountTokenTransfersByAccount(a) ==
  /\ resp' = [NoResp EXCEPT !.op = "countTransfers",
                 !.total = Len(SelectSeq(transfers, LAMBDA r : r.from = a))]
  /\ UNCHANGED <<accounts, transfers, fees>>

CountTotalAccounts ==
  /\ resp' = [NoResp EXCEPT !.op = "countAccounts", !.total = Cardinality(accounts)]
  /\ UNCHANGED <<accounts, transfers, fees>>

\* The rows SearchAccounts returns for an id filter, in address order.
accountRows(q) == SetToSeq(accounts \cap IdMatches(q))

\* AccountList(limit, offset, accountID).
AccountList(limit, offset, q) ==
  /\ resp' = listResponse("accounts", limit, offset, accountRows(q))
  /\ UNCHANGED <<accounts, transfers, fees>>

\* Seeded fault (mutation testing): the id length is not checked.
AccountExistsAnyLength(q) ==
  /\ resp' = [NoResp EXCEPT !.op = "exists", !.id = q, !.read = accounts,
                 !.exists = listResponse("accounts", 1, 0, accountRows(q)).total > 0]
  /\ UNCHANGED <<accounts, transfers, fees>>

\* AccountExists: false unless the id has 40 characters; otherwise whether
\* AccountList(1, 0, id) reports a positive total.
AccountExists(q) ==
  /\ resp' = [NoResp EXCEPT !.op = "exists", !.id = q, !.read = accounts,
                 !.exists = IdLen(q) = 40
                            /\ listResponse("accounts", 1, 0, accountRows(q)).total > 0]
  /\ UNCHANGED <<accounts, transfers, fees>>

Next ==
  \/ \E a \in Addresses : IndexAccount(a)
  \/ \E f, t \in Addresses : IndexTransfer(f, t)
  \/ \E f \in Addresses, ty \in TxTypes : IndexFee(f, ty)
  \/ \E l \in Limits, o \in Offsets :
        \/ \E ty \in TxTypes \cup {Empty}, f \in Addresses \cup {Empty} :
              TokenFeesList(l, o, ty, f)
        \/ \E any, f, t \in Addresses \cup {Empty} : TokenTransfersList(l, o, any, f, t)
        \/ \E q \in IdFilters : AccountList(l, o, q)
  \/ \E a \in Addresses : CountTokenTransfersByAccount(a)
  \/ CountTotalAccounts
  \/ \E q \in IdFilters : AccountExists(q)

Spec == Init /\ [][Next]_vars

-----------------------------------------------------------------------------
(* Properties *)

\* AccountExists: true exactly for the full address of an indexed account,
\* never for a shorter id that AccountList's substring search would match.
AccountExistsMatchesIndex ==
  resp.op = "exists" => (resp.exists <=> (resp.id \in Addresses /\ resp.id \in resp.read))
=============================================================================
