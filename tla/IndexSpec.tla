----------------------------- MODULE IndexSpec -----------------------------
(***************************************************************************)
(* What the indexer promises the readers of its database, stated without *)
(* blocks in progress, transactions or scratch sets.                      *)
(*                                                                         *)
(* The chain saves one block after the other.  The index readers see is   *)
(* at every moment the index of the chain state last saved: it moves from *)
(* one saved state to the next in a single step, never showing part of a *)
(* block, and never showing a block the chain did not decide.  Processes  *)
(* join the live results, and leave them only when the node restarts; a  *)
(* live process shows the tally of its ballots in the saved state.       *)
(*                                                                         *)
(* What the index of a chain state holds is a parameter (IndexOf), so    *)
(* that the module describing the rows supplies it.                      *)
(***************************************************************************)
EXTENDS Naturals

CONSTANTS
  ChainStates,       \* the states a saved block may leave the chain in
  Processes,         \* process ids
  IndexOf(_, _, _)   \* IndexOf(c, n, L): the index of chain state c after
                     \* n saved blocks, with the processes L live

VARIABLES
  chain,   \* the chain state of the last saved block
  saved,   \* the number of saved blocks
  live,    \* the processes with live results
  index    \* what a reader of the index sees

vars == <<chain, saved, live, index>>

Init ==
  /\ chain \in ChainStates
  /\ saved = 0
  /\ live = {}
  /\ index = IndexOf(chain, saved, live)

\* The chain saves its next block; the index moves to that state at once.
SaveBlock ==
  /\ chain' \in ChainStates
  /\ saved' = saved + 1
  /\ index' = IndexOf(chain', saved', live)
  /\ UNCHANGED live

\* Some processes become live; their results now show the tally of the
\* saved ballots.
GoLive ==
  /\ live' \subseteq Processes
  /\ live \subseteq live'
  /\ index' = IndexOf(chain, saved, live')
  /\ UNCHANGED <<chain, saved>>

\* The node restarts: the live set lives in memory and starts empty.
Restart ==
  /\ live' = {}
  /\ index' = IndexOf(chain, saved, live')
  /\ UNCHANGED <<chain, saved>>

Next == SaveBlock \/ GoLive \/ Restart

Spec == Init /\ [][Next]_vars
=============================================================================
