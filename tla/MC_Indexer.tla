----------------------------- MODULE MC_Indexer -----------------------------
(* Model-checking instance of Indexer: two questions with choices 0..1, as *)
(* in the scenarios of the indexer's specification.                        *)
EXTENDS Indexer

MCQuestions == 1..2

\* Countable ballots only.
MCValidPackages == {<<1, 0>>, <<0, 1>>}

\* One ballot's first choice lies outside the vote options.
MCAnyPackages == {<<1, 0>>, <<0, 1>>, <<2, 0>>}

\* A single ballot, for runs in which tallies are not computed.
MCOnePackage == {<<2, 0>>}
=============================================================================
