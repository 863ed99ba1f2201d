----------------------------- MODULE MC_Queries -----------------------------
(* Instance of Queries for TLC: two addresses, a prefix of one of them and *)
(* a prefix of both.                                                       *)
EXTENDS Queries

CONSTANTS a1, a2, x1, x2

MCAddresses == {a1, a2}
MCPrefixes == {x1, x2}
MCPrefixMatches == (x1 :> {a1}) @@ (x2 :> {a1, a2})
MCOffsets == -1..2
=============================================================================
