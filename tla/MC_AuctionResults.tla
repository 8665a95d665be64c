------------------------- MODULE MC_AuctionResults -------------------------
(***************************************************************************)
(* A small instance of the readers of the results.                         *)
(***************************************************************************)
EXTENDS AuctionResultsProperties

NoLists == {}
NoRequests == {}
=============================================================================
