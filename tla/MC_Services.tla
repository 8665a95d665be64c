---------------------------- MODULE MC_Services ----------------------------
(***************************************************************************)
(* A small instance of the maker and taker services.                       *)
(***************************************************************************)
EXTENDS ServicesProperties

NoLists == {}
NoRequests == {}
=============================================================================
