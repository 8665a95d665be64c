----------------------------- MODULE MC_Crank -----------------------------
(***************************************************************************)
(* A small instance of the crank and the program without orders.           *)
(***************************************************************************)
EXTENDS CrankProperties

NoLists == {}
NoRequests == {}
=============================================================================
