----------------------------- MODULE MC_Claims -----------------------------
(***************************************************************************)
(* Small instances of the program on which the documented claims fail.     *)
(***************************************************************************)
EXTENDS MC_Program, Claims
=============================================================================
