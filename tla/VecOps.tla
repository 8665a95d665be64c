------------------------------ MODULE VecOps ------------------------------
(***************************************************************************)
(* The two operations on a Vec of orders that the program is built from:   *)
(* keeping the elements at some positions in their order (Vec::retain, and *)
(* the filtering loops of the auction), and adding up a quantity over the  *)
(* elements at some positions.  Positions are given as a set K, so that    *)
(* the operators are first-order and facts about them can be proved once   *)
(* (module VecOpsProofs); they are recursive functions for the same reason.*)
(***************************************************************************)
EXTENDS Integers, Sequences

(* The elements of v at the positions in K, in their order in v. *)
Retain(v, K) ==
    LET kept[n \in 0..Len(v)] ==
            IF n = 0 THEN << >>
            ELSE IF n \in K THEN Append(kept[n - 1], v[n]) ELSE kept[n - 1]
    IN  kept[Len(v)]

(* The sum of the elements of v at the positions in K. *)
SumOver(v, K) ==
    LET sum[n \in 0..Len(v)] ==
            IF n = 0 THEN 0
            ELSE IF n \in K THEN sum[n - 1] + v[n] ELSE sum[n - 1]
    IN  sum[Len(v)]
=============================================================================
