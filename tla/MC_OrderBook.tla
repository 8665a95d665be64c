---------------------------- MODULE MC_OrderBook ----------------------------
(***************************************************************************)
(* A small instance of the readers of the order queues.                    *)
(***************************************************************************)
EXTENDS OrderBookProperties

NoLists == {}

(* A bid, and asks of which one is too large.                              *)
Quotes ==
    {[order_type |-> "Maker", side |-> "Buy", price |-> 1, quantity |-> 1]} \cup
    {[order_type |-> "Maker", side |-> "Sell", price |-> 1, quantity |-> quantity] :
        quantity \in {1, 2}}
=============================================================================
