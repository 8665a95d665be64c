---------------------------- MODULE MC_Program ----------------------------
(***************************************************************************)
(* Small instances of the program.                                         *)
(***************************************************************************)
EXTENDS ProgramProperties, TLC

Request(type, side, price, quantity) ==
    [order_type |-> type, side |-> side, price |-> price, quantity |-> quantity]

Requests(prices, quantities, kinds) ==
    {Request(kind[1], kind[2], price, quantity) :
        kind \in kinds, price \in prices, quantity \in quantities}

BidKinds == {<<"Maker", "Buy">>, <<"Taker", "Sell">>}
AskKinds == {<<"Maker", "Sell">>, <<"Taker", "Buy">>}

(* The book of one auction: every mix of makers and takers at three prices.*)
BidBook == Requests(1..3, 1..2, BidKinds)
AskBook == Requests(1..3, {1, 3}, AskKinds)
NoLists == {}
NoRequests == {}

(* Traders that interleave: a maker quoting both sides, a list that        *)
(* overfills one queue before it reaches the other, takers on both sides,  *)
(* and a list spoilt by its second request.                                *)
Quote(side, quantity) == Request("Maker", side, 2, quantity)
Take(side, quantity) == Request("Taker", side, 2, quantity)
SingleRequests == {Take("Sell", 2), Request("Maker", "Sell", 0, 1)}
RequestLists ==
    {<<Quote("Sell", 1), Quote("Sell", 2), Quote("Sell", 2), Quote("Buy", 1)>>,
     <<Take("Buy", 1), Quote("Buy", 2)>>,
     <<Quote("Buy", 1), Quote("Buy", 0)>>}

Owners == Permutations(Owner)
=============================================================================
