------------------------------- MODULE State -------------------------------
(***************************************************************************)
(* The data of the on-chain program (state.rs): orders, the two auctions,  *)
(* and the u64 arithmetic they are built on.                               *)
(***************************************************************************)
EXTENDS Integers, Sequences

CONSTANTS
    Owner,      \* the signers that place and cancel orders
    MaxU64,     \* the largest u64; a computation beyond it aborts (overflow-checks)
    MaxI64      \* the largest i64, the type of a unix timestamp

ASSUME WidthAssumption ==
    /\ MaxU64 \in Nat \ {0}
    /\ MaxI64 \in 0..MaxU64

U64 == 0..MaxU64
Timestamp == 0..MaxI64

AuctionType == {"Bid", "Ask"}   \* Bid: makers buy, takers sell; Ask: the reverse
OrderType == {"Maker", "Taker"}
Side == {"Buy", "Sell"}

Order ==
    [id : U64, owner : Owner, order_type : OrderType, side : Side,
     price : U64, quantity : U64, timestamp : Timestamp,
     is_active : BOOLEAN, filled_quantity : U64]

PlaceOrderParams ==
    [order_type : OrderType, side : Side, price : U64, quantity : U64]

AuctionResult ==
    [batch_id : U64, bid_clearing_price : U64, bid_volume : U64,
     ask_clearing_price : U64, ask_volume : U64, timestamp : Timestamp]

(* The quantity of an order still to be matched.                           *)
Open(o) == o.quantity - o.filled_quantity

(* An order the auction considers, and that a batch leaves in its queue.   *)
Live(o) == o.is_active /\ o.filled_quantity < o.quantity

(* The queue the instructions put an order in.                             *)
Route(p) ==
    IF (p.order_type = "Maker") = (p.side = "Buy") THEN "Bid" ELSE "Ask"
=============================================================================
