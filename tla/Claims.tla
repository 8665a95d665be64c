------------------------------- MODULE Claims -------------------------------
(***************************************************************************)
(* What the documentation says of the program and the program does not do. *)
(* Each of these is checked by a run that is expected to violate it; the   *)
(* line it is taken from is quoted in its comment.                         *)
(***************************************************************************)
EXTENDS ProgramProperties

(* README.md:524, "Makers filled proportionally by their size": when a     *)
(* volume is matched, the makers receive it too, less roundings of one     *)
(* unit an order.                                                          *)
MakersShareTheVolume ==
    \A at \in AuctionType :
        LET orders == queue[at]
            makers == MakersAt(orders, at, ClearingPrice(orders, at))
            shortfall == ClearingVolume(orders, at)
                            - SumOver(Receipts(orders, at), Makers(orders))
        IN  ClearingVolume(orders, at) > 0 => shortfall < Cardinality(makers)

(* README.md:523, "Takers filled first (FIFO by order placement)": a taker *)
(* that could trade at the clearing price and was placed before one that   *)
(* is filled is filled completely.                                         *)
TakersServedInArrivalOrder ==
    \A at \in AuctionType :
        LET orders == queue[at]
            takers == TakersAt(orders, at, ClearingPrice(orders, at))
            received == Receipts(orders, at)
        IN  \A i, j \in takers :
                i < j /\ received[j] > 0 => received[i] = Open(orders[i])

(* README.md:444, "id: u64 // Unique order ID": two resting orders never   *)
(* have one id.                                                            *)
OrderIdsAreUnique ==
    \A at, au \in AuctionType :
        \A i \in 1..Len(queue[at]), j \in 1..Len(queue[au]) :
            queue[at][i].id = queue[au][j].id => at = au /\ i = j
=============================================================================
