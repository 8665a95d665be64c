------------------------- MODULE ProgramProperties -------------------------
(***************************************************************************)
(* What the program promises.  First the auction: every queue the program  *)
(* can reach is looked at as the book of an auction run now.  Then the     *)
(* accounts: the queues, the log of results, and what a step may do.       *)
(***************************************************************************)
EXTENDS Program

(* The accounts have the types state.rs declares.                          *)
TypeOK ==
    /\ initialized \in BOOLEAN
    /\ auction_state \in AuctionState
    /\ queue \in [AuctionType -> Seq(Order)]
    /\ DOMAIN results \subseteq BatchIds
    /\ \A b \in DOMAIN results : results[b] \in AuctionResult
    /\ slot \in 0..MaxSlot
    /\ unix_timestamp \in Timestamp

-----------------------------------------------------------------------------
(* The auction.                                                            *)

(* What each order of a queue receives from its auction.                   *)
Receipts(orders, at) ==
    LET traded == Traded(orders, at)
    IN  [i \in 1..Len(orders) |-> traded[i].filled_quantity - orders[i].filled_quantity]

(* execute_auction looks for its price among the prices of the orders      *)
(* only, and stops at none: still no price at all, quoted or not, matches  *)
(* more than the clearing price, and every lower price matches less.       *)
ClearingIsOptimal ==
    \A at \in AuctionType :
        LET orders == queue[at]
            clearing_price == ClearingPrice(orders, at)
            clearing_volume == ClearingVolume(orders, at)
        IN  \A price \in U64 :
               LET volume == VolumeAtPrice(orders, at, price)
               IN  /\ volume <= clearing_volume
                   /\ price < clearing_price => volume < clearing_volume

(* execute_trades_at_price: a taker that receives anything accepts the     *)
(* clearing price, and every taker with a strictly better price has        *)
(* received all it asked for.                                              *)
TakersServedInPriceOrder ==
    \A at \in AuctionType :
        LET orders == queue[at]
            received == Receipts(orders, at)
        IN  \A i \in Takers(orders) :
                received[i] > 0 =>
                    /\ TakerAccepts(orders[i], at, ClearingPrice(orders, at))
                    /\ \A j \in Takers(orders) :
                          Outbids(at, orders[j].price, orders[i].price)
                              => received[j] = Open(orders[j])

(* The shares of a price group are rounded down one by one.  Takers of one *)
(* price are nevertheless filled in proportion to what they ask for, to    *)
(* within one unit, wherever in the queue they are.                        *)
TakersOfOnePriceShareAlike ==
    \A at \in AuctionType :
        LET orders == queue[at]
            received == Receipts(orders, at)
        IN  \A i, j \in Takers(orders) :
                orders[i].price = orders[j].price =>
                    received[i] * Open(orders[j])
                        < (received[j] + 1) * Open(orders[i])

(* The takers together receive the volume the auction reports, short of it *)
(* by less than one unit for each taker of a single price.                 *)
ShortfallWithinOneLevel ==
    \A at \in AuctionType :
        LET orders == queue[at]
            takers == TakersAt(orders, at, ClearingPrice(orders, at))
            shortfall == ClearingVolume(orders, at)
                            - SumOver(Receipts(orders, at), Takers(orders))
        IN  /\ shortfall >= 0
            /\ shortfall > 0 =>
                  \E i \in takers : shortfall < Cardinality(SameLevel(orders, takers, i))

(* An overflow aborts execute_batch, and aborts it again as long as the    *)
(* orders rest.  It cannot happen while the makers' quantity fits a u64    *)
(* and the square of the takers' quantity does.                            *)
SmallBooksNeverPanic ==
    \A at \in AuctionType :
        LET orders == queue[at]
            asked == Volume(orders, Takers(orders))
        IN  /\ Volume(orders, Makers(orders)) <= MaxU64
            /\ asked * asked <= MaxU64
            => ~ Panics(orders, at)

-----------------------------------------------------------------------------
(* The queues.                                                             *)

(* Whatever instruction touched them last, the queues hold only orders     *)
(* that are worth an auction: active, valid, not filled, in the queue of   *)
(* their kind, and never more than its capacity.                           *)
QueuesHoldOpenOrders ==
    \A at \in AuctionType :
        /\ Len(queue[at]) <= MaxOrders
        /\ \A i \in 1..Len(queue[at]) :
              LET o == queue[at][i]
              IN  Live(o) /\ Route(o) = at /\ ValidParams(o)

(* Cancels and batches take orders out of the middle of a queue, and posts *)
(* of a list fill both queues at once: a queue stays in order of placement.*)
QueuesInTimeOrder ==
    \A at \in AuctionType :
        \A i, j \in 1..Len(queue[at]) :
            i < j => queue[at][i].timestamp <= queue[at][j].timestamp

OrdersOf(q, owner) ==
    [at \in AuctionType |->
        Retain(q[at], {i \in 1..Len(q[at]) : q[at][i].owner = owner})]

BatchStep == auction_state'.batch_counter # auction_state.batch_counter

(* Only a batch touches the orders of two owners: any other step leaves    *)
(* every owner but one with the same orders, in the same order.            *)
OthersOrdersKept ==
    [][~ BatchStep =>
          \E owner \in Owner : \A other \in Owner \ {owner} :
              OrdersOf(queue', other) = OrdersOf(queue, other)]_vars

(* A batch leaves every owner with a selection of its orders in their      *)
(* order, unchanged except for what they have been filled: nothing is      *)
(* added, repeated, resized or moved.                                      *)
BatchStepOnlyFills ==
    [][BatchStep =>
          \A at \in AuctionType :
              LET before == queue[at]
                  after == queue'[at]
              IN  \E kept \in SUBSET (1..Len(before)) :
                     LET rest == Retain(before, kept)
                     IN  /\ Len(rest) = Len(after)
                         /\ \A i \in 1..Len(after) :
                               /\ after[i].filled_quantity >= rest[i].filled_quantity
                               /\ [after[i] EXCEPT !.filled_quantity = 0]
                                     = [rest[i] EXCEPT !.filled_quantity = 0]]_vars

(* The volumes a batch reports are accounted for in the queues: what the   *)
(* takers of each queue ask for goes down by the reported volume of its    *)
(* auction, less roundings of one unit an order, and what its makers offer *)
(* by no more than that.                                                   *)
TakersOpen(q, at) == Volume(q[at], Takers(q[at]))
MakersOpen(q, at) == Volume(q[at], Makers(q[at]))

ReportedVolumeLeavesQueues ==
    [][\A b \in DOMAIN results' \ DOMAIN results :
          BatchStep =>
              \A at \in AuctionType :
                  LET reported == IF at = "Bid" THEN results'[b].bid_volume
                                  ELSE results'[b].ask_volume
                      matched == TakersOpen(queue, at) - TakersOpen(queue', at)
                  IN  /\ matched <= reported
                      /\ reported - matched <= Cardinality(Takers(queue[at]))
                      /\ MakersOpen(queue, at) - MakersOpen(queue', at) <= reported]_vars

-----------------------------------------------------------------------------
(* The log of batches.                                                     *)

Executed == {b \in DOMAIN results : results[b].batch_id > 0}

(* execute_batch takes the address of its result from the caller and the   *)
(* batch_id in it from the counter.  The executed results are numbered     *)
(* 1, 2, ... up to the counter, each number once, in the order of time;    *)
(* results created before there is an auction are none of them.            *)
ResultsNumberTheBatches ==
    /\ {results[b].batch_id : b \in Executed} = 1..auction_state.batch_counter
    /\ \A b, c \in Executed :
          /\ results[b].batch_id = results[c].batch_id => b = c
          /\ results[b].batch_id < results[c].batch_id
                => results[b].timestamp <= results[c].timestamp
    /\ \A b \in Executed : results[b].timestamp <= unix_timestamp
    /\ ~ initialized => auction_state.batch_counter = 0

(* execute_batch.rs:13: a batch comes batch_interval slots after the one   *)
(* before, or later, and the first as long after slot 0.  In between       *)
(* nothing moves the slot they are counted from, or the interval.          *)
BatchesKeepTheInterval ==
    [][/\ BatchStep =>
             /\ slot >= auction_state.last_batch_slot + auction_state.batch_interval
             /\ auction_state'.last_batch_slot = slot
       /\ ~ BatchStep =>
             auction_state'.last_batch_slot =
                IF initialized THEN auction_state.last_batch_slot ELSE 0
       /\ initialized =>
             auction_state'.batch_interval = auction_state.batch_interval]_vars
=============================================================================
