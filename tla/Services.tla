------------------------------ MODULE Services ------------------------------
(***************************************************************************)
(* The maker service (maker.service.ts) and the taker service              *)
(* (taker.service.ts), started by main() (index.ts), and the program they  *)
(* trade on.  Every tick of a service sends one transaction; setInterval   *)
(* does not wait for it, and nothing a tick learns from its answer changes *)
(* what the service does next, so that a tick is its transaction: in the   *)
(* network, it lands once or not at all, and the order is the network's.   *)
(* The crank is its transactions only (module Crank models its ticks).     *)
(***************************************************************************)
EXTENDS ProgramProperties

CONSTANTS
    maker, taker,   \* the key pairs of the services
    Mids,           \* the mid prices basePrice * (1 + priceVariation)
    Levels,         \* the quotes of the maker on each side, 5 in the code
    PerSide,        \* the orders of the taker on each side, 3 in the code
    Reach,          \* how far beyond its mid the taker bids
    Quantities,     \* the quantities the services draw
    Ticks           \* as many transactions of a service as may be under way

ASSUME ServicesAssumption ==
    /\ maker \in Owner /\ taker \in Owner /\ maker # taker
    /\ Levels \in Nat \ {0} /\ PerSide \in Nat \ {0} /\ Reach \in Nat
    /\ Mids # {}
    /\ \A mid \in Mids : /\ mid \in U64
                         /\ mid > Levels /\ mid + Levels \in U64
                         /\ mid > Reach /\ mid + Reach \in U64
    /\ Quantities \subseteq U64 \ {0}

VARIABLES
    starting,   \* the service main() is starting, or none
    running,    \* the services with an interval
    quoting,    \* the request each tick of the maker has in the network
    taking      \* the request each tick of the taker has in the network

services == <<starting, running, quoting, taking>>
system == <<vars, services>>

Nothing == << >>

ServicesInit ==
    /\ Init
    /\ starting = "maker"
    /\ running = {}
    /\ quoting = [t \in Ticks |-> Nothing]
    /\ taking = [t \in Ticks |-> Nothing]

-----------------------------------------------------------------------------
(* The requests.  Of the prices it matters that the maker's bids are below *)
(* its mid and its asks above, each a little further out than the last,    *)
(* and that the taker pays and takes more than that, around a mid of its   *)
(* own.                                                                    *)

MakerOrders(mid, quantity) ==
    [j \in 1..(2 * Levels) |->
        [order_type |-> "Maker",
         side |-> IF j <= Levels THEN "Buy" ELSE "Sell",
         price |-> IF j <= Levels THEN mid - j ELSE mid + (j - Levels),
         quantity |-> quantity[j]]]

TakerOrders(mid, quantity) ==
    [j \in 1..(2 * PerSide) |->
        [order_type |-> "Taker",
         side |-> IF j <= PerSide THEN "Buy" ELSE "Sell",
         price |-> IF j <= PerSide THEN mid + Reach ELSE mid - Reach,
         quantity |-> quantity[j]]]

QuoteRequests ==
    {MakerOrders(mid, quantity) :
        mid \in Mids, quantity \in [1..(2 * Levels) -> Quantities]}
TakeRequests ==
    {TakerOrders(mid, quantity) :
        mid \in Mids, quantity \in [1..(2 * PerSide) -> Quantities]}

-----------------------------------------------------------------------------
(* main() starts the services one after the other.                         *)

(* A mistake: the services are started without awaiting them.              *)
StartAllAtOnce ==
    /\ starting = "maker"
    /\ starting' = "taker"
    /\ running' = {"maker", "taker", "crank"}
    /\ UNCHANGED <<vars, quoting, taking>>

StartMaker ==
    /\ starting = "maker"
    /\ starting' = "taker"
    /\ running' = running \cup {"maker"}
    /\ UNCHANGED <<vars, quoting, taking>>

(* The taker places orders before it sets its interval.                    *)
StartTaker ==
    /\ starting = "taker"
    /\ starting' = "answer"
    /\ \E t \in Ticks, request \in TakeRequests :
          taking' = [taking EXCEPT ![t] = request]
    /\ UNCHANGED <<vars, running, quoting>>

(* A mistake: an error of the first orders is not caught.                  *)
TakerConfirmed ==
    /\ starting = "answer"
    /\ \E at \in AuctionType, i \in 1..MaxOrders :
          i <= Len(queue[at]) /\ queue[at][i].owner = taker
    /\ starting' = "none"
    /\ running' = running \cup {"taker", "crank"}
    /\ UNCHANGED <<vars, quoting, taking>>

(* Its answer, be it an error or a timeout with the transaction still      *)
(* under way, lets main() go on, and the crank starts.                     *)
TakerAnswered ==
    /\ starting = "answer"
    /\ starting' = "none"
    /\ running' = running \cup {"taker", "crank"}
    /\ UNCHANGED <<vars, quoting, taking>>

(* What is in the network stays there.                                     *)
StopService(service) ==
    /\ service \in running
    /\ running' = running \ {service}
    /\ UNCHANGED <<vars, starting, quoting, taking>>

-----------------------------------------------------------------------------
(* The ticks.                                                              *)

(* A mistake: the interval ends when the service that starts next is there.*)
SendQuotesAtFirst(t) ==
    /\ "maker" \in running /\ starting = "taker"
    /\ quoting[t] = Nothing
    /\ quoting' \in {[quoting EXCEPT ![t] = request] : request \in QuoteRequests}
    /\ UNCHANGED <<vars, starting, running, taking>>

SendQuotes(t) ==
    /\ "maker" \in running
    /\ quoting[t] = Nothing
    /\ quoting' \in {[quoting EXCEPT ![t] = request] : request \in QuoteRequests}
    /\ UNCHANGED <<vars, starting, running, taking>>

(* Two mistakes: the old quotes are not cancelled; and cancelling them and *)
(* posting the new ones are two transactions.                              *)
LandQuotesOnTop(t) ==
    /\ quoting[t] # Nothing
    /\ PlaceMultipleOrders(maker, quoting[t])
    /\ quoting' = [quoting EXCEPT ![t] = Nothing]
    /\ UNCHANGED <<starting, running, taking>>
LandQuotesInTwo(t) ==
    /\ quoting[t] # Nothing
    /\ \/ /\ \E at \in AuctionType, i \in 1..MaxOrders :
                i <= Len(queue[at]) /\ queue[at][i].owner = maker
          /\ CancelAllOrders(maker)
          /\ UNCHANGED quoting
       \/ /\ PlaceMultipleOrders(maker, quoting[t])
          /\ quoting' = [quoting EXCEPT ![t] = Nothing]
    /\ UNCHANGED <<starting, running, taking>>

LandQuotes(t) ==
    /\ quoting[t] # Nothing
    /\ CancelAllAndPostNewOrders(maker, quoting[t])
    /\ quoting' = [quoting EXCEPT ![t] = Nothing]
    /\ UNCHANGED <<starting, running, taking>>

(* Refused by the program, or too old when it reaches it.                  *)
LoseQuotes(t) ==
    /\ quoting[t] # Nothing
    /\ quoting' = [quoting EXCEPT ![t] = Nothing]
    /\ UNCHANGED <<vars, starting, running, taking>>

SendTakes(t) ==
    /\ "taker" \in running
    /\ taking[t] = Nothing
    /\ taking' \in {[taking EXCEPT ![t] = request] : request \in TakeRequests}
    /\ UNCHANGED <<vars, starting, running, quoting>>

LandTakes(t) ==
    /\ taking[t] # Nothing
    /\ PlaceMultipleOrders(taker, taking[t])
    /\ taking' = [taking EXCEPT ![t] = Nothing]
    /\ UNCHANGED <<starting, running, quoting>>

LoseTakes(t) ==
    /\ taking[t] # Nothing
    /\ taking' = [taking EXCEPT ![t] = Nothing]
    /\ UNCHANGED <<vars, starting, running, quoting>>

-----------------------------------------------------------------------------
CrankBatch ==
    /\ "crank" \in running
    /\ auction_state.batch_counter + 1 \in BatchIds
    /\ ExecuteBatch(auction_state.batch_counter + 1)
    /\ UNCHANGED services

Others ==
    /\ \/ \E interval \in Intervals : Initialize(interval)
       \/ Tick
    /\ UNCHANGED services

ServicesNext ==
    \/ StartMaker
    \/ StartTaker
    \/ TakerAnswered
    \/ \E service \in {"maker", "taker", "crank"} : StopService(service)
    \/ \E t \in Ticks :
          \/ SendQuotes(t) \/ LandQuotes(t) \/ LoseQuotes(t)
          \/ SendTakes(t) \/ LandTakes(t) \/ LoseTakes(t)
    \/ CrankBatch
    \/ Others

(* main() goes on once it has its answer, which rpc() gives in the end; an *)
(* interval sends again and again; and a maker that sends again and again  *)
(* is not ignored for ever.                                                *)
Fairness ==
    /\ WF_system(StartMaker \/ StartTaker \/ TakerAnswered)
    /\ \A t \in Ticks : WF_system(SendQuotes(t)) /\ SF_system(LandQuotes(t))

ServicesSpec == ServicesInit /\ [][ServicesNext]_system
FairServicesSpec == ServicesSpec /\ Fairness
=============================================================================
