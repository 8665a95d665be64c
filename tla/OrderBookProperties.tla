------------------------ MODULE OrderBookProperties ------------------------
(***************************************************************************)
(* What a viewer of the order queues may rely on.                          *)
(***************************************************************************)
EXTENDS OrderBook

(* What is fetched and shown are orders of the program, each on its side,  *)
(* worth showing although they may be gone; and nobody who has left has an *)
(* interval.                                                               *)
OfSide(orders, at) ==
    \A i \in 1..Len(orders) :
        orders[i] \in Order /\ Live(orders[i]) /\ Route(orders[i]) = at
OrderBookTypeOK ==
    /\ viewers \subseteq Viewer
    /\ timers \in [Viewer -> 0..MaxTimers]
    /\ \A v \in Viewer : timers[v] > 0 => v \in viewers
    /\ \A t \in Polls :
          /\ poll[t].at \in {"idle", "bids", "asks", "answer"}
          /\ poll[t].for \in Viewer \cup {Nobody}
          /\ OfSide(poll[t].bids, "Bid") /\ OfSide(poll[t].asks, "Ask")
    /\ \A at \in AuctionType : OfSide(book[at], at)

(* OrderBook.tsx:20-31: overtaken answers put older orders in place of     *)
(* newer ones, and the two queues of an answer may be of two moments.  But *)
(* once the queues come to rest, the page shows them both as they are, and *)
(* goes on showing them, unless an order that rests is too large to be     *)
(* formatted, which keeps all of them from the page.                       *)
BookCatchesUp ==
    \/ []<><<queue' # queue>>_queue
    \/ []<>("page" \notin viewers)
    \/ []<>(~ Formattable(queue["Bid"] \o queue["Ask"]))
    \/ <>[](book = queue)

(* api.service.ts:123-147: however many subscriptions a connection has     *)
(* made, once all viewers are gone the API comes to rest.                  *)
RestWithoutViewers ==
    \/ []<>(viewers # {})
    \/ <>[](\A t \in Polls : poll[t] = IdlePoll)
=============================================================================
