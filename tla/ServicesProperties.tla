------------------------- MODULE ServicesProperties -------------------------
(***************************************************************************)
(* What the maker and the taker achieve on the program, with ticks that    *)
(* overlap, get lost, and land in another order than they were sent.       *)
(***************************************************************************)
EXTENDS Services

(* The services have at most one request a tick under way, each of its     *)
(* kind, and an interval only once main() has started them.                *)
ServicesTypeOK ==
    /\ starting \in {"maker", "taker", "answer", "none"}
    /\ running \subseteq
           IF starting = "maker" THEN {}
           ELSE IF starting = "none" THEN {"maker", "taker", "crank"} ELSE {"maker"}
    /\ quoting \in [Ticks -> QuoteRequests \cup {Nothing}]
    /\ taking \in [Ticks -> TakeRequests \cup {Nothing}]

Mine(owner, at) == {i \in 1..Len(queue[at]) : queue[at][i].owner = owner}

(* maker.service.ts:94: however the ticks of the maker are reordered, and  *)
(* however few of its orders find room, all its quotes in both queues are  *)
(* around one mid: the best bid never meets an ask of another.             *)
QuotedAround(mid) ==
    \A at \in AuctionType : \A i \in Mine(maker, at) :
        LET o == queue[at][i]
        IN  IF o.side = "Buy" THEN o.price \in (mid - Levels)..(mid - 1)
            ELSE o.price \in (mid + 1)..(mid + Levels)
QuotesAreOneTicks == \E mid \in Mids : QuotedAround(mid)

(* Cancel-and-post takes the places it has just freed, and batches take no *)
(* quotes away: once all quotes of a tick rest, there are never fewer, be  *)
(* the queues ever so full of orders that wait for a better price.         *)
Quoted == \A at \in AuctionType : Cardinality(Mine(maker, at)) = Levels
MakerKeepsItsPlaces == [][Quoted => Quoted']_system

(* taker.service.ts:64 places and never cancels.  A queue that its orders  *)
(* have filled to the last place, with no quote among them, is what it is  *)
(* for ever: no batch matches it, no request gets in.                      *)
FullOfTakers(at) ==
    Len(queue[at]) = MaxOrders /\ Mine(maker, at) = {}
FullOfTakersIsForEver ==
    [][\A at \in AuctionType : FullOfTakers(at) => queue'[at] = queue[at]]_system

(* Otherwise the maker's quotes come to rest, all of them, as long as its  *)
(* interval is set and the orders of others leave room for them.           *)
NoRoom ==
    \E at \in AuctionType :
        Len(queue[at]) - Cardinality(Mine(maker, at)) + Levels > MaxOrders
QuotesComeToRest ==
    (initialized /\ "maker" \in running)
        ~> (Quoted \/ NoRoom \/ "maker" \notin running)

(* index.ts:33-35: the crank starts even if the program is not there or    *)
(* the first orders of the taker get lost.                                 *)
AllServicesStart == <>(starting = "none")
=============================================================================
