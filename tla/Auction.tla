------------------------------ MODULE Auction ------------------------------
(***************************************************************************)
(* The frequent batch auction of one queue (processor/auction.rs): the     *)
(* uniform clearing price that maximises the matched volume, and the fills *)
(* that execute it.  An order is named by its position in the queue.  The  *)
(* code sorts the orders before it fills them; here the order of filling   *)
(* is the relation Outbids between prices, and what the loop over price    *)
(* groups has left when it reaches a group is given in closed form.        *)
(***************************************************************************)
EXTENDS State, VecOps

Least(a, b) == IF a <= b THEN a ELSE b

(* a - b, or 0 when b is the larger.                                       *)
Excess(a, b) == IF a >= b THEN a - b ELSE 0

(* The orders of one type that take part: active and not yet filled.       *)
Makers(orders) ==
    {i \in DOMAIN orders : Live(orders[i]) /\ orders[i].order_type = "Maker"}
Takers(orders) ==
    {i \in DOMAIN orders : Live(orders[i]) /\ orders[i].order_type = "Taker"}

(* Makers buy in the Bid auction and sell in the Ask auction.  A buyer     *)
(* accepts a price up to its own, a seller a price from its own.           *)
MakerAccepts(o, at, price) ==
    IF at = "Bid" THEN o.price >= price ELSE o.price <= price
TakerAccepts(o, at, price) ==
    IF at = "Bid" THEN o.price <= price ELSE o.price >= price

MakersAt(orders, at, price) ==
    {i \in Makers(orders) : MakerAccepts(orders[i], at, price)}
TakersAt(orders, at, price) ==
    {i \in Takers(orders) : TakerAccepts(orders[i], at, price)}

(* The open quantity of the orders at the positions in K; 0 stands in for  *)
(* an order that does not take part, whose quantity is never read.         *)
OpenQuantities(orders) ==
    [i \in 1..Len(orders) |-> IF Live(orders[i]) THEN Open(orders[i]) ELSE 0]
Volume(orders, K) == SumOver(OpenQuantities(orders), K)

VolumeAtPrice(orders, at, price) ==
    Least(Volume(orders, MakersAt(orders, at, price)),
          Volume(orders, TakersAt(orders, at, price)))

(* A mistake: the makers' prices are not added to the list.                *)
PricesOfTakers(orders) == {orders[i].price : i \in Takers(orders)}

Prices(orders) == {orders[i].price : i \in Makers(orders) \cup Takers(orders)}

(* The prices at which the volume is largest, and whether there is a match.*)
BestPrices(orders, at) ==
    {p \in Prices(orders) :
        \A q \in Prices(orders) :
            VolumeAtPrice(orders, at, q) <= VolumeAtPrice(orders, at, p)}
Matches(orders, at) ==
    /\ Makers(orders) # {} /\ Takers(orders) # {}
    /\ \E p \in Prices(orders) : VolumeAtPrice(orders, at, p) > 0

(* A mistake: an equal volume replaces the best one, so the highest wins.  *)
LastBestPrice(orders, at) ==
    IF Matches(orders, at)
    THEN CHOOSE p \in BestPrices(orders, at) :
            \A q \in BestPrices(orders, at) : q <= p
    ELSE 0

(* The prices are tried in ascending order and only a larger volume        *)
(* replaces the best one, so the lowest of the best prices wins.           *)
ClearingPrice(orders, at) ==
    IF Matches(orders, at)
    THEN CHOOSE p \in BestPrices(orders, at) :
            \A q \in BestPrices(orders, at) : p <= q
    ELSE 0
ClearingVolume(orders, at) ==
    IF Matches(orders, at)
    THEN VolumeAtPrice(orders, at, ClearingPrice(orders, at))
    ELSE 0

(* Takers are filled by price group, the best price for the other side     *)
(* first: the cheapest sellers, the highest buyers.                        *)
Outbids(at, p, q) == IF at = "Bid" THEN p < q ELSE p > q
SameLevel(orders, K, i) == {j \in K : orders[j].price = orders[i].price}

(* A mistake: the takers are grouped without being sorted first.           *)
AheadInArrivalOrder(orders, at, K, i) ==
    {j \in K : j < i /\ orders[j].price # orders[i].price}

Ahead(orders, at, K, i) == {j \in K : Outbids(at, orders[j].price, orders[i].price)}

(* A mistake: remaining_volume is not reduced by what a group has taken.   *)
UndiminishedVolume(orders, at, price, i) == VolumeAtPrice(orders, at, price)

(* What the groups ahead of i's leave of the volume to be matched, and the *)
(* part of it that goes to i's group.                                      *)
LeftForLevel(orders, at, price, i) ==
    Excess(VolumeAtPrice(orders, at, price),
           Volume(orders, Ahead(orders, at, TakersAt(orders, at, price), i)))
LevelVolume(orders, at, price, i) ==
    Volume(orders, SameLevel(orders, TakersAt(orders, at, price), i))
VolumeToFill(orders, at, price, i) ==
    Least(LevelVolume(orders, at, price, i), LeftForLevel(orders, at, price, i))

(* Two mistakes: a group is filled first come, first served; and shares    *)
(* are rounded up.                                                         *)
FirstComeFill(orders, at, price, i) ==
    LET level == SameLevel(orders, TakersAt(orders, at, price), i)
    IN  Least(Open(orders[i]),
              Excess(VolumeToFill(orders, at, price, i),
                     Volume(orders, {j \in level : j < i})))
RoundedUpFill(orders, at, price, i) ==
    LET level == LevelVolume(orders, at, price, i)
    IN  (Open(orders[i]) * VolumeToFill(orders, at, price, i) + level - 1) \div level

(* Inside a group every taker gets its share, rounded down.                *)
TakerFill(orders, at, price, i) ==
    (Open(orders[i]) * VolumeToFill(orders, at, price, i))
        \div LevelVolume(orders, at, price, i)

(* Makers share what the takers have left: the code subtracts from the     *)
(* total what is no longer in remaining_volume.                            *)
MakerFillVolume(orders, at, price) ==
    LET total == VolumeAtPrice(orders, at, price)
        remaining == Excess(total, Volume(orders, TakersAt(orders, at, price)))
    IN  total - (total - remaining)
MakerFill(orders, at, price, i) ==
    (Open(orders[i]) * MakerFillVolume(orders, at, price))
        \div Volume(orders, MakersAt(orders, at, price))

Fill(orders, at, price, i) ==
    IF ~ Matches(orders, at) THEN 0
    ELSE IF i \in TakersAt(orders, at, price) THEN TakerFill(orders, at, price, i)
    ELSE IF i \in MakersAt(orders, at, price) THEN MakerFill(orders, at, price, i)
    ELSE 0

(* The orders after the auction.                                           *)
Traded(orders, at) ==
    LET price == ClearingPrice(orders, at)
    IN  [i \in 1..Len(orders) |->
            [orders[i] EXCEPT !.filled_quantity = @ + Fill(orders, at, price, i)]]

(* A mistake: shares are computed from the makers' whole volume.           *)
PanicsUncapped(orders, at) ==
    /\ Makers(orders) # {} /\ Takers(orders) # {}
    /\ \E i \in Takers(orders) :
          Open(orders[i]) * Volume(orders, Makers(orders)) > MaxU64

(* The auction overflows a u64: summing the open quantity of all makers or *)
(* of all takers (the lowest and the highest price count them all), or     *)
(* multiplying an order's quantity by its group's volume.                  *)
Panics(orders, at) ==
    /\ Makers(orders) # {} /\ Takers(orders) # {}
    /\ \/ Volume(orders, Makers(orders)) > MaxU64
       \/ Volume(orders, Takers(orders)) > MaxU64
       \/ /\ Matches(orders, at)
          /\ LET price == ClearingPrice(orders, at)
             IN  \E i \in TakersAt(orders, at, price) :
                    Open(orders[i]) * VolumeToFill(orders, at, price, i) > MaxU64
=============================================================================
