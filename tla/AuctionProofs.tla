--------------------------- MODULE AuctionProofs ---------------------------
(***************************************************************************)
(* What the auction computes, for every queue of orders: the price is one  *)
(* of the prices quoted and no price matches more; takers fill in price    *)
(* order, those of one price in proportion, and all but one level of them  *)
(* exactly; no maker is filled and no order beyond its quantity; what the  *)
(* batch reports leaves the queue; and no sum or product leaves u64 while  *)
(* the book is small.                                                      *)
(***************************************************************************)
EXTENDS Auction, VecOpsProofs

(* A share of a that is at most the whole is at most a.                    *)
LEMMA ShareBound ==
    ASSUME NEW a \in Nat, NEW part \in Nat, NEW whole \in Nat, whole > 0, part <= whole
    PROVE  (a * part) \div whole \in Nat /\ (a * part) \div whole <= a
<1> DEFINE x == a * part
           q == x \div whole
<1>1. x \in Nat /\ x <= a * whole
    OBVIOUS
<1> HIDE DEF x
<1>2. q \in Int /\ q * whole <= x /\ x < q * whole + whole
    BY <1>1
<1> HIDE DEF q
<1>3. q >= 0
    <2>1. SUFFICES ASSUME q <= -1 PROVE FALSE
        BY <1>2
    <2>2. q * whole <= -whole
        BY <2>1, <1>2
    <2> QED BY <2>2, <1>1, <1>2
<1>4. q <= a
    <2>1. SUFFICES ASSUME q >= a + 1 PROVE FALSE
        BY <1>2
    <2>2. q * whole >= (a + 1) * whole
        BY <2>1, <1>2
    <2>3. (a + 1) * whole = a * whole + whole
        OBVIOUS
    <2> QED BY <2>2, <2>3, <1>1, <1>2
<1>5. q \in Nat /\ q <= a
    BY <1>2, <1>3, <1>4
<1> QED BY <1>5 DEF q, x

LEMMA ProductMonotone ==
    ASSUME NEW a \in Nat, NEW b \in Nat, NEW c \in Nat, a <= c, b <= c
    PROVE  a * b <= c * c
<1>1. a * b <= c * b
    OBVIOUS
<1>2. c * b <= c * c
    OBVIOUS
<1>3. a * b \in Nat /\ c * b \in Nat /\ c * c \in Nat
    OBVIOUS
<1> QED BY <1>1, <1>2, <1>3

(* A live order has something open, and at most a u64.                     *)
LEMMA OpenBounds ==
    ASSUME NEW o \in Order, Live(o)
    PROVE  Open(o) \in Nat /\ Open(o) > 0 /\ o.filled_quantity + Open(o) = o.quantity
<1>1. o.quantity \in Nat /\ o.filled_quantity \in Nat
    BY WidthAssumption DEF Order, U64
<1> QED BY <1>1 DEF Live, Open

LEMMA OpenQuantitiesType ==
    ASSUME NEW orders \in Seq(Order)
    PROVE  /\ OpenQuantities(orders) \in Seq(Nat)
           /\ Len(OpenQuantities(orders)) = Len(orders)
           /\ \A i \in 1..Len(orders) :
                 Live(orders[i]) => OpenQuantities(orders)[i] = Open(orders[i])
<1>1. \A i \in 1..Len(orders) : Live(orders[i]) => Open(orders[i]) \in Nat
    BY OpenBounds, ElementOfSeq
<1> DEFINE e(i) == IF Live(orders[i]) THEN Open(orders[i]) ELSE 0
<1>2. \A i \in 1..Len(orders) : e(i) \in Nat
    BY <1>1
<1>3. Len(orders) \in Nat
    OBVIOUS
<1>4. /\ [i \in 1..Len(orders) |-> e(i)] \in Seq(Nat)
      /\ Len([i \in 1..Len(orders) |-> e(i)]) = Len(orders)
    <2> HIDE DEF e
    <2> QED BY <1>2, <1>3
<1> QED BY <1>4 DEF OpenQuantities

(* A volume is a natural number, at least what each live order counted in  *)
(* it has open, and grows with the set of orders it counts.                *)
LEMMA VolumeType ==
    ASSUME NEW orders \in Seq(Order), NEW K
    PROVE  /\ Volume(orders, K) \in Nat
           /\ \A i \in K \cap (1..Len(orders)) :
                 Live(orders[i]) => Open(orders[i]) <= Volume(orders, K)
<1> DEFINE v == OpenQuantities(orders)
<1>1. /\ v \in Seq(Nat) /\ Len(v) = Len(orders)
      /\ \A i \in 1..Len(orders) : Live(orders[i]) => v[i] = Open(orders[i])
    BY OpenQuantitiesType
<1> HIDE DEF v
<1>2. /\ SumOver(v, K) \in Nat
      /\ \A i \in K \cap (1..Len(v)) : v[i] <= SumOver(v, K)
    BY <1>1, SumProperties
<1> QED BY <1>1, <1>2 DEF Volume, v

LEMMA VolumeMonotone ==
    ASSUME NEW orders \in Seq(Order), NEW K, NEW L, K \subseteq L
    PROVE  Volume(orders, K) <= Volume(orders, L)
<1> DEFINE v == OpenQuantities(orders)
<1>1. v \in Seq(Nat)
    BY OpenQuantitiesType
<1> HIDE DEF v
<1>2. K \cap (1..Len(v)) \subseteq L
    OBVIOUS
<1>3. SumOver(v, K) <= SumOver(v, L)
    BY <1>1, <1>2, SumMonotone
<1> QED BY <1>3 DEF Volume, v

(* The orders that take part are live orders of the queue.                 *)
LEMMA Participants ==
    ASSUME NEW orders \in Seq(Order), NEW at, NEW price
    PROVE  /\ MakersAt(orders, at, price) \subseteq Makers(orders)
           /\ TakersAt(orders, at, price) \subseteq Takers(orders)
           /\ \A i \in Makers(orders) \cup Takers(orders) :
                 i \in 1..Len(orders) /\ Live(orders[i]) /\ orders[i] \in Order
<1>1. DOMAIN orders = 1..Len(orders) /\ \A i \in 1..Len(orders) : orders[i] \in Order
    OBVIOUS
<1> QED BY <1>1 DEF MakersAt, TakersAt, Makers, Takers

LEMMA VolumeAtPriceBounds ==
    ASSUME NEW orders \in Seq(Order), NEW at, NEW price
    PROVE  /\ VolumeAtPrice(orders, at, price) \in Nat
           /\ VolumeAtPrice(orders, at, price) <= Volume(orders, Makers(orders))
           /\ VolumeAtPrice(orders, at, price) <= Volume(orders, Takers(orders))
           /\ VolumeAtPrice(orders, at, price)
                 <= Volume(orders, MakersAt(orders, at, price))
<1>1. /\ Volume(orders, MakersAt(orders, at, price)) <= Volume(orders, Makers(orders))
      /\ Volume(orders, TakersAt(orders, at, price)) <= Volume(orders, Takers(orders))
    BY Participants, VolumeMonotone
<1>2. /\ Volume(orders, MakersAt(orders, at, price)) \in Nat
      /\ Volume(orders, TakersAt(orders, at, price)) \in Nat
      /\ Volume(orders, Makers(orders)) \in Nat
      /\ Volume(orders, Takers(orders)) \in Nat
    BY VolumeType
<1> QED BY <1>1, <1>2 DEF VolumeAtPrice, Least

(* The auction finds a price among those quoted when anything matches, and *)
(* it is one at which the volume is largest.                               *)
LEMMA ClearingPriceIsBest ==
    ASSUME NEW orders \in Seq(Order), NEW at, Matches(orders, at)
    PROVE  /\ ClearingPrice(orders, at) \in BestPrices(orders, at)
           /\ \A q \in BestPrices(orders, at) : ClearingPrice(orders, at) <= q
           /\ ClearingPrice(orders, at) \in U64
           /\ ClearingVolume(orders, at) > 0
<1> DEFINE V(p) == VolumeAtPrice(orders, at, p)
           bound == Volume(orders, Makers(orders))
           volumes == {V(p) : p \in Prices(orders)}
<1>1. bound \in Nat
    BY VolumeType
<1>2. \A p \in Prices(orders) : V(p) \in 0..bound
    BY <1>1, VolumeAtPriceBounds
<1>3. PICK p0 \in Prices(orders) : V(p0) > 0
    BY DEF Matches
<1> HIDE DEF bound
<1>4. volumes \in SUBSET (0..bound) /\ volumes # {}
    BY <1>2, <1>3
<1> HIDE DEF volumes
<1>5. PICK top \in volumes : \A w \in volumes : w <= top
    BY <1>1, <1>4, NatSetMax
<1>6. PICK p1 \in Prices(orders) : top = V(p1)
    BY <1>5 DEF volumes
<1>7. \A q \in Prices(orders) : V(q) \in volumes
    BY DEF volumes
<1>8. \A q \in Prices(orders) : V(q) <= V(p1)
    BY <1>5, <1>6, <1>7
<1> HIDE DEF V
<1>9. p1 \in BestPrices(orders, at)
    BY <1>6, <1>8 DEF BestPrices, V
<1>10. Prices(orders) \subseteq U64
    BY Participants DEF Prices, Order
<1>11. BestPrices(orders, at) \in SUBSET Nat
    BY <1>10 DEF BestPrices, U64
<1>12. \E p \in BestPrices(orders, at) : \A q \in BestPrices(orders, at) : p <= q
    BY <1>9, <1>11, NatSetMin
<1>13. /\ ClearingPrice(orders, at) \in BestPrices(orders, at)
       /\ \A q \in BestPrices(orders, at) : ClearingPrice(orders, at) <= q
    BY <1>12 DEF ClearingPrice
<1>14. ClearingPrice(orders, at) \in U64
    BY <1>10, <1>13 DEF BestPrices
<1>15. V(p0) <= ClearingVolume(orders, at)
    BY <1>3, <1>13 DEF BestPrices, ClearingVolume, V
<1>16. ClearingVolume(orders, at) > 0
    <2>1. V(p0) \in Nat /\ ClearingVolume(orders, at) \in Nat
        BY <1>3, VolumeAtPriceBounds DEF V, ClearingVolume
    <2> QED BY <2>1, <1>3, <1>15
<1> QED BY <1>13, <1>14, <1>16

LEMMA ClearingType ==
    ASSUME NEW orders \in Seq(Order), NEW at
    PROVE  /\ ClearingPrice(orders, at) \in U64
           /\ ClearingVolume(orders, at) \in Nat
           /\ ~ Panics(orders, at) => ClearingVolume(orders, at) \in U64
<1>1. 0 \in U64
    BY WidthAssumption DEF U64
<1>2. CASE ~ Matches(orders, at)
    BY <1>1, <1>2 DEF ClearingPrice, ClearingVolume, U64
<1>3. CASE Matches(orders, at)
    <2>1. ClearingPrice(orders, at) \in U64
        BY <1>3, ClearingPriceIsBest
    <2>2. /\ ClearingVolume(orders, at) \in Nat
          /\ ClearingVolume(orders, at) <= Volume(orders, Makers(orders))
        BY <1>3, VolumeAtPriceBounds DEF ClearingVolume
    <2>3. Volume(orders, Makers(orders)) \in Nat
        BY VolumeType
    <2>4. ~ Panics(orders, at) => Volume(orders, Makers(orders)) <= MaxU64
        BY <1>3, <2>3, WidthAssumption DEF Panics, Matches
    <2> QED BY <2>1, <2>2, <2>3, <2>4, WidthAssumption DEF U64
<1> QED BY <1>2, <1>3

(* What goes to a group of takers is at most what the group asks for.      *)
LEMMA VolumeToFillBounds ==
    ASSUME NEW orders \in Seq(Order), NEW at, NEW price,
           NEW i \in TakersAt(orders, at, price)
    PROVE  /\ LevelVolume(orders, at, price, i) \in Nat
           /\ LevelVolume(orders, at, price, i) > 0
           /\ Open(orders[i]) <= LevelVolume(orders, at, price, i)
           /\ LevelVolume(orders, at, price, i) <= Volume(orders, Takers(orders))
           /\ VolumeToFill(orders, at, price, i) \in Nat
           /\ VolumeToFill(orders, at, price, i) <= LevelVolume(orders, at, price, i)
<1> DEFINE level == SameLevel(orders, TakersAt(orders, at, price), i)
<1>1. i \in 1..Len(orders) /\ Live(orders[i]) /\ orders[i] \in Order
    BY Participants
<1>2. Open(orders[i]) \in Nat /\ Open(orders[i]) > 0
    BY <1>1, OpenBounds
<1>3. i \in level /\ level \subseteq Takers(orders)
    BY Participants DEF SameLevel
<1> HIDE DEF level
<1>4. Volume(orders, level) \in Nat /\ Open(orders[i]) <= Volume(orders, level)
    BY <1>1, <1>3, VolumeType
<1>5. Volume(orders, level) <= Volume(orders, Takers(orders))
    BY <1>3, VolumeMonotone
<1>6. LevelVolume(orders, at, price, i) = Volume(orders, level)
    BY DEF LevelVolume, level
<1>7. LeftForLevel(orders, at, price, i) \in Nat
    BY VolumeAtPriceBounds, VolumeType DEF LeftForLevel, Excess
<1> QED BY <1>2, <1>4, <1>5, <1>6, <1>7 DEF VolumeToFill, Least

(* No order that takes part is filled with more than it has open.          *)
LEMMA FillBounds ==
    ASSUME NEW orders \in Seq(Order), NEW at, NEW price, NEW i \in 1..Len(orders)
    PROVE  /\ Fill(orders, at, price, i) \in Nat
           /\ Live(orders[i]) => Fill(orders, at, price, i) <= Open(orders[i])
           /\ ~ Live(orders[i]) => Fill(orders, at, price, i) = 0
<1>1. Live(orders[i]) => Open(orders[i]) \in Nat /\ Open(orders[i]) > 0
    BY OpenBounds, ElementOfSeq
<1>2. CASE Matches(orders, at) /\ i \in TakersAt(orders, at, price)
    <2>1. Live(orders[i])
        BY <1>2, Participants
    <2>2. /\ LevelVolume(orders, at, price, i) \in Nat
          /\ LevelVolume(orders, at, price, i) > 0
          /\ VolumeToFill(orders, at, price, i) \in Nat
          /\ VolumeToFill(orders, at, price, i) <= LevelVolume(orders, at, price, i)
        BY <1>2, VolumeToFillBounds
    <2>3. /\ TakerFill(orders, at, price, i) \in Nat
          /\ TakerFill(orders, at, price, i) <= Open(orders[i])
        BY <1>1, <2>1, <2>2, ShareBound DEF TakerFill
    <2> QED BY <1>2, <2>1, <2>3 DEF Fill
<1>3. CASE /\ Matches(orders, at) /\ i \notin TakersAt(orders, at, price)
           /\ i \in MakersAt(orders, at, price)
    <2> DEFINE whole == Volume(orders, MakersAt(orders, at, price))
               part == MakerFillVolume(orders, at, price)
    <2>1. Live(orders[i])
        BY <1>3, Participants
    <2>2. whole \in Nat /\ Open(orders[i]) <= whole
        BY <1>3, <2>1, VolumeType
    <2>3. part \in Nat /\ part <= whole
        <3>1. /\ VolumeAtPrice(orders, at, price) \in Nat
              /\ VolumeAtPrice(orders, at, price) <= whole
              /\ Volume(orders, TakersAt(orders, at, price)) \in Nat
            BY VolumeAtPriceBounds, VolumeType
        <3> QED BY <3>1, <2>2 DEF MakerFillVolume, Excess
    <2> HIDE DEF whole, part
    <2>4. /\ (Open(orders[i]) * part) \div whole \in Nat
          /\ (Open(orders[i]) * part) \div whole <= Open(orders[i])
        <3>1. PICK a \in Nat : a = Open(orders[i]) /\ a > 0
            BY <1>1, <2>1
        <3>2. whole > 0
            BY <2>2, <3>1
        <3>3. (a * part) \div whole \in Nat /\ (a * part) \div whole <= a
            BY <2>2, <2>3, <3>2, ShareBound
        <3> QED BY <3>1, <3>3
    <2>5. MakerFill(orders, at, price, i) = (Open(orders[i]) * part) \div whole
        BY DEF MakerFill, whole, part
    <2> QED BY <1>3, <2>1, <2>4, <2>5 DEF Fill
<1>4. CASE \/ ~ Matches(orders, at)
           \/ i \notin TakersAt(orders, at, price) \cup MakersAt(orders, at, price)
    BY <1>1, <1>4 DEF Fill
<1> QED BY <1>2, <1>3, <1>4

(* The order o with more of it filled, but no more than its quantity.      *)
FilledFrom(o) ==
    {t \in Order :
        /\ \E f \in U64 : t = [o EXCEPT !.filled_quantity = f]
        /\ t.filled_quantity >= o.filled_quantity
        /\ t.filled_quantity <= o.quantity \/ t = o}

(* The auction changes nothing of an order but what has been filled of it. *)
LEMMA TradedOrders ==
    ASSUME NEW orders \in Seq(Order), NEW at
    PROVE  /\ Traded(orders, at) \in Seq(Order)
           /\ Len(Traded(orders, at)) = Len(orders)
           /\ \A i \in 1..Len(orders) : Traded(orders, at)[i] \in FilledFrom(orders[i])
<1> DEFINE price == ClearingPrice(orders, at)
           fill(i) == Fill(orders, at, price, i)
           e(i) == [orders[i] EXCEPT !.filled_quantity = @ + fill(i)]
<1>1. ASSUME NEW i \in 1..Len(orders)
      PROVE  e(i) \in Order /\ e(i) \in FilledFrom(orders[i])
    <2>1. orders[i] \in Order
        BY ElementOfSeq
    <2>2. /\ fill(i) \in Nat
          /\ Live(orders[i]) => fill(i) <= Open(orders[i])
          /\ ~ Live(orders[i]) => fill(i) = 0
        BY FillBounds
    <2> HIDE DEF fill
    <2>3. /\ orders[i].filled_quantity \in Nat /\ orders[i].filled_quantity <= MaxU64
          /\ orders[i].quantity \in Nat /\ orders[i].quantity <= MaxU64
          /\ MaxU64 \in Nat
        BY <2>1, WidthAssumption DEF Order, U64
    <2>4. /\ orders[i].filled_quantity + fill(i) \in U64
          /\ \/ orders[i].filled_quantity + fill(i) <= orders[i].quantity
             \/ fill(i) = 0
        BY <2>2, <2>3 DEF Open, U64
    <2>5. /\ e(i) = [orders[i] EXCEPT !.filled_quantity = orders[i].filled_quantity + fill(i)]
          /\ e(i).filled_quantity = orders[i].filled_quantity + fill(i)
          /\ fill(i) = 0 => e(i) = orders[i]
        BY <2>1, <2>2, <2>3 DEF Order
    <2>6. e(i) \in Order
        BY <2>1, <2>4, <2>5 DEF Order
    <2> HIDE DEF e
    <2>7. e(i).filled_quantity >= orders[i].filled_quantity
        BY <2>2, <2>3, <2>5
    <2> QED BY <2>4, <2>5, <2>6, <2>7 DEF FilledFrom
<1>2. Traded(orders, at) = [i \in 1..Len(orders) |-> e(i)]
    BY DEF Traded
<1> HIDE DEF e
<1>3. Len(orders) \in Nat
    OBVIOUS
<1> QED BY <1>1, <1>2, <1>3

(* No overflow in a small book: a product the auction computes is at most  *)
(* the square of what all the takers ask for.                              *)
LEMMA SmallBookDoesNotPanic ==
    ASSUME NEW orders \in Seq(Order), NEW at,
           Volume(orders, Makers(orders)) <= MaxU64,
           Volume(orders, Takers(orders)) * Volume(orders, Takers(orders)) <= MaxU64
    PROVE  ~ Panics(orders, at)
<1> DEFINE asked == Volume(orders, Takers(orders))
           price == ClearingPrice(orders, at)
<1>1. asked \in Nat /\ Volume(orders, Makers(orders)) \in Nat /\ MaxU64 \in Nat
    BY VolumeType, WidthAssumption
<1>2. asked <= asked * asked
    BY <1>1
<1>3. asked <= MaxU64
    <2>1. asked * asked \in Nat
        BY <1>1
    <2> QED BY <1>1, <1>2, <2>1
<1>4. ASSUME NEW i \in TakersAt(orders, at, price)
      PROVE  ~ (Open(orders[i]) * VolumeToFill(orders, at, price, i) > MaxU64)
    <2> DEFINE a == Open(orders[i])
               v == VolumeToFill(orders, at, price, i)
    <2>1. Live(orders[i]) /\ orders[i] \in Order
        BY Participants
    <2>2. a \in Nat
        BY <2>1, OpenBounds
    <2>3. v \in Nat /\ a <= asked /\ v <= asked
        <3>1. /\ LevelVolume(orders, at, price, i) \in Nat
              /\ a <= LevelVolume(orders, at, price, i)
              /\ LevelVolume(orders, at, price, i) <= asked
              /\ v \in Nat
              /\ v <= LevelVolume(orders, at, price, i)
            BY VolumeToFillBounds
        <3> HIDE DEF a, v, asked
        <3> QED BY <3>1, <2>2, <1>1
    <2> HIDE DEF a, v, asked
    <2>4. a * v <= asked * asked
        BY <2>2, <2>3, <1>1, ProductMonotone
    <2>5. asked * asked <= MaxU64
        BY DEF asked
    <2>6. a * v \in Nat /\ asked * asked \in Nat
        BY <1>1, <2>2, <2>3
    <2>7. ~ (a * v > MaxU64)
        BY <1>1, <2>4, <2>5, <2>6
    <2> QED BY <2>7 DEF a, v
<1> HIDE DEF price
<1> QED BY <1>1, <1>3, <1>4 DEF Panics, price

-----------------------------------------------------------------------------
(* The price.                                                              *)

LEMMA VolumeOfNone ==
    ASSUME NEW orders \in Seq(Order)
    PROVE  Volume(orders, {}) = 0
<1>1. PICK v \in Seq(Nat) : v = OpenQuantities(orders)
    BY OpenQuantitiesType
<1>2. PICK K : K = {}
    OBVIOUS
<1>3. \A i \in K \cap (1..Len(v)) : v[i] = 0
    BY <1>2
<1>4. SumOver(v, K) = 0
    BY <1>3, SumZero
<1> QED BY <1>1, <1>2, <1>4 DEF Volume

LEMMA VolumeUnion ==
    ASSUME NEW orders \in Seq(Order), NEW K, NEW L, K \cap L = {}
    PROVE  Volume(orders, K \cup L) = Volume(orders, K) + Volume(orders, L)
<1>1. PICK v \in Seq(Nat) : v = OpenQuantities(orders)
    BY OpenQuantitiesType
<1>2. SumOver(v, K \cup L) = SumOver(v, K) + SumOver(v, L)
    BY SumUnion
<1> QED BY <1>1, <1>2 DEF Volume

(* Where a set of orders of the queue has its lowest and highest price.    *)
LEMMA PriceExtremes ==
    ASSUME NEW orders \in Seq(Order), NEW K, K \subseteq 1..Len(orders), K # {}
    PROVE  /\ \A k \in K : orders[k].price \in Nat
           /\ \E i \in K : \A k \in K : orders[i].price <= orders[k].price
           /\ \E i \in K : \A k \in K : orders[k].price <= orders[i].price
<1> DEFINE prices == {orders[k].price : k \in K}
<1>1. \A k \in K : orders[k].price \in 0..MaxU64
    <2>1. \A k \in K : orders[k] \in Order
        BY ElementOfSeq
    <2> QED BY <2>1 DEF Order, U64
<1>2. MaxU64 \in Nat
    BY WidthAssumption
<1>3. prices \in SUBSET (0..MaxU64) /\ prices # {} /\ prices \in SUBSET Nat
    <2>1. prices \subseteq 0..MaxU64 /\ prices # {}
        BY <1>1
    <2>2. 0..MaxU64 \subseteq Nat
        BY <1>2
    <2> QED BY <2>1, <2>2
<1>4. \A k \in K : orders[k].price \in prices
    OBVIOUS
<1>5. \A p \in prices : \E k \in K : orders[k].price = p
    OBVIOUS
<1> HIDE DEF prices
<1>6. PICK low \in prices : \A p \in prices : low <= p
    BY <1>3, NatSetMin
<1>7. PICK high \in prices : \A p \in prices : p <= high
    BY <1>2, <1>3, NatSetMax
<1>8. PICK i \in K : orders[i].price = low
    BY <1>5, <1>6
<1>9. PICK j \in K : orders[j].price = high
    BY <1>5, <1>7
<1>10. \A k \in K : orders[i].price <= orders[k].price
    BY <1>4, <1>6, <1>8
<1>11. \A k \in K : orders[k].price <= orders[j].price
    BY <1>4, <1>7, <1>9
<1>12. \A k \in K : orders[k].price \in Nat
    BY <1>1, <1>2
<1> QED BY <1>8, <1>9, <1>10, <1>11, <1>12

(* A price at which anything trades can be lowered to one that is quoted:  *)
(* to the dearest seller among those that accept it.  No seller drops out, *)
(* and no buyer refuses a lower price.                                     *)
LEMMA QuotedPriceBelow ==
    ASSUME NEW orders \in Seq(Order), NEW at \in AuctionType, NEW price \in Nat,
           VolumeAtPrice(orders, at, price) > 0
    PROVE  /\ Makers(orders) # {} /\ Takers(orders) # {}
           /\ \E q \in Prices(orders) :
                 /\ q <= price
                 /\ VolumeAtPrice(orders, at, price) <= VolumeAtPrice(orders, at, q)
<1> DEFINE makers(p) == MakersAt(orders, at, p)
           takers(p) == TakersAt(orders, at, p)
           sellers(p) == IF at = "Bid" THEN takers(p) ELSE makers(p)
<1>1. \A p : /\ Volume(orders, makers(p)) \in Nat
             /\ Volume(orders, takers(p)) \in Nat
    BY VolumeType
<1>2. makers(price) # {} /\ takers(price) # {}
    <2>1. /\ Volume(orders, makers(price)) > 0
          /\ Volume(orders, takers(price)) > 0
        BY <1>1 DEF VolumeAtPrice, Least
    <2>2. PICK m, t : m = makers(price) /\ t = takers(price)
        OBVIOUS
    <2> HIDE DEF makers, takers
    <2>3. ~ (Volume(orders, m) = 0) /\ ~ (Volume(orders, t) = 0)
        BY <2>1, <2>2
    <2>4. m # {} /\ t # {}
        BY <2>3, VolumeOfNone
    <2> QED BY <2>2, <2>4
<1>3. \A p : makers(p) \subseteq Makers(orders) /\ takers(p) \subseteq Takers(orders)
    BY Participants
<1>4. Makers(orders) \cup Takers(orders) \subseteq 1..Len(orders)
    BY Participants
<1>5. sellers(price) \subseteq 1..Len(orders) /\ sellers(price) # {}
    <2> HIDE DEF makers, takers
    <2> QED BY <1>2, <1>3, <1>4
<1>6. PICK s \in sellers(price) :
          \A k \in sellers(price) : orders[k].price <= orders[s].price
    <2> HIDE DEF sellers
    <2> QED BY <1>5, PriceExtremes
<1>7. PICK q \in Nat : q = orders[s].price
    <2>1. s \in 1..Len(orders)
        BY <1>5
    <2>2. orders[s] \in Order
        BY <2>1, ElementOfSeq
    <2> QED BY <2>2, WidthAssumption DEF Order, U64
<1>8. \A k \in Makers(orders) \cup Takers(orders) : orders[k].price \in Nat
    <2>1. \A k \in 1..Len(orders) : orders[k] \in Order
        BY ElementOfSeq
    <2> QED BY <1>4, <2>1, WidthAssumption DEF Order, U64
<1>9. q <= price
    BY <1>6, <1>7 DEF AuctionType, MakersAt, TakersAt, MakerAccepts, TakerAccepts
<1>10. makers(price) \subseteq makers(q) /\ takers(price) \subseteq takers(q)
    <2>1. CASE at = "Bid"
        <3>1. \A k \in takers(price) : orders[k].price <= q
            BY <1>6, <1>7, <2>1
        <3>2. takers(price) \subseteq takers(q)
            BY <2>1, <3>1 DEF TakersAt, TakerAccepts
        <3>3. makers(price) \subseteq makers(q)
            BY <1>8, <1>9, <2>1 DEF MakersAt, MakerAccepts
        <3> QED BY <3>2, <3>3
    <2>2. CASE at # "Bid"
        <3>1. \A k \in makers(price) : orders[k].price <= q
            BY <1>6, <1>7, <2>2
        <3>2. makers(price) \subseteq makers(q)
            BY <2>2, <3>1 DEF MakersAt, MakerAccepts
        <3>3. takers(price) \subseteq takers(q)
            BY <1>8, <1>9, <2>2 DEF TakersAt, TakerAccepts
        <3> QED BY <3>2, <3>3
    <2> QED BY <2>1, <2>2
<1>11. q \in Prices(orders)
    <2>1. s \in Makers(orders) \cup Takers(orders)
        <3> HIDE DEF makers, takers
        <3> QED BY <1>3
    <2> QED BY <1>7, <2>1 DEF Prices
<1>12. VolumeAtPrice(orders, at, price) <= VolumeAtPrice(orders, at, q)
    <2> HIDE DEF makers, takers
    <2>1. /\ Volume(orders, makers(price)) <= Volume(orders, makers(q))
          /\ Volume(orders, takers(price)) <= Volume(orders, takers(q))
        BY <1>10, VolumeMonotone
    <2>2. \A p : VolumeAtPrice(orders, at, p)
                    = Least(Volume(orders, makers(p)), Volume(orders, takers(p)))
        BY DEF VolumeAtPrice, makers, takers
    <2> QED BY <1>1, <2>1, <2>2 DEF Least
<1>13. Makers(orders) # {} /\ Takers(orders) # {}
    <2> HIDE DEF makers, takers
    <2> QED BY <1>2, <1>3
<1> QED BY <1>9, <1>11, <1>12, <1>13

(* The price found among the quoted ones is the lowest of all the prices   *)
(* at which the volume is largest.                                         *)
LEMMA ClearingPriceIsOptimal ==
    ASSUME NEW orders \in Seq(Order), NEW at \in AuctionType, NEW price \in Nat
    PROVE  /\ VolumeAtPrice(orders, at, price) <= ClearingVolume(orders, at)
           /\ price < ClearingPrice(orders, at)
                 => VolumeAtPrice(orders, at, price) < ClearingVolume(orders, at)
<1> DEFINE V(p) == VolumeAtPrice(orders, at, p)
           best == ClearingPrice(orders, at)
<1>1. \A p : V(p) \in Nat
    BY VolumeAtPriceBounds
<1>2. best \in Nat /\ ClearingVolume(orders, at) \in Nat
    BY ClearingType, WidthAssumption DEF U64
<1>3. CASE V(price) = 0
    <2>1. ASSUME price < best PROVE ClearingVolume(orders, at) > 0
        <3>1. Matches(orders, at)
            BY <1>2, <2>1 DEF ClearingPrice
        <3> QED BY <3>1, ClearingPriceIsBest
    <2> QED BY <1>2, <1>3, <2>1
<1>4. CASE V(price) > 0
    <2>1. /\ Makers(orders) # {} /\ Takers(orders) # {}
          /\ \E q \in Prices(orders) : q <= price /\ V(price) <= V(q)
        BY <1>4, QuotedPriceBelow
    <2>2. PICK q \in Prices(orders) : q <= price /\ V(price) <= V(q)
        BY <2>1
    <2>3. q \in Nat
        <3>1. Prices(orders) \subseteq U64
            BY Participants DEF Prices, Order
        <3> QED BY <3>1, WidthAssumption DEF U64
    <2>4. V(q) > 0
        <3>1. V(q) \in Nat /\ V(price) \in Nat
            BY <1>1
        <3> HIDE DEF V
        <3> QED BY <1>4, <2>2, <3>1
    <2>5. Matches(orders, at)
        BY <2>1, <2>2, <2>4 DEF Matches
    <2>6. /\ best \in BestPrices(orders, at)
          /\ \A p \in BestPrices(orders, at) : best <= p
        BY <2>5, ClearingPriceIsBest
    <2>7. ClearingVolume(orders, at) = V(best)
        BY <2>5 DEF ClearingVolume
    <2>8. \A p \in Prices(orders) : V(p) <= V(best)
        BY <2>6 DEF BestPrices
    <2>9. q \in BestPrices(orders, at) \/ V(q) # V(best)
        BY <2>2, <2>8 DEF BestPrices
    <2>10. V(q) <= V(best) /\ (V(q) = V(best) => best <= q)
        BY <2>2, <2>6, <2>8, <2>9
    <2>11. V(q) \in Nat /\ V(price) \in Nat /\ V(best) \in Nat
        BY <1>1
    <2>12. V(price) <= V(best) /\ (price < best => V(price) < V(best))
        <3> HIDE DEF V, best
        <3> QED BY <1>2, <2>2, <2>3, <2>10, <2>11
    <2> QED BY <2>7, <2>12
<1>5. V(price) = 0 \/ V(price) > 0
    <2>1. V(price) \in Nat
        BY <1>1
    <2> HIDE DEF V
    <2> QED BY <2>1
<1> QED BY <1>3, <1>4, <1>5

-----------------------------------------------------------------------------
(* The fills of the takers.                                                *)

(* A level of takers to whom nothing is left receives nothing, and one to  *)
(* whom enough is left receives what it asks for.                          *)
LEMMA LevelFill ==
    ASSUME NEW orders \in Seq(Order), NEW at, NEW price,
           NEW i \in TakersAt(orders, at, price)
    PROVE  /\ LeftForLevel(orders, at, price, i) = 0
                 => TakerFill(orders, at, price, i) = 0
           /\ LeftForLevel(orders, at, price, i) >= LevelVolume(orders, at, price, i)
                 => TakerFill(orders, at, price, i) = Open(orders[i])
<1> DEFINE left == LeftForLevel(orders, at, price, i)
           level == LevelVolume(orders, at, price, i)
           part == VolumeToFill(orders, at, price, i)
           a == Open(orders[i])
<1>1. Live(orders[i]) /\ orders[i] \in Order
    BY Participants
<1>2. a \in Nat
    BY <1>1, OpenBounds
<1>3. level \in Nat /\ level > 0
    BY VolumeToFillBounds
<1>4. left \in Nat
    BY VolumeAtPriceBounds, VolumeType DEF LeftForLevel, Excess
<1>5. part = Least(level, left) /\ TakerFill(orders, at, price, i) = (a * part) \div level
    BY DEF VolumeToFill, TakerFill
<1> HIDE DEF left, level, part, a
<1>6. ASSUME left = 0 PROVE (a * part) \div level = 0
    <2>1. part = 0
        BY <1>3, <1>5, <1>6 DEF Least
    <2>2. a * part = 0 /\ 0 \div level = 0
        BY <1>2, <1>3, <2>1
    <2> QED BY <2>2
<1>7. ASSUME left >= level PROVE (a * part) \div level = a
    <2>1. part = level
        BY <1>3, <1>4, <1>5, <1>7 DEF Least
    <2>2. PICK x \in Nat, q \in Nat : x = a * level /\ q = x \div level
        BY <1>2, <1>3, FloorBounds
    <2>3. level * q <= x /\ x < level * q + level
        BY <1>3, <2>2, FloorBounds
    <2>4. ~ (q < a)
        <3>1. SUFFICES ASSUME q + 1 <= a PROVE FALSE
            BY <1>2
        <3>2. level * (q + 1) <= level * a
            BY <1>2, <1>3, <3>1
        <3>3. level * (q + 1) = level * q + level /\ level * a = a * level
            BY <1>2, <1>3
        <3>4. PICK y \in Nat : y = level * q
            BY <1>3
        <3>5. y + level <= x
            BY <2>2, <3>2, <3>3, <3>4
        <3> QED BY <1>3, <2>3, <3>4, <3>5
    <2>5. ~ (a < q)
        <3>1. SUFFICES ASSUME a + 1 <= q PROVE FALSE
            BY <1>2
        <3>2. level * (a + 1) <= level * q
            BY <1>2, <1>3, <3>1
        <3>3. level * (a + 1) = a * level + level
            BY <1>2, <1>3
        <3>4. level * q \in Nat
            BY <1>3
        <3> QED BY <1>3, <2>2, <2>3, <3>2, <3>3, <3>4
    <2>6. q = a
        BY <1>2, <2>4, <2>5
    <2> QED BY <2>1, <2>2, <2>6
<1> QED BY <1>5, <1>6, <1>7 DEF left, level, a

(* The levels ahead of a taker, and their order.                           *)
LEMMA LevelsAreOrdered ==
    ASSUME NEW orders \in Seq(Order), NEW at \in AuctionType, NEW price,
           NEW i \in TakersAt(orders, at, price)
    PROVE  /\ i \in 1..Len(orders) /\ orders[i].price \in Nat
           /\ LET T == TakersAt(orders, at, price)
                  ahead == Ahead(orders, at, T, i)
                  level == SameLevel(orders, T, i)
              IN  /\ ahead \cap level = {} /\ ahead \cup level \subseteq T
                  /\ i \in level
                  /\ \A j \in T : \/ j \in ahead
                                  \/ j \in level
                                  \/ Outbids(at, orders[i].price, orders[j].price)
                  /\ \A j \in ahead :
                        /\ j \in T
                        /\ Outbids(at, orders[j].price, orders[i].price)
                        /\ Ahead(orders, at, T, j) \cup SameLevel(orders, T, j)
                              \subseteq ahead
<1> DEFINE T == TakersAt(orders, at, price)
<1>1. \A j \in T : j \in 1..Len(orders) /\ orders[j] \in Order
    BY Participants
<1>2. \A j \in T : orders[j].price \in Nat
    BY <1>1, WidthAssumption DEF Order, U64
<1>3. i \in T
    OBVIOUS
<1> HIDE DEF T
<1>4. /\ Ahead(orders, at, T, i) \cap SameLevel(orders, T, i) = {}
      /\ Ahead(orders, at, T, i) \cup SameLevel(orders, T, i) \subseteq T
      /\ i \in SameLevel(orders, T, i)
    BY <1>2, <1>3 DEF Ahead, SameLevel, Outbids
<1>5. \A j \in T : \/ j \in Ahead(orders, at, T, i)
                   \/ j \in SameLevel(orders, T, i)
                   \/ Outbids(at, orders[i].price, orders[j].price)
    BY <1>2, <1>3 DEF Ahead, SameLevel, Outbids
<1>6. \A j \in Ahead(orders, at, T, i) :
         /\ j \in T
         /\ Outbids(at, orders[j].price, orders[i].price)
         /\ Ahead(orders, at, T, j) \cup SameLevel(orders, T, j)
               \subseteq Ahead(orders, at, T, i)
    BY <1>2, <1>3 DEF Ahead, SameLevel, Outbids
<1> QED BY <1>1, <1>2, <1>3, <1>4, <1>5, <1>6 DEF T

(* A level comes to its turn only when those ahead of it have all they ask *)
(* for.                                                                    *)
LEMMA LevelsAheadAreFilled ==
    ASSUME NEW orders \in Seq(Order), NEW at \in AuctionType, NEW price,
           NEW i \in TakersAt(orders, at, price),
           LeftForLevel(orders, at, price, i) > 0,
           NEW j \in Ahead(orders, at, TakersAt(orders, at, price), i)
    PROVE  TakerFill(orders, at, price, j) = Open(orders[j])
<1> DEFINE T == TakersAt(orders, at, price)
           total == VolumeAtPrice(orders, at, price)
           ahead == Ahead(orders, at, T, i)
           aheadOfJ == Ahead(orders, at, T, j)
           levelOfJ == SameLevel(orders, T, j)
<1>1. j \in T /\ aheadOfJ \cup levelOfJ \subseteq ahead
    BY LevelsAreOrdered
<1>2. aheadOfJ \cap levelOfJ = {}
    BY <1>1, LevelsAreOrdered
<1> HIDE DEF ahead, aheadOfJ, levelOfJ
<1>3. /\ Volume(orders, aheadOfJ) + Volume(orders, levelOfJ) <= Volume(orders, ahead)
      /\ Volume(orders, aheadOfJ) \in Nat /\ Volume(orders, levelOfJ) \in Nat
      /\ Volume(orders, ahead) \in Nat
    <2>1. PICK both : both = aheadOfJ \cup levelOfJ
        OBVIOUS
    <2>2. Volume(orders, both) = Volume(orders, aheadOfJ) + Volume(orders, levelOfJ)
        BY <1>2, <2>1, VolumeUnion
    <2>3. both \subseteq ahead
        BY <1>1, <2>1
    <2>4. Volume(orders, both) <= Volume(orders, ahead)
        BY <2>3, VolumeMonotone
    <2> QED BY <2>2, <2>4, VolumeType
<1>4. total \in Nat
    BY VolumeAtPriceBounds
<1>5. total > Volume(orders, ahead)
    BY <1>3, <1>4 DEF LeftForLevel, Excess, ahead
<1>6. /\ LeftForLevel(orders, at, price, j) = Excess(total, Volume(orders, aheadOfJ))
      /\ LevelVolume(orders, at, price, j) = Volume(orders, levelOfJ)
    BY DEF LeftForLevel, LevelVolume, aheadOfJ, levelOfJ
<1> HIDE DEF total
<1>7. LeftForLevel(orders, at, price, j) >= LevelVolume(orders, at, price, j)
    BY <1>3, <1>4, <1>5, <1>6 DEF Excess
<1> QED BY <1>1, <1>7, LevelFill

(* What the makers and takers of a queue receive.                          *)
LEMMA TakersFill ==
    ASSUME NEW orders \in Seq(Order), NEW at, NEW price, NEW i \in Takers(orders)
    PROVE  Fill(orders, at, price, i) =
              IF Matches(orders, at) /\ i \in TakersAt(orders, at, price)
              THEN TakerFill(orders, at, price, i) ELSE 0
<1>1. i \notin MakersAt(orders, at, price)
    BY DEF MakersAt, Makers, Takers
<1> QED BY <1>1 DEF Fill

(* Makers share what the takers have left of a volume that never exceeds   *)
(* what the takers ask for: nothing.                                       *)
LEMMA MakersAreNotFilled ==
    ASSUME NEW orders \in Seq(Order), NEW at, NEW price, NEW i \in Makers(orders)
    PROVE  Fill(orders, at, price, i) = 0
<1>1. i \notin TakersAt(orders, at, price)
    BY DEF TakersAt, Makers, Takers
<1>2. CASE i \notin MakersAt(orders, at, price)
    BY <1>1, <1>2 DEF Fill
<1>3. CASE i \in MakersAt(orders, at, price)
    <2> DEFINE whole == Volume(orders, MakersAt(orders, at, price))
               total == VolumeAtPrice(orders, at, price)
               asked == Volume(orders, TakersAt(orders, at, price))
    <2>1. Live(orders[i]) /\ orders[i] \in Order /\ i \in 1..Len(orders)
        BY Participants
    <2>2. Open(orders[i]) \in Nat /\ Open(orders[i]) > 0
        BY <2>1, OpenBounds
    <2>3. whole \in Nat /\ Open(orders[i]) <= whole
        BY <1>3, <2>1, VolumeType
    <2>4. asked \in Nat /\ total \in Nat
        BY VolumeType, VolumeAtPriceBounds
    <2>5. total = Least(whole, asked)
        BY DEF VolumeAtPrice
    <2>6. MakerFillVolume(orders, at, price) = total - (total - Excess(total, asked))
        BY DEF MakerFillVolume
    <2> HIDE DEF whole, total, asked
    <2>7. MakerFillVolume(orders, at, price) = 0
        BY <2>3, <2>4, <2>5, <2>6 DEF Least, Excess
    <2>8. MakerFill(orders, at, price, i) = (Open(orders[i]) * 0) \div whole
        BY <2>7 DEF MakerFill, whole
    <2>9. Open(orders[i]) * 0 = 0 /\ 0 \div whole = 0
        BY <2>2, <2>3
    <2> QED BY <1>1, <1>3, <2>8, <2>9 DEF Fill
<1> QED BY <1>2, <1>3

(* A taker that receives anything accepts the price, and every taker with  *)
(* a better price has received all it asked for.                           *)
LEMMA TakersFillInPriceOrder ==
    ASSUME NEW orders \in Seq(Order), NEW at \in AuctionType, NEW price \in Nat,
           NEW i \in Takers(orders), Fill(orders, at, price, i) > 0
    PROVE  /\ TakerAccepts(orders[i], at, price)
           /\ \A j \in Takers(orders) :
                 Outbids(at, orders[j].price, orders[i].price)
                    => Fill(orders, at, price, j) = Open(orders[j])
<1> DEFINE T == TakersAt(orders, at, price)
<1>1. Matches(orders, at) /\ i \in T /\ TakerFill(orders, at, price, i) > 0
    BY TakersFill
<1>2. TakerAccepts(orders[i], at, price)
    BY <1>1 DEF TakersAt
<1>3. LeftForLevel(orders, at, price, i) > 0
    <2>1. LeftForLevel(orders, at, price, i) \in Nat
        BY VolumeAtPriceBounds, VolumeType DEF LeftForLevel, Excess
    <2>2. LeftForLevel(orders, at, price, i) # 0
        BY <1>1, LevelFill
    <2> QED BY <2>1, <2>2
<1>4. ASSUME NEW j \in Takers(orders), Outbids(at, orders[j].price, orders[i].price)
      PROVE  Fill(orders, at, price, j) = Open(orders[j])
    <2>1. orders[i].price \in Nat /\ orders[j].price \in Nat
        <3>1. orders[i] \in Order /\ orders[j] \in Order
            BY Participants
        <3>2. orders[i].price \in 0..MaxU64 /\ orders[j].price \in 0..MaxU64
            BY <3>1 DEF Order, U64
        <3> QED BY <3>2, WidthAssumption
    <2>2. TakerAccepts(orders[j], at, price)
        BY <1>2, <1>4, <2>1 DEF TakerAccepts, Outbids
    <2>3. j \in T
        BY <2>2 DEF TakersAt
    <2>4. j \in Ahead(orders, at, T, i)
        BY <1>4, <2>3 DEF Ahead
    <2>5. TakerFill(orders, at, price, j) = Open(orders[j])
        BY <1>1, <1>3, <2>4, LevelsAheadAreFilled
    <2> QED BY <1>1, <2>3, <2>5, TakersFill
<1> QED BY <1>2, <1>4

(* Shares of one part in proportion to a and b, rounded down, differ from  *)
(* that proportion by less than one unit.                                  *)
LEMMA SharesAlike ==
    ASSUME NEW a \in Nat, NEW b \in Nat, a > 0, NEW part \in Nat,
           NEW whole \in Nat, whole > 0
    PROVE  ((a * part) \div whole) * b < ((b * part) \div whole + 1) * a
<1>1. PICK x \in Nat, y \in Nat : x = a * part /\ y = b * part
    OBVIOUS
<1>2. PICK q \in Nat, r \in Nat : q = x \div whole /\ r = y \div whole
    BY FloorBounds
<1>3. whole * q <= x /\ y < whole * (r + 1)
    <2>1. whole * q <= x /\ y < whole * r + whole
        BY <1>2, FloorBounds
    <2>2. whole * (r + 1) = whole * r + whole
        OBVIOUS
    <2> QED BY <2>1, <2>2
<1>4. x * b = y * a
    BY <1>1
<1>5. (whole * q) * b <= x * b
    <2>1. PICK u \in Nat : u = whole * q
        OBVIOUS
    <2>2. u * b <= x * b
        BY <1>3, <2>1
    <2> QED BY <2>1, <2>2
<1>6. y * a < (whole * (r + 1)) * a
    <2>1. PICK u \in Nat : u = whole * (r + 1)
        OBVIOUS
    <2>2. y + 1 <= u
        BY <1>3, <2>1
    <2>3. (y + 1) * a <= u * a
        BY <2>2
    <2>4. (y + 1) * a = y * a + a /\ y * a \in Nat /\ u * a \in Nat
        OBVIOUS
    <2>5. y * a < u * a
        BY <2>3, <2>4
    <2> QED BY <2>1, <2>5
<1>7. PICK g \in Nat, h \in Nat : g = q * b /\ h = (r + 1) * a
    OBVIOUS
<1>8. (whole * q) * b = whole * g /\ (whole * (r + 1)) * a = whole * h
    BY <1>7
<1>9. whole * g < whole * h
    <2>1. (whole * q) * b \in Nat /\ x * b \in Nat /\ y * a \in Nat
          /\ (whole * (r + 1)) * a \in Nat
        OBVIOUS
    <2> QED BY <1>4, <1>5, <1>6, <1>8, <2>1
<1>10. g < h
    <2>1. SUFFICES ASSUME h <= g PROVE FALSE
        OBVIOUS
    <2>2. whole * h <= whole * g
        BY <2>1
    <2>3. whole * h \in Nat /\ whole * g \in Nat
        OBVIOUS
    <2> QED BY <1>9, <2>2, <2>3
<1> QED BY <1>1, <1>2, <1>7, <1>10

(* Takers of one price share what comes to their level in proportion.      *)
LEMMA TakersOfAPriceShareAlike ==
    ASSUME NEW orders \in Seq(Order), NEW at, NEW price,
           NEW i \in Takers(orders), NEW j \in Takers(orders),
           orders[i].price = orders[j].price
    PROVE  Fill(orders, at, price, i) * Open(orders[j])
              < (Fill(orders, at, price, j) + 1) * Open(orders[i])
<1> DEFINE T == TakersAt(orders, at, price)
<1>1. /\ Open(orders[i]) \in Nat /\ Open(orders[i]) > 0
      /\ Open(orders[j]) \in Nat /\ Open(orders[j]) > 0
    BY Participants, OpenBounds
<1>2. i \in T <=> j \in T
    BY DEF TakersAt, TakerAccepts
<1>3. CASE Matches(orders, at) /\ i \in T
    <2>1. /\ SameLevel(orders, T, i) = SameLevel(orders, T, j)
          /\ Ahead(orders, at, T, i) = Ahead(orders, at, T, j)
        BY DEF SameLevel, Ahead
    <2>2. /\ VolumeToFill(orders, at, price, i) = VolumeToFill(orders, at, price, j)
          /\ LevelVolume(orders, at, price, i) = LevelVolume(orders, at, price, j)
        BY <2>1 DEF VolumeToFill, LevelVolume, LeftForLevel
    <2>3. PICK part \in Nat, whole \in Nat :
              /\ part = VolumeToFill(orders, at, price, i)
              /\ whole = LevelVolume(orders, at, price, i)
              /\ whole > 0
        BY <1>3, VolumeToFillBounds
    <2>4. /\ Fill(orders, at, price, i) = (Open(orders[i]) * part) \div whole
          /\ Fill(orders, at, price, j) = (Open(orders[j]) * part) \div whole
        BY <1>2, <1>3, <2>2, <2>3, TakersFill DEF TakerFill
    <2>5. PICK a \in Nat, b \in Nat : a = Open(orders[i]) /\ b = Open(orders[j]) /\ a > 0
        BY <1>1
    <2>6. ((a * part) \div whole) * b < ((b * part) \div whole + 1) * a
        BY <2>3, <2>5, SharesAlike
    <2> QED BY <2>4, <2>5, <2>6
<1>4. CASE ~ (Matches(orders, at) /\ i \in T)
    <2>1. Fill(orders, at, price, i) = 0 /\ Fill(orders, at, price, j) = 0
        BY <1>2, <1>4, TakersFill
    <2> QED BY <1>1, <2>1
<1> QED BY <1>3, <1>4

(* What every order of a queue receives from its auction.                  *)
Fills(orders, at) ==
    [i \in 1..Len(orders) |-> Fill(orders, at, ClearingPrice(orders, at), i)]

LEMMA FillsType ==
    ASSUME NEW orders \in Seq(Order), NEW at
    PROVE  /\ Fills(orders, at) \in Seq(Nat)
           /\ Len(Fills(orders, at)) = Len(orders)
           /\ \A i \in 1..Len(orders) :
                 Fills(orders, at)[i] = Fill(orders, at, ClearingPrice(orders, at), i)
<1> DEFINE e(i) == Fill(orders, at, ClearingPrice(orders, at), i)
<1>1. \A i \in 1..Len(orders) : e(i) \in Nat
    BY FillBounds
<1>2. Len(orders) \in Nat
    OBVIOUS
<1>3. Fills(orders, at) = [i \in 1..Len(orders) |-> e(i)]
    BY DEF Fills
<1> HIDE DEF e
<1>4. /\ Fills(orders, at) \in Seq(Nat)
      /\ Len(Fills(orders, at)) = Len(orders)
      /\ \A i \in 1..Len(orders) : Fills(orders, at)[i] = e(i)
    BY <1>1, <1>2, <1>3
<1> QED BY <1>4 DEF e

(* The level at which the volume runs out: whoever is ahead of it gets all *)
(* it asks for, whoever is behind gets nothing, and what the levels ahead  *)
(* leave is no more than this level asks for.                              *)
LEMMA MarginalLevel ==
    ASSUME NEW orders \in Seq(Order), NEW at \in AuctionType, NEW price,
           VolumeAtPrice(orders, at, price) > 0
    PROVE  \E m \in TakersAt(orders, at, price) :
              /\ LeftForLevel(orders, at, price, m) > 0
              /\ LeftForLevel(orders, at, price, m) <= LevelVolume(orders, at, price, m)
              /\ \A j \in TakersAt(orders, at, price) :
                    Outbids(at, orders[m].price, orders[j].price)
                       => TakerFill(orders, at, price, j) = 0
<1> DEFINE T == TakersAt(orders, at, price)
           total == VolumeAtPrice(orders, at, price)
           Left(i) == LeftForLevel(orders, at, price, i)
           served == {i \in T : Left(i) > 0}
<1>1. T \subseteq 1..Len(orders)
    BY Participants
<1>2. /\ total \in Nat /\ Volume(orders, T) \in Nat /\ total <= Volume(orders, T)
      /\ \A i : Left(i) \in Nat
    BY VolumeAtPriceBounds, VolumeType DEF LeftForLevel, Excess, VolumeAtPrice, Least
<1>3. \A i \in T : orders[i].price \in Nat
    BY LevelsAreOrdered
<1>4. \A i \in T : Left(i) = Excess(total, Volume(orders, Ahead(orders, at, T, i)))
    BY DEF LeftForLevel
(* The first and the last of any of the takers.                            *)
<1>5. ASSUME NEW K, K \subseteq T, K # {}
      PROVE  /\ \E i \in K : \A k \in K : ~ Outbids(at, orders[k].price, orders[i].price)
             /\ \E i \in K : \A k \in K : ~ Outbids(at, orders[i].price, orders[k].price)
    <2> HIDE DEF T
    <2>1. K \subseteq 1..Len(orders)
        BY <1>1, <1>5
    <2>2. PICK low \in K : \A k \in K : orders[low].price <= orders[k].price
        BY <1>5, <2>1, PriceExtremes
    <2>3. PICK high \in K : \A k \in K : orders[k].price <= orders[high].price
        BY <1>5, <2>1, PriceExtremes
    <2>4. \A k \in K : orders[k].price \in Nat
        BY <1>3, <1>5
    <2>5. CASE at = "Bid"
        <3>1. \A k \in K : ~ Outbids(at, orders[k].price, orders[low].price)
            BY <2>2, <2>4, <2>5 DEF Outbids
        <3>2. \A k \in K : ~ Outbids(at, orders[high].price, orders[k].price)
            BY <2>3, <2>4, <2>5 DEF Outbids
        <3> QED BY <3>1, <3>2
    <2>6. CASE at # "Bid"
        <3>1. \A k \in K : ~ Outbids(at, orders[k].price, orders[high].price)
            BY <2>3, <2>4, <2>6 DEF Outbids
        <3>2. \A k \in K : ~ Outbids(at, orders[low].price, orders[k].price)
            BY <2>2, <2>4, <2>6 DEF Outbids
        <3> QED BY <3>1, <3>2
    <2> QED BY <2>5, <2>6
<1>6. served # {}
    <2>1. T # {}
        <3>1. PICK K : K = T
            OBVIOUS
        <3>2. ~ (Volume(orders, K) = 0)
            BY <1>2, <3>1
        <3> QED BY <3>1, <3>2, VolumeOfNone
    <2>2. PICK K : K = T
        OBVIOUS
    <2>3. K \subseteq T /\ K # {}
        BY <2>1, <2>2
    <2>4. PICK i \in K : \A k \in K : ~ Outbids(at, orders[k].price, orders[i].price)
        BY <1>5, <2>3
    <2>5. Ahead(orders, at, T, i) = {} /\ i \in T
        BY <2>2, <2>4 DEF Ahead
    <2>6. Volume(orders, Ahead(orders, at, T, i)) = 0
        BY <2>5, VolumeOfNone
    <2>7. Left(i) = total
        <3>1. Left(i) = Excess(total, 0)
            BY <1>4, <2>5, <2>6
        <3> HIDE DEF Left, total
        <3> QED BY <1>2, <3>1 DEF Excess
    <2> QED BY <2>5, <2>7
<1>7. PICK m \in served :
          \A k \in served : ~ Outbids(at, orders[m].price, orders[k].price)
    <2>1. served \subseteq T
        OBVIOUS
    <2> HIDE DEF served, T
    <2> QED BY <1>5, <1>6, <2>1
<1> DEFINE ahead == Ahead(orders, at, T, m)
           level == SameLevel(orders, T, m)
<1>8. /\ m \in T /\ Left(m) > 0
      /\ \A j \in T : Outbids(at, orders[m].price, orders[j].price) => Left(j) = 0
    <2>1. m \in T /\ Left(m) > 0
        OBVIOUS
    <2>2. ASSUME NEW j \in T, Outbids(at, orders[m].price, orders[j].price)
          PROVE  Left(j) = 0
        <3>1. ~ (Left(j) > 0)
            BY <1>7, <2>2
        <3>2. Left(j) \in Nat
            BY <1>2
        <3> HIDE DEF Left
        <3> QED BY <3>1, <3>2
    <2> QED BY <2>1, <2>2
<1>9. /\ ahead \cap level = {} /\ ahead \cup level \subseteq T
      /\ \A j \in T : \/ j \in ahead \/ j \in level
                      \/ Outbids(at, orders[m].price, orders[j].price)
    BY <1>8, LevelsAreOrdered
<1>10. LevelVolume(orders, at, price, m) = Volume(orders, level)
    BY DEF LevelVolume
<1>11. PICK both : both = ahead \cup level
    OBVIOUS
<1>12. /\ Volume(orders, ahead) \in Nat /\ Volume(orders, level) \in Nat
       /\ Volume(orders, both) = Volume(orders, ahead) + Volume(orders, level)
    <2> HIDE DEF ahead, level
    <2> QED BY <1>9, <1>11, VolumeUnion, VolumeType
<1>13. Left(m) = Excess(total, Volume(orders, ahead))
    BY <1>8, <1>4
<1>14. Left(m) <= Volume(orders, level)
    <2>1. SUFFICES ASSUME ~ (Left(m) <= Volume(orders, level)) PROVE FALSE
        OBVIOUS
    <2>2. Volume(orders, both) < total
        <3> HIDE DEF Left, total, ahead, level
        <3> QED BY <1>2, <1>12, <1>13, <2>1 DEF Excess
    <2>3. PICK behind : behind = T \ both
        OBVIOUS
    <2>4. behind # {}
        <3>1. SUFFICES ASSUME behind = {} PROVE FALSE
            OBVIOUS
        <3>2. T = both
            <4> HIDE DEF T, ahead, level
            <4> QED BY <1>9, <1>11, <2>3, <3>1
        <3>3. Volume(orders, T) = Volume(orders, both)
            BY <3>2
        <3>4. Volume(orders, both) \in Nat
            BY <3>3, <1>2
        <3> HIDE DEF T, total
        <3> QED BY <1>2, <2>2, <3>3, <3>4
    <2>5. PICK k \in behind :
              \A j \in behind : ~ Outbids(at, orders[j].price, orders[k].price)
        <3>1. behind \subseteq T
            BY <2>3
        <3> QED BY <1>5, <2>4, <3>1
    <2>6. k \in T /\ Outbids(at, orders[m].price, orders[k].price)
        BY <1>9, <1>11, <2>3, <2>5
    <2>7. Ahead(orders, at, T, k) \subseteq both
        BY <2>3, <2>5 DEF Ahead
    <2>8. Volume(orders, Ahead(orders, at, T, k)) <= Volume(orders, both)
        BY <2>7, VolumeMonotone
    <2>9. Volume(orders, Ahead(orders, at, T, k)) \in Nat /\ Volume(orders, both) \in Nat
        BY VolumeType
    <2>10. Left(k) > 0
        <3>1. Left(k) = Excess(total, Volume(orders, Ahead(orders, at, T, k)))
            BY <1>4, <2>6
        <3> HIDE DEF Left, total, T
        <3> QED BY <1>2, <2>2, <2>8, <2>9, <3>1 DEF Excess
    <2> QED BY <1>8, <2>6, <2>10
<1>15. ASSUME NEW j \in T, Outbids(at, orders[m].price, orders[j].price)
       PROVE  TakerFill(orders, at, price, j) = 0
    <2>1. Left(j) = 0
        BY <1>8, <1>15
    <2> QED BY <2>1, LevelFill
<1> QED BY <1>8, <1>10, <1>14, <1>15

(* The takers together receive the volume the auction reports, but for     *)
(* less than one unit for each taker of the marginal level.                *)
LEMMA TakersShortfall ==
    ASSUME NEW orders \in Seq(Order), NEW at \in AuctionType
    PROVE  LET T == TakersAt(orders, at, ClearingPrice(orders, at))
               received == SumOver(Fills(orders, at), Takers(orders))
           IN  /\ received \in Nat
               /\ received <= ClearingVolume(orders, at)
               /\ \/ received = ClearingVolume(orders, at)
                  \/ \E m \in T : ClearingVolume(orders, at) - received
                                     < Cardinality(SameLevel(orders, T, m))
<1> DEFINE price == ClearingPrice(orders, at)
           T == TakersAt(orders, at, price)
           total == ClearingVolume(orders, at)
<1>1. PICK fills \in Seq(Nat) : fills = Fills(orders, at)
    BY FillsType
<1>2. /\ Len(fills) = Len(orders)
      /\ \A i \in Takers(orders) : i \in 1..Len(fills)
      /\ \A i \in Takers(orders) :
            fills[i] = IF Matches(orders, at) /\ i \in T
                       THEN TakerFill(orders, at, price, i) ELSE 0
    <2>1. /\ Len(fills) = Len(orders)
          /\ \A i \in 1..Len(orders) : fills[i] = Fill(orders, at, price, i)
        BY <1>1, FillsType
    <2>2. \A i \in Takers(orders) : i \in 1..Len(orders)
        BY Participants
    <2>3. \A i \in Takers(orders) : fills[i] = Fill(orders, at, price, i)
        BY <2>1, <2>2
    <2> QED BY <2>1, <2>2, <2>3, TakersFill
<1>3. SumOver(fills, Takers(orders)) \in Nat
    BY SumProperties
<1>4. CASE ~ Matches(orders, at)
    <2>1. total = 0
        BY <1>4 DEF ClearingVolume
    <2>2. \A i \in Takers(orders) \cap (1..Len(fills)) : fills[i] = 0
        BY <1>2, <1>4
    <2>3. SumOver(fills, Takers(orders)) = 0
        BY <2>2, SumZero
    <2> QED BY <1>1, <2>1, <2>3
<1>5. CASE Matches(orders, at)
    <2>1. total = VolumeAtPrice(orders, at, price) /\ total > 0
        BY <1>5, ClearingPriceIsBest DEF ClearingVolume
    <2>2. PICK m \in T :
              /\ LeftForLevel(orders, at, price, m) > 0
              /\ LeftForLevel(orders, at, price, m) <= LevelVolume(orders, at, price, m)
              /\ \A j \in T : Outbids(at, orders[m].price, orders[j].price)
                                 => TakerFill(orders, at, price, j) = 0
        BY <2>1, MarginalLevel
    <2>3. PICK ahead, level : /\ ahead = Ahead(orders, at, T, m)
                              /\ level = SameLevel(orders, T, m)
        OBVIOUS
    <2>4. /\ ahead \cap level = {} /\ ahead \cup level \subseteq T
          /\ \A j \in T : \/ j \in ahead \/ j \in level
                          \/ Outbids(at, orders[m].price, orders[j].price)
        BY <2>3, LevelsAreOrdered
    <2>5. T \subseteq Takers(orders) /\ Takers(orders) \subseteq 1..Len(orders)
        BY Participants
    <2> HIDE DEF T
    <2>6. ahead \cup level \subseteq Takers(orders)
        BY <2>4, <2>5
    <2>7. ASSUME NEW i \in Takers(orders) \ (ahead \cup level) PROVE fills[i] = 0
        <3>1. CASE i \in T
            <4>1. TakerFill(orders, at, price, i) = 0
                BY <2>2, <2>4, <2>7, <3>1
            <4> QED BY <1>2, <1>5, <3>1, <4>1
        <3>2. CASE i \notin T
            BY <1>2, <3>2
        <3> QED BY <3>1, <3>2
    <2>8. PICK both : both = ahead \cup level
        OBVIOUS
    <2>9. SumOver(fills, Takers(orders)) = SumOver(fills, both)
        <3>1. both \subseteq Takers(orders)
            BY <2>6, <2>8
        <3>2. \A i \in (Takers(orders) \ both) \cap (1..Len(fills)) : fills[i] = 0
            BY <2>7, <2>8
        <3> QED BY <3>1, <3>2, SumNarrow
    <2>10. SumOver(fills, both) = SumOver(fills, ahead) + SumOver(fills, level)
        <3>1. SumOver(fills, ahead \cup level)
                 = SumOver(fills, ahead) + SumOver(fills, level)
            BY <2>4, SumUnion
        <3> QED BY <2>8, <3>1
    <2>11. PICK open \in Seq(Nat) :
               /\ open = OpenQuantities(orders) /\ Len(open) = Len(fills)
               /\ \A i \in Takers(orders) : open[i] = Open(orders[i])
        <3>1. /\ OpenQuantities(orders) \in Seq(Nat)
              /\ Len(OpenQuantities(orders)) = Len(fills)
            BY <1>2, OpenQuantitiesType
        <3>2. \A i \in Takers(orders) : i \in 1..Len(orders) /\ Live(orders[i])
            BY Participants
        <3>3. \A i \in Takers(orders) : OpenQuantities(orders)[i] = Open(orders[i])
            BY <3>2, OpenQuantitiesType
        <3> QED BY <3>1, <3>3
    <2>12. SumOver(fills, ahead) = Volume(orders, ahead)
        <3>1. ASSUME NEW i \in ahead PROVE fills[i] = open[i]
            <4>1. i \in T /\ i \in Takers(orders)
                BY <2>4, <2>5
            <4>2. TakerFill(orders, at, price, i) = Open(orders[i])
                BY <2>2, <2>3, LevelsAheadAreFilled DEF T
            <4> QED BY <1>2, <1>5, <2>11, <4>1, <4>2
        <3>2. \A i \in ahead \cap (1..Len(fills)) : fills[i] = open[i]
            BY <3>1
        <3>3. SumOver(fills, ahead) = SumOver(open, ahead)
            BY <2>11, <3>2, SumAgree
        <3> QED BY <2>11, <3>3 DEF Volume
    <2>13. PICK whole \in Nat, part \in Nat :
               /\ whole = LevelVolume(orders, at, price, m)
               /\ part = VolumeToFill(orders, at, price, m)
               /\ whole > 0
        BY VolumeToFillBounds DEF T
    <2>14. whole = SumOver(open, level)
        BY <2>3, <2>11, <2>13 DEF LevelVolume, Volume, T
    <2>15. ASSUME NEW i \in level PROVE fills[i] = (open[i] * part) \div whole
        <3>1. i \in T /\ i \in Takers(orders)
            BY <2>4, <2>5
        <3>2. orders[i].price = orders[m].price
            BY <2>3, <2>15 DEF SameLevel
        <3>3. /\ SameLevel(orders, T, i) = SameLevel(orders, T, m)
              /\ Ahead(orders, at, T, i) = Ahead(orders, at, T, m)
            BY <3>2 DEF SameLevel, Ahead
        <3>4. /\ VolumeToFill(orders, at, price, i) = part
              /\ LevelVolume(orders, at, price, i) = whole
            BY <2>13, <3>3 DEF VolumeToFill, LevelVolume, LeftForLevel, T
        <3> QED BY <1>2, <1>5, <2>11, <3>1, <3>4 DEF TakerFill
    <2>16. /\ SumOver(fills, level) <= part
           /\ part - SumOver(fills, level) < Cardinality(level)
        <3>1. level \cap (1..Len(open)) = level
            BY <1>2, <2>4, <2>5, <2>11
        <3>2. \A i \in level \cap (1..Len(open)) : fills[i] = (open[i] * part) \div whole
            BY <2>15
        <3>3. SumOver(open, level) = whole /\ Len(fills) = Len(open)
            BY <2>11, <2>14
        <3>4. /\ SumOver(fills, level) <= part
              /\ part - SumOver(fills, level) < Cardinality(level \cap (1..Len(open)))
            BY <2>13, <3>2, <3>3, FloorSum
        <3> QED BY <3>1, <3>4
    <2>17. total - Volume(orders, ahead) = part /\ Volume(orders, ahead) \in Nat
        <3>1. LeftForLevel(orders, at, price, m) = Excess(total, Volume(orders, ahead))
            BY <2>1, <2>3 DEF LeftForLevel, T
        <3>2. Volume(orders, ahead) \in Nat /\ total \in Nat
            BY VolumeType, ClearingType
        <3>3. part = Least(whole, LeftForLevel(orders, at, price, m))
            BY <2>13 DEF VolumeToFill
        <3>4. PICK left \in Nat : left = LeftForLevel(orders, at, price, m)
            BY <3>1, <3>2 DEF Excess
        <3>5. part = left
            BY <2>2, <2>13, <3>3, <3>4 DEF Least
        <3> HIDE DEF total
        <3> QED BY <2>2, <3>1, <3>2, <3>4, <3>5 DEF Excess
    <2>18. PICK s \in Nat : s = SumOver(fills, level)
        BY SumProperties
    <2>19. SumOver(fills, Takers(orders)) = Volume(orders, ahead) + s
        BY <2>9, <2>10, <2>12, <2>18
    <2>20. total \in Nat
        BY ClearingType
    <2>21. /\ SumOver(fills, Takers(orders)) <= total
           /\ total - SumOver(fills, Takers(orders)) = part - s
        <3> HIDE DEF total
        <3> QED BY <2>13, <2>16, <2>17, <2>18, <2>19, <2>20
    <2>22. total - SumOver(fills, Takers(orders)) < Cardinality(SameLevel(orders, T, m))
        BY <2>3, <2>16, <2>18, <2>21
    <2> QED BY <1>1, <1>3, <2>21, <2>22 DEF T
<1> QED BY <1>4, <1>5

-----------------------------------------------------------------------------
(* The orders that are left.                                               *)

(* The positions of the live orders of one type.                           *)
OfType(orders, type) ==
    {i \in DOMAIN orders : Live(orders[i]) /\ orders[i].order_type = type}

(* What an order still asks for.                                           *)
OpenOf == [o \in Order |-> IF Live(o) THEN Open(o) ELSE 0]

LEMMA OpenOfType ==
    /\ OpenOf \in Maps(Order, Nat)
    /\ \A o \in Order : OpenOf[o] = IF Live(o) THEN Open(o) ELSE 0
BY OpenBounds DEF OpenOf, Maps

LEMMA OpenQuantitiesMapped ==
    ASSUME NEW orders \in Seq(Order)
    PROVE  OpenQuantities(orders) = Mapped(orders, OpenOf)
<1>1. \A i \in 1..Len(orders) :
         (IF Live(orders[i]) THEN Open(orders[i]) ELSE 0) = OpenOf[orders[i]]
    BY ElementOfSeq, OpenOfType
<1> QED BY <1>1 DEF OpenQuantities, Mapped

(* What a traded order received and what it still asks for.                *)
LEMMA TradedOpen ==
    ASSUME NEW orders \in Seq(Order), NEW at, NEW i \in 1..Len(orders), Live(orders[i])
    PROVE  LET o == orders[i]
               t == Traded(orders, at)[i]
               fill == Fill(orders, at, ClearingPrice(orders, at), i)
           IN  /\ t \in Order /\ t.order_type = o.order_type
               /\ t.filled_quantity - o.filled_quantity = fill
               /\ fill \in Nat /\ OpenOf[o] = fill + OpenOf[t] /\ OpenOf[t] \in Nat
<1> DEFINE fill == Fill(orders, at, ClearingPrice(orders, at), i)
           t == Traded(orders, at)[i]
<1>1. orders[i] \in Order
    BY ElementOfSeq
<1>2. fill \in Nat /\ fill <= Open(orders[i])
    BY FillBounds
<1>3. t = [orders[i] EXCEPT !.filled_quantity = @ + fill]
    BY DEF Traded
<1> HIDE DEF fill, t
<1>4. PICK o \in Order : o = orders[i]
    BY <1>1
<1>5. /\ o.filled_quantity \in Nat /\ o.quantity \in Nat
      /\ o.filled_quantity <= o.quantity
    BY <1>1, <1>4, WidthAssumption DEF Order, U64, Live
<1>6. /\ t.order_type = o.order_type /\ t.is_active = o.is_active
      /\ t.quantity = o.quantity
      /\ t.filled_quantity = o.filled_quantity + fill
    BY <1>3, <1>4 DEF Order
<1>7. t \in Order
    BY TradedOrders, ElementOfSeq DEF t
<1>8. t.filled_quantity - o.filled_quantity = fill
    BY <1>2, <1>5, <1>6
<1>9. Live(o) /\ OpenOf[o] = o.quantity - o.filled_quantity
    BY <1>4, OpenOfType DEF Open
<1>10. OpenOf[t] = IF Live(t) THEN Open(t) ELSE 0
    BY <1>7, OpenOfType
<1>11. fill <= o.quantity - o.filled_quantity
    BY <1>2, <1>4 DEF Open
<1>12. OpenOf[t] = o.quantity - (o.filled_quantity + fill)
    <2>1. CASE Live(t)
        BY <1>6, <1>10, <2>1 DEF Open
    <2>2. CASE ~ Live(t)
        <3>1. ~ (o.filled_quantity + fill < o.quantity)
            BY <1>6, <1>9, <2>2 DEF Live
        <3> QED BY <1>2, <1>5, <1>10, <1>11, <2>2, <3>1
    <2> QED BY <2>1, <2>2
<1>13. OpenOf[o] = fill + OpenOf[t] /\ OpenOf[t] \in Nat
    BY <1>2, <1>5, <1>9, <1>11, <1>12
<1> QED BY <1>2, <1>4, <1>6, <1>7, <1>8, <1>13 DEF fill, t

(* What the orders of one type ask for goes down by what they receive,     *)
(* once the orders with nothing left to ask for are taken out.             *)
LEMMA FillsLeaveVolume ==
    ASSUME NEW orders \in Seq(Order), NEW at, NEW type, NEW after,
           after = Retain(Traded(orders, at),
                          {i \in 1..Len(Traded(orders, at)) : Live(Traded(orders, at)[i])})
    PROVE  /\ Volume(orders, OfType(orders, type))
                 = SumOver(Fills(orders, at), OfType(orders, type))
                      + Volume(after, OfType(after, type))
           /\ Volume(after, OfType(after, type)) \in Nat
<1> DEFINE T == {o \in Order : Live(o) /\ o.order_type = type}
<1>1. PICK traded \in Seq(Order) : traded = Traded(orders, at) /\ Len(traded) = Len(orders)
    BY TradedOrders
<1>2. PICK live : live = {i \in 1..Len(traded) : Live(traded[i])}
    OBVIOUS
<1>3. after = Retain(traded, live) /\ after \in Seq(Order)
    BY <1>1, <1>2, RetainProperties
<1>4. ASSUME NEW s \in Seq(Order)
      PROVE  OfType(s, type) = InSet(s, T)
    <2>1. \A i \in 1..Len(s) : s[i] \in Order
        BY ElementOfSeq
    <2>2. DOMAIN s = 1..Len(s)
        OBVIOUS
    <2> QED BY <2>1, <2>2 DEF OfType, InSet
<1>5. InSet(traded, T) \subseteq live
    BY <1>2 DEF InSet
<1> HIDE DEF T
<1>6. PICK v \in Seq(Nat), w \in Seq(Nat) :
          /\ v = Mapped(orders, OpenOf) /\ w = Mapped(traded, OpenOf)
          /\ Len(v) = Len(orders) /\ Len(w) = Len(orders)
          /\ \A i \in 1..Len(orders) : v[i] = OpenOf[orders[i]] /\ w[i] = OpenOf[traded[i]]
    <2>1. OpenOf \in Maps(Order, Nat)
        BY OpenOfType
    <2> QED BY <1>1, <2>1, MappedType
<1>7. Volume(after, OfType(after, type)) = SumOver(w, InSet(traded, T))
    <2>1. Volume(after, OfType(after, type))
             = SumOver(Mapped(after, OpenOf), InSet(after, T))
        BY <1>3, <1>4, OpenQuantitiesMapped DEF Volume
    <2>2. SumOver(Mapped(Retain(traded, live), OpenOf), InSet(Retain(traded, live), T))
             = SumOver(Mapped(traded, OpenOf), InSet(traded, T))
        <3>1. OpenOf \in Maps(Order, Nat)
            BY OpenOfType
        <3> QED BY <1>5, <3>1, SumOfFiltered
    <2> QED BY <1>3, <1>6, <2>1, <2>2
<1>8. PICK K : K = OfType(orders, type)
    OBVIOUS
<1>9. /\ K \subseteq 1..Len(orders)
      /\ \A i \in K : Live(orders[i]) /\ orders[i].order_type = type
    <2>1. DOMAIN orders = 1..Len(orders)
        OBVIOUS
    <2> QED BY <1>8, <2>1 DEF OfType
<1>10. PICK fills \in Seq(Nat) :
           /\ fills = Fills(orders, at) /\ Len(fills) = Len(orders)
           /\ \A i \in 1..Len(orders) :
                 fills[i] = Fill(orders, at, ClearingPrice(orders, at), i)
    BY FillsType
<1>11. ASSUME NEW i \in K
       PROVE  /\ traded[i].order_type = type /\ traded[i] \in Order
              /\ v[i] = fills[i] + w[i]
    <2>1. i \in 1..Len(orders) /\ Live(orders[i]) /\ orders[i].order_type = type
        BY <1>9
    <2>2. /\ Traded(orders, at)[i] \in Order
          /\ Traded(orders, at)[i].order_type = orders[i].order_type
          /\ OpenOf[orders[i]] = Fill(orders, at, ClearingPrice(orders, at), i)
                                    + OpenOf[Traded(orders, at)[i]]
        BY <2>1, TradedOpen
    <2>3. /\ v[i] = OpenOf[orders[i]] /\ w[i] = OpenOf[traded[i]]
          /\ fills[i] = Fill(orders, at, ClearingPrice(orders, at), i)
        BY <1>6, <1>10, <2>1
    <2> QED BY <1>1, <2>1, <2>2, <2>3
<1>12. InSet(traded, T) \subseteq K
    <2>1. SUFFICES ASSUME NEW i \in InSet(traded, T) PROVE i \in K
        OBVIOUS
    <2>2. i \in 1..Len(orders) /\ Live(traded[i]) /\ traded[i].order_type = type
        BY <1>1 DEF InSet, T
    <2>3. PICK f \in U64 : traded[i] = [orders[i] EXCEPT !.filled_quantity = f]
        <3>1. traded[i] \in FilledFrom(orders[i])
            BY <1>1, <2>2, TradedOrders
        <3> QED BY <3>1 DEF FilledFrom
    <2>4. orders[i] \in Order
        BY <2>2, ElementOfSeq
    <2>5. /\ traded[i].is_active = orders[i].is_active
          /\ traded[i].quantity = orders[i].quantity
          /\ traded[i].order_type = orders[i].order_type
          /\ traded[i].filled_quantity >= orders[i].filled_quantity
        <3>1. traded[i] \in FilledFrom(orders[i])
            BY <1>1, <2>2, TradedOrders
        <3> QED BY <2>3, <2>4, <3>1 DEF FilledFrom, Order
    <2>6. /\ orders[i].filled_quantity \in Nat /\ orders[i].quantity \in Nat
          /\ traded[i].filled_quantity \in Nat
        <3>1. traded[i] \in Order
            BY <1>1, <2>2, ElementOfSeq
        <3>2. /\ orders[i].filled_quantity \in 0..MaxU64 /\ orders[i].quantity \in 0..MaxU64
              /\ traded[i].filled_quantity \in 0..MaxU64
            BY <2>4, <3>1 DEF Order, U64
        <3> QED BY <3>2, WidthAssumption
    <2>7. Live(orders[i])
        BY <2>2, <2>5, <2>6 DEF Live
    <2>8. DOMAIN orders = 1..Len(orders)
        OBVIOUS
    <2> QED BY <1>8, <2>2, <2>5, <2>7, <2>8 DEF OfType
<1>13. SumOver(w, K) = SumOver(w, InSet(traded, T))
    <2>1. ASSUME NEW i \in (K \ InSet(traded, T)) \cap (1..Len(w)) PROVE w[i] = 0
        <3>1. i \in K /\ i \in 1..Len(orders) /\ i \in 1..Len(traded)
            BY <1>1, <1>6
        <3>2. traded[i] \in Order /\ ~ Live(traded[i])
            BY <1>11, <2>1, <3>1 DEF InSet, T
        <3> QED BY <1>6, <3>1, <3>2, OpenOfType
    <2>2. PICK L : L = InSet(traded, T)
        OBVIOUS
    <2>3. L \subseteq K /\ \A i \in (K \ L) \cap (1..Len(w)) : w[i] = 0
        BY <1>12, <2>1, <2>2
    <2>4. SumOver(w, K) = SumOver(w, L)
        BY <2>3, SumNarrow
    <2> QED BY <2>2, <2>4
<1>14. SumOver(v, K) = SumOver(fills, K) + SumOver(w, K)
    <2>1. \A i \in K \cap (1..Len(v)) : v[i] = fills[i] + w[i]
        BY <1>11
    <2>2. Len(fills) = Len(v) /\ Len(w) = Len(v)
        BY <1>6, <1>10
    <2> QED BY <2>1, <2>2, SumAdd
<1>15. Volume(orders, K) = SumOver(v, K)
    BY <1>6, OpenQuantitiesMapped DEF Volume
<1>16. SumOver(w, K) \in Nat
    BY SumProperties
<1> QED BY <1>7, <1>8, <1>10, <1>13, <1>14, <1>15, <1>16
=============================================================================
