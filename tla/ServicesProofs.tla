--------------------------- MODULE ServicesProofs ---------------------------
(***************************************************************************)
(* The maker and the taker for every number of overlapping ticks, quotes   *)
(* a side, mid prices and quantities, and every capacity of the queues:    *)
(* the quotes of the maker are of one tick and keep their places, and a    *)
(* queue the taker has filled up stays as it is.                           *)
(***************************************************************************)
EXTENDS ServicesProperties, ProgramProofs

(* The orders of the maker are makers and those of anyone else takers.     *)
OfKind == {o \in Order : o.order_type = IF o.owner = maker THEN "Maker" ELSE "Taker"}

(* The orders that may rest while the maker quotes around mid.             *)
Around(mid) ==
    {o \in Order : o.owner = maker =>
        IF o.side = "Buy" THEN o.price \in (mid - Levels)..(mid - 1)
        ELSE o.price \in (mid + 1)..(mid + Levels)}

AllIn(q, S) == \A at \in AuctionType : q[at] \in Seq(S)

(* The inductive invariant.                                                *)
SInv ==
    /\ Inv
    /\ EmptyUntilInitialized
    /\ ServicesTypeOK
    /\ AllIn(queue, OfKind)
    /\ \E mid \in Mids : AllIn(queue, Around(mid))

LEMMA AroundIsQuoted ==
    ASSUME NEW mid \in Mids, AllIn(queue, Around(mid))
    PROVE  QuotedAround(mid)
<1>1. ASSUME NEW at \in AuctionType, NEW i \in Mine(maker, at)
      PROVE  queue[at][i] \in Around(mid) /\ queue[at][i].owner = maker
    <2>1. queue[at] \in Seq(Around(mid))
        BY <1>1 DEF AllIn
    <2>2. i \in 1..Len(queue[at]) /\ queue[at][i].owner = maker
        BY DEF Mine
    <2> QED BY <2>1, <2>2, ElementOfSeq
<1> QED BY <1>1 DEF QuotedAround, Around

-----------------------------------------------------------------------------
(* The requests.                                                           *)

LEMMA MakerOrdersType ==
    ASSUME NEW mid \in Mids, NEW quantity \in [1..(2 * Levels) -> Quantities]
    PROVE  LET ps == MakerOrders(mid, quantity)
           IN  /\ ps \in Seq(PlaceOrderParams) /\ Len(ps) = 2 * Levels
               /\ Levels \in Nat /\ mid \in Nat
               /\ \A j \in 1..(2 * Levels) :
                     /\ ps[j].order_type = "Maker"
                     /\ ps[j].side = IF j <= Levels THEN "Buy" ELSE "Sell"
                     /\ ps[j].price = IF j <= Levels THEN mid - j ELSE mid + (j - Levels)
<1>1. /\ Levels \in Nat /\ mid \in Nat /\ mid > Levels /\ mid + Levels <= MaxU64
      /\ MaxU64 \in Nat
    BY ServicesAssumption, WidthAssumption DEF U64
<1>2. 2 * Levels \in Nat
    BY <1>1
<1> DEFINE e(j) == [order_type |-> "Maker",
                    side |-> IF j <= Levels THEN "Buy" ELSE "Sell",
                    price |-> IF j <= Levels THEN mid - j ELSE mid + (j - Levels),
                    quantity |-> quantity[j]]
<1>3. ASSUME NEW j \in 1..(2 * Levels)
      PROVE  /\ e(j) \in PlaceOrderParams /\ e(j).order_type = "Maker"
             /\ e(j).side = IF j <= Levels THEN "Buy" ELSE "Sell"
             /\ e(j).price = IF j <= Levels THEN mid - j ELSE mid + (j - Levels)
    <2>1. quantity[j] \in U64
        BY ServicesAssumption
    <2>2. (IF j <= Levels THEN mid - j ELSE mid + (j - Levels)) \in 0..MaxU64
        <3>1. CASE j <= Levels
            <4>1. mid - j \in 0..MaxU64
                BY <1>1, <3>1
            <4> QED BY <3>1, <4>1
        <3>2. CASE ~ (j <= Levels)
            <4>1. j - Levels <= Levels /\ j - Levels >= 0
                BY <1>1, <3>2
            <4>2. mid + (j - Levels) \in 0..MaxU64
                BY <1>1, <4>1
            <4> QED BY <3>2, <4>2
        <3> QED BY <3>1, <3>2
    <2>3. e(j).order_type \in OrderType /\ e(j).side \in Side
        BY DEF OrderType, Side
    <2> QED BY <2>1, <2>2, <2>3 DEF PlaceOrderParams, U64
<1>4. MakerOrders(mid, quantity) = [j \in 1..(2 * Levels) |-> e(j)]
    BY DEF MakerOrders
<1> HIDE DEF e
<1>5. PICK n \in Nat : n = 2 * Levels
    BY <1>2
<1> QED BY <1>1, <1>3, <1>4, <1>5

LEMMA TakerOrdersType ==
    ASSUME NEW request \in TakeRequests
    PROVE  /\ request \in Seq(PlaceOrderParams)
           /\ \A j \in 1..Len(request) : request[j].order_type = "Taker"
<1>1. PICK mid \in Mids, quantity \in [1..(2 * PerSide) -> Quantities] :
          request = TakerOrders(mid, quantity)
    BY DEF TakeRequests
<1>2. /\ PerSide \in Nat /\ Reach \in Nat
      /\ mid \in Nat /\ mid > Reach /\ mid + Reach <= MaxU64 /\ MaxU64 \in Nat
    BY ServicesAssumption, WidthAssumption DEF U64
<1> DEFINE e(j) == [order_type |-> "Taker",
                    side |-> IF j <= PerSide THEN "Buy" ELSE "Sell",
                    price |-> IF j <= PerSide THEN mid + Reach ELSE mid - Reach,
                    quantity |-> quantity[j]]
<1>3. ASSUME NEW j \in 1..(2 * PerSide)
      PROVE  e(j) \in PlaceOrderParams /\ e(j).order_type = "Taker"
    <2>1. quantity[j] \in U64
        BY ServicesAssumption
    <2>2. mid + Reach \in U64 /\ mid - Reach \in U64
        BY <1>2 DEF U64
    <2>3. e(j).order_type \in OrderType /\ e(j).side \in Side
        BY DEF OrderType, Side
    <2> QED BY <2>1, <2>2, <2>3 DEF PlaceOrderParams
<1>4. request = [j \in 1..(2 * PerSide) |-> e(j)]
    BY <1>1 DEF TakerOrders
<1> HIDE DEF e
<1>5. PICK n \in Nat : n = 2 * PerSide
    BY <1>2
<1> QED BY <1>3, <1>4, <1>5

-----------------------------------------------------------------------------
(* What a step of the services does to the queues.                         *)

(* The steps between a service and the network alone.                      *)
QuietStep ==
    \/ StartMaker \/ StartTaker \/ TakerAnswered
    \/ \E service \in {"maker", "taker", "crank"} : StopService(service)
    \/ \E t \in Ticks : SendQuotes(t) \/ LoseQuotes(t) \/ SendTakes(t) \/ LoseTakes(t)

LEMMA QuietSteps == QuietStep => UNCHANGED vars
<1>1. StartMaker \/ StartTaker \/ TakerAnswered => UNCHANGED vars
    BY DEF StartMaker, StartTaker, TakerAnswered
<1>2. ASSUME NEW service, StopService(service) PROVE UNCHANGED vars
    BY <1>2 DEF StopService
<1>3. ASSUME NEW t, SendQuotes(t) \/ LoseQuotes(t) \/ SendTakes(t) \/ LoseTakes(t)
      PROVE  UNCHANGED vars
    BY <1>3 DEF SendQuotes, LoseQuotes, SendTakes, LoseTakes
<1> HIDE DEF vars
<1> QED BY <1>1, <1>2, <1>3 DEF QuietStep

LEMMA ServicesSteps ==
    ASSUME [ServicesNext]_system
    PROVE  \/ QuietStep
           \/ \E t \in Ticks : LandQuotes(t)
           \/ \E t \in Ticks : LandTakes(t)
           \/ CrankBatch
           \/ Others
           \/ UNCHANGED system
BY DEF ServicesNext, QuietStep

LEMMA SystemSteps ==
    ASSUME EmptyUntilInitialized, ServicesTypeOK, [ServicesNext]_system
    PROVE  \/ UNCHANGED queue
           \/ \E mid \in Mids, quantity \in [1..(2 * Levels) -> Quantities] :
                 CancelAllAndPostNewOrders(maker, MakerOrders(mid, quantity))
           \/ \E request \in TakeRequests : PlaceMultipleOrders(taker, request)
           \/ \E b \in BatchIds : ExecuteBatch(b)
<1>1. ASSUME NEW t \in Ticks, LandQuotes(t)
      PROVE  \E mid \in Mids, quantity \in [1..(2 * Levels) -> Quantities] :
                CancelAllAndPostNewOrders(maker, MakerOrders(mid, quantity))
    <2>1. quoting[t] \in QuoteRequests /\ CancelAllAndPostNewOrders(maker, quoting[t])
        BY <1>1 DEF ServicesTypeOK, LandQuotes
    <2>2. PICK mid \in Mids, quantity \in [1..(2 * Levels) -> Quantities] :
              quoting[t] = MakerOrders(mid, quantity)
        BY <2>1 DEF QuoteRequests
    <2>3. CancelAllAndPostNewOrders(maker, MakerOrders(mid, quantity))
        BY <2>1, <2>2
    <2> QED BY <2>3
<1>2. ASSUME NEW t \in Ticks, LandTakes(t)
      PROVE  \E request \in TakeRequests : PlaceMultipleOrders(taker, request)
    <2>1. taking[t] \in TakeRequests /\ PlaceMultipleOrders(taker, taking[t])
        BY <1>2 DEF ServicesTypeOK, LandTakes
    <2> QED BY <2>1
<1>3. ASSUME NEW interval \in Intervals, Initialize(interval) PROVE UNCHANGED queue
    BY <1>3 DEF Initialize, EmptyUntilInitialized
<1>4. CrankBatch => \E b \in BatchIds : ExecuteBatch(b)
    BY DEF CrankBatch
<1>5. Tick => UNCHANGED queue
    BY DEF Tick, accounts
<1>6. QuietStep \/ UNCHANGED system => UNCHANGED queue
    BY QuietSteps DEF vars, system
<1>7. Others => UNCHANGED queue
    BY <1>3, <1>5 DEF Others
<1> QED BY <1>1, <1>2, <1>4, <1>6, <1>7, ServicesSteps

LEMMA StepPrograms ==
    ASSUME Inv, EmptyUntilInitialized, ServicesTypeOK, [ServicesNext]_system
    PROVE  Inv' /\ EmptyUntilInitialized'
<1>1. ASSUME [Next]_vars PROVE Inv' /\ EmptyUntilInitialized'
    BY <1>1, StepInv, StepEmpty
<1>2. ASSUME NEW t \in Ticks, LandQuotes(t) PROVE Inv' /\ EmptyUntilInitialized'
    <2>1. /\ quoting[t] \in QuoteRequests /\ CancelAllAndPostNewOrders(maker, quoting[t])
          /\ maker \in Owner
        BY <1>2, ServicesAssumption DEF ServicesTypeOK, LandQuotes
    <2>2. quoting[t] \in Seq(PlaceOrderParams)
        BY <2>1, MakerOrdersType DEF QuoteRequests
    <2>3. Inv'
        BY <2>1, <2>2, CancelAndPostWellFormed, WellFormedNext
    <2>4. EmptyUntilInitialized'
        BY <2>1 DEF CancelAllAndPostNewOrders, EmptyUntilInitialized
    <2> QED BY <2>3, <2>4
<1>3. ASSUME NEW t \in Ticks, LandTakes(t) PROVE Inv' /\ EmptyUntilInitialized'
    <2>1. /\ taking[t] \in TakeRequests /\ PlaceMultipleOrders(taker, taking[t])
          /\ taker \in Owner
        BY <1>3, ServicesAssumption DEF ServicesTypeOK, LandTakes
    <2>2. taking[t] \in Seq(PlaceOrderParams)
        BY <2>1, TakerOrdersType
    <2>3. Inv'
        BY <2>1, <2>2, PostWellFormed, WellFormedNext
    <2>4. EmptyUntilInitialized'
        BY <2>1 DEF PlaceMultipleOrders, EmptyUntilInitialized
    <2> QED BY <2>3, <2>4
<1>4. CrankBatch \/ Others => [Next]_vars
    BY DEF CrankBatch, Others, Next
<1>5. QuietStep \/ UNCHANGED system => UNCHANGED vars
    BY QuietSteps DEF system
<1>6. CrankBatch \/ Others \/ QuietStep \/ UNCHANGED system => Inv' /\ EmptyUntilInitialized'
    BY <1>1, <1>4, <1>5
<1> QED BY <1>2, <1>3, <1>6, ServicesSteps

LEMMA StepServiceTypes ==
    ASSUME ServicesTypeOK, [ServicesNext]_system
    PROVE  ServicesTypeOK'
<1>1. /\ starting \in {"maker", "taker", "answer", "none"}
      /\ running \subseteq
             IF starting = "maker" THEN {}
             ELSE IF starting = "none" THEN {"maker", "taker", "crank"} ELSE {"maker"}
      /\ quoting \in [Ticks -> QuoteRequests \cup {Nothing}]
      /\ taking \in [Ticks -> TakeRequests \cup {Nothing}]
    BY DEF ServicesTypeOK
<1>2. ASSUME StartMaker PROVE ServicesTypeOK'
    BY <1>1, <1>2 DEF StartMaker, ServicesTypeOK
<1>3. ASSUME StartTaker PROVE ServicesTypeOK'
    BY <1>1, <1>3 DEF StartTaker, ServicesTypeOK
<1>4. ASSUME TakerAnswered PROVE ServicesTypeOK'
    BY <1>1, <1>4 DEF TakerAnswered, ServicesTypeOK
<1>5. ASSUME NEW service, StopService(service) PROVE ServicesTypeOK'
    BY <1>1, <1>5 DEF StopService, ServicesTypeOK
<1>6. ASSUME NEW t \in Ticks, SendQuotes(t) \/ LandQuotes(t) \/ LoseQuotes(t)
      PROVE  ServicesTypeOK'
    BY <1>1, <1>6 DEF SendQuotes, LandQuotes, LoseQuotes, ServicesTypeOK
<1>7. ASSUME NEW t \in Ticks, SendTakes(t) \/ LandTakes(t) \/ LoseTakes(t)
      PROVE  ServicesTypeOK'
    BY <1>1, <1>7 DEF SendTakes, LandTakes, LoseTakes, ServicesTypeOK
<1>8. ASSUME CrankBatch \/ Others \/ UNCHANGED system PROVE ServicesTypeOK'
    BY <1>1, <1>8 DEF CrankBatch, Others, system, services, ServicesTypeOK
<1> QED BY <1>2, <1>3, <1>4, <1>5, <1>6, <1>7, <1>8 DEF ServicesNext

-----------------------------------------------------------------------------
(* Which orders can be in the queues after a step.                         *)

LEMMA CancelKeeps ==
    ASSUME NEW q, NEW S, AllIn(q, S), NEW owner
    PROVE  AllIn(WithoutOwner(q, owner), {o \in S : o.owner # owner})
<1> DEFINE T == {o \in S : o.owner # owner}
<1>1. ASSUME NEW at \in AuctionType PROVE WithoutOwner(q, owner)[at] \in Seq(T)
    <2>1. PICK v \in Seq(S) : v = q[at]
        BY DEF AllIn
    <2>2. PICK K : K = {i \in 1..Len(v) : v[i].owner # owner}
        OBVIOUS
    <2>3. \A i \in K \cap (1..Len(v)) : v[i] \in T
        BY <2>2, ElementOfSeq
    <2> HIDE DEF T
    <2>4. Retain(v, K) \in Seq(T)
        BY <2>3, RetainSubtype
    <2>5. WithoutOwner(q, owner)[at] = Retain(v, K)
        BY <2>1, <2>2 DEF WithoutOwner
    <2> QED BY <2>4, <2>5
<1> QED BY <1>1 DEF AllIn

(* An order for every field of which the request p has a say.              *)
AsRequested(o, owner, p) ==
    /\ o \in Order
    /\ o.owner = owner /\ o.order_type = p.order_type /\ o.side = p.side /\ o.price = p.price

LEMMA PostKeeps ==
    ASSUME NEW q, WellFormed(q), unix_timestamp \in Timestamp,
           NEW owner \in Owner, NEW ps \in Seq(PlaceOrderParams), AllValid(q, ps),
           NEW S, AllIn(q, S),
           \A j \in 1..Len(ps) : \A o : AsRequested(o, owner, ps[j]) => o \in S
    PROVE  AllIn(WithOrders(q, owner, ps), S)
<1> DEFINE new == NewOrders(q, owner, ps)
           N == {NewOrder(owner, ps[j], Position(q, ps, j)) : j \in 1..Len(ps)}
<1>1. Len(ps) \in Nat
    OBVIOUS
<1>2. /\ new \in Seq(N) /\ Len(new) = Len(ps)
      /\ \A j \in 1..Len(ps) : new[j] = NewOrder(owner, ps[j], Position(q, ps, j))
    BY <1>1 DEF NewOrders
<1>3. ASSUME NEW at \in AuctionType PROVE WithOrders(q, owner, ps)[at] \in Seq(S)
    <2> DEFINE K == {j \in Posted(q, ps) : Route(ps[j]) = at}
    <2>1. ASSUME NEW j \in K PROVE new[j] \in S
        <3>1. /\ j \in 1..Len(ps) /\ Route(ps[j]) = at /\ ~ MeetsFullQueue(q, ps, j)
              /\ ValidParams(ps[j]) /\ ps[j] \in PlaceOrderParams
            BY <2>1, ElementOfSeq DEF Posted, Reached, AllValid
        <3>2. PICK position : position = Position(q, ps, j)
            OBVIOUS
        <3>3. position \in Nat
            BY <3>1, <3>2, PositionType
        <3>4. position < MaxOrders
            BY <3>1, <3>2, <3>3, ProgramAssumption DEF MeetsFullQueue
        <3>5. NewOrder(owner, ps[j], position) \in Order
            BY <3>1, <3>3, <3>4, NewOrderQueued DEF Queued
        <3>6. AsRequested(NewOrder(owner, ps[j], position), owner, ps[j])
            BY <3>5 DEF AsRequested, NewOrder
        <3> QED BY <1>2, <3>1, <3>2, <3>6
    <2>2. WithOrders(q, owner, ps)[at] = q[at] \o Retain(new, K)
        BY DEF WithOrders
    <2>3. q[at] \in Seq(S)
        BY DEF AllIn
    <2> HIDE DEF K, new, N
    <2>4. Retain(new, K) \in Seq(S)
        BY <1>2, <2>1, RetainSubtype
    <2> QED BY <2>2, <2>3, <2>4
<1> QED BY <1>3 DEF AllIn

LEMMA BatchKeeps ==
    ASSUME Inv, NEW b \in BatchIds, ExecuteBatch(b), NEW S, AllIn(queue, S),
           \A o \in S : FilledFrom(o) \subseteq S
    PROVE  AllIn(queue', S)
<1>1. ASSUME NEW at \in AuctionType PROVE queue'[at] \in Seq(S)
    <2>1. PICK v : v = queue[at] /\ v \in Seq(Order) /\ v \in Seq(S)
        BY QueueType DEF AllIn
    <2>2. PICK traded : traded = Traded(v, at)
        OBVIOUS
    <2>3. /\ traded \in Seq(Order) /\ Len(traded) = Len(v) /\ Len(v) \in Nat
          /\ \A i \in 1..Len(v) : traded[i] \in FilledFrom(v[i])
        BY <2>1, <2>2, TradedOrders
    <2>4. \A i \in 1..Len(v) : v[i] \in S
        BY <2>1, ElementOfSeq
    <2>5. \A i \in 1..Len(traded) : traded[i] \in S
        BY <2>3, <2>4
    <2>6. PICK live : queue'[at] = Retain(traded, live)
        BY <2>1, <2>2, ExecutedQueues
    <2>7. Retain(traded, live) \in Seq(S)
        BY <2>3, <2>5, RetainSubtype
    <2> QED BY <2>6, <2>7
<1> QED BY <1>1 DEF AllIn

(* What is not filled otherwise stays of its kind and at its price.        *)
LEMMA KindsAreKept ==
    /\ OfKind \subseteq Order /\ \A o \in OfKind : FilledFrom(o) \subseteq OfKind
    /\ \A mid : \A o \in Around(mid) : FilledFrom(o) \subseteq Around(mid)
<1>1. ASSUME NEW o \in Order, NEW t \in FilledFrom(o)
      PROVE  /\ t \in Order /\ t.owner = o.owner /\ t.order_type = o.order_type
             /\ t.side = o.side /\ t.price = o.price
    BY DEF FilledFrom, Order
<1> QED BY <1>1 DEF OfKind, Around

(* The quotes of a tick are makers on the right side of its mid price.     *)
LEMMA QuotesFit ==
    ASSUME NEW mid \in Mids, NEW quantity \in [1..(2 * Levels) -> Quantities], NEW ps,
           ps = MakerOrders(mid, quantity)
    PROVE  \A j \in 1..Len(ps) : \A o :
              AsRequested(o, maker, ps[j]) => o \in OfKind /\ o \in Around(mid)
<1> SUFFICES ASSUME NEW j \in 1..Len(ps), NEW o, AsRequested(o, maker, ps[j])
             PROVE  o \in OfKind /\ o \in Around(mid)
    OBVIOUS
<1>1. /\ Len(ps) = 2 * Levels /\ Levels \in Nat /\ mid \in Nat
      /\ ps[j].order_type = "Maker"
      /\ ps[j].side = IF j <= Levels THEN "Buy" ELSE "Sell"
      /\ ps[j].price = IF j <= Levels THEN mid - j ELSE mid + (j - Levels)
    BY MakerOrdersType
<1>2. PICK n \in Nat : n = 2 * Levels /\ n = Levels + Levels /\ j \in 1..n
    BY <1>1
<1>3. /\ o \in Order /\ o.owner = maker /\ o.order_type = "Maker"
      /\ o.side = ps[j].side /\ o.price = ps[j].price
    BY <1>1 DEF AsRequested
<1>4. CASE j <= Levels
    <2>1. o.side = "Buy" /\ o.price = mid - j
        BY <1>1, <1>3, <1>4
    <2>2. o.price \in (mid - Levels)..(mid - 1)
        BY <1>1, <1>2, <1>4, <2>1
    <2> QED BY <1>3, <2>1, <2>2 DEF OfKind, Around
<1>5. CASE ~ (j <= Levels)
    <2>1. o.side = "Sell" /\ o.price = mid + (j - Levels)
        BY <1>1, <1>3, <1>5
    <2>2. o.price \in (mid + 1)..(mid + Levels)
        BY <1>1, <1>2, <1>5, <2>1
    <2> QED BY <1>3, <2>1, <2>2 DEF OfKind, Around
<1> QED BY <1>4, <1>5

(* The requests of the taker are takers, wherever the maker quotes.        *)
LEMMA TakesFit ==
    ASSUME NEW request \in TakeRequests
    PROVE  \A j \in 1..Len(request) : \A o :
              AsRequested(o, taker, request[j])
                 => o \in OfKind /\ \A mid : o \in Around(mid)
<1>1. \A j \in 1..Len(request) : request[j].order_type = "Taker"
    BY TakerOrdersType
<1> QED BY <1>1, ServicesAssumption DEF AsRequested, OfKind, Around

LEMMA StepSInv ==
    ASSUME SInv, [ServicesNext]_system
    PROVE  SInv'
<1>1. /\ Inv /\ EmptyUntilInitialized /\ ServicesTypeOK
      /\ WellFormed(queue) /\ unix_timestamp \in Timestamp
    BY InvParts DEF SInv, OtherTypes
<1>2. Inv' /\ EmptyUntilInitialized' /\ ServicesTypeOK'
    BY <1>1, StepPrograms, StepServiceTypes
<1>3. PICK mid \in Mids : AllIn(queue, Around(mid)) /\ AllIn(queue, OfKind)
    BY DEF SInv
<1>4. CASE UNCHANGED queue
    BY <1>2, <1>3, <1>4 DEF SInv, AllIn
<1>5. ASSUME NEW at \in Mids, NEW quantity \in [1..(2 * Levels) -> Quantities],
             CancelAllAndPostNewOrders(maker, MakerOrders(at, quantity))
      PROVE  SInv'
    <2>1. PICK ps : ps = MakerOrders(at, quantity)
        OBVIOUS
    <2>2. PICK q : q = WithoutOwner(queue, maker)
        OBVIOUS
    <2>3. ps \in Seq(PlaceOrderParams) /\ maker \in Owner
        BY <2>1, MakerOrdersType, ServicesAssumption
    <2>4. WellFormed(q) /\ AllValid(q, ps) /\ queue' = WithOrders(q, maker, ps)
        BY <1>1, <1>5, <2>1, <2>2, WithoutOwnerWellFormed DEF CancelAllAndPostNewOrders
    <2>5. PICK T : T = {o \in OfKind : o.owner # maker} /\ AllIn(q, T)
        BY <1>3, <2>2, CancelKeeps
    <2>6. T \subseteq OfKind /\ T \subseteq Around(at)
        BY <2>5 DEF OfKind, Around
    <2>7. AllIn(q, OfKind) /\ AllIn(q, Around(at))
        <3>1. \A S : T \subseteq S => Seq(T) \subseteq Seq(S)
            OBVIOUS
        <3>2. \A a \in AuctionType : q[a] \in Seq(T)
            BY <2>5 DEF AllIn
        <3>3. Seq(T) \subseteq Seq(OfKind) /\ Seq(T) \subseteq Seq(Around(at))
            BY <2>6, <3>1
        <3> QED BY <3>2, <3>3 DEF AllIn
    <2>8. \A j \in 1..Len(ps) : \A o :
              AsRequested(o, maker, ps[j]) => o \in OfKind /\ o \in Around(at)
        BY <2>1, QuotesFit
    <2>9. AllIn(queue', OfKind) /\ AllIn(queue', Around(at))
        BY <1>1, <2>3, <2>4, <2>7, <2>8, PostKeeps
    <2> QED BY <1>2, <2>9 DEF SInv
<1>6. ASSUME NEW request \in TakeRequests, PlaceMultipleOrders(taker, request)
      PROVE  SInv'
    <2>1. request \in Seq(PlaceOrderParams) /\ taker \in Owner
        BY TakerOrdersType, ServicesAssumption
    <2>2. AllValid(queue, request) /\ queue' = WithOrders(queue, taker, request)
        BY <1>6 DEF PlaceMultipleOrders
    <2>3. \A j \in 1..Len(request) : \A o :
              AsRequested(o, taker, request[j]) => o \in OfKind /\ o \in Around(mid)
        BY TakesFit
    <2>4. AllIn(queue', OfKind) /\ AllIn(queue', Around(mid))
        BY <1>1, <1>3, <2>1, <2>2, <2>3, PostKeeps
    <2> QED BY <1>2, <2>4 DEF SInv
<1>7. ASSUME NEW b \in BatchIds, ExecuteBatch(b) PROVE SInv'
    <2>1. AllIn(queue', OfKind) /\ AllIn(queue', Around(mid))
        BY <1>1, <1>3, <1>7, BatchKeeps, KindsAreKept
    <2> QED BY <1>2, <2>1 DEF SInv
<1> QED BY <1>1, <1>4, <1>5, <1>6, <1>7, SystemSteps

LEMMA InitSInv == ServicesInit => SInv
<1> SUFFICES ASSUME ServicesInit PROVE SInv
    OBVIOUS
<1>1. Inv /\ queue = EmptyQueues
    BY InitInv DEF ServicesInit, Init
<1>2. \A S : AllIn(queue, S)
    BY <1>1 DEF AllIn, EmptyQueues
<1>3. ServicesTypeOK
    BY DEF ServicesInit, ServicesTypeOK
<1>4. PICK mid : mid \in Mids
    BY ServicesAssumption
<1> QED BY <1>1, <1>2, <1>3, <1>4 DEF SInv, EmptyUntilInitialized

LEMMA InvariantOfServices == ServicesSpec => []SInv
<1>1. SInv /\ [ServicesNext]_system => SInv'
    BY StepSInv
<1> QED BY <1>1, InitSInv, PTL DEF ServicesSpec

(* Every interval and every request in the network is one that main() and  *)
(* the ticks can have brought about.                                       *)
THEOREM ServicesTypeCorrect == ServicesSpec => []ServicesTypeOK
<1>1. SInv => ServicesTypeOK
    BY DEF SInv
<1> QED BY <1>1, InvariantOfServices, PTL

(* However many ticks of the maker are under way and in whatever order     *)
(* they land, what rests of its quotes is of one of them: the transaction  *)
(* that brings a tick's quotes has cancelled those of every other.         *)
THEOREM NeverTwoMids == ServicesSpec => []QuotesAreOneTicks
<1>1. SInv => QuotesAreOneTicks
    BY AroundIsQuoted DEF SInv, QuotesAreOneTicks
<1> QED BY <1>1, InvariantOfServices, PTL

-----------------------------------------------------------------------------
(* A queue the taker has filled up.                                        *)

LEMMA NoneGetsIn ==
    ASSUME NEW q, WellFormed(q), NEW owner, NEW ps \in Seq(PlaceOrderParams),
           NEW at \in AuctionType, Len(q[at]) = MaxOrders
    PROVE  WithOrders(q, owner, ps)[at] = q[at]
<1> DEFINE new == NewOrders(q, owner, ps)
           N == {NewOrder(owner, ps[j], Position(q, ps, j)) : j \in 1..Len(ps)}
           K == {j \in Posted(q, ps) : Route(ps[j]) = at}
<1>1. ASSUME NEW j \in K PROVE FALSE
    <2>1. j \in 1..Len(ps) /\ Route(ps[j]) = at /\ ~ MeetsFullQueue(q, ps, j)
        BY <1>1 DEF Posted, Reached
    <2>2. PICK ahead : ahead = Cardinality(Before(ps, j)) /\ ahead \in Nat
        BY <2>1, PositionType
    <2>3. Position(q, ps, j) = MaxOrders + ahead
        BY <2>1, <2>2, PositionType
    <2> QED BY <2>1, <2>2, <2>3, ProgramAssumption DEF MeetsFullQueue
<1>2. Len(ps) \in Nat
    OBVIOUS
<1>3. new \in Seq(N)
    BY <1>2 DEF NewOrders
<1>4. WithOrders(q, owner, ps)[at] = q[at] \o Retain(new, K)
    BY DEF WithOrders
<1>5. K = {}
    BY <1>1
<1> HIDE DEF new, N, K
<1>6. Retain(new, K) = << >>
    BY <1>3, <1>5, RetainNone
<1>7. q[at] \in Seq(Order)
    BY DEF WellFormed
<1> QED BY <1>4, <1>6, <1>7, ConcatEmptySeq

(* Without a maker there is no auction.                                    *)
LEMMA NoMakersNoFills ==
    ASSUME NEW orders \in Seq(Order), NEW at, Makers(orders) = {}
    PROVE  Traded(orders, at) = orders
<1>1. PICK traded : traded = Traded(orders, at)
    OBVIOUS
<1>2. Len(orders) \in Nat /\ \A i \in 1..Len(orders) : orders[i] \in Order
    BY ElementOfSeq
<1>3. \A price, i : Fill(orders, at, price, i) = 0
    BY DEF Fill, Matches
<1>4. ASSUME NEW i \in 1..Len(orders) PROVE traded[i] = orders[i]
    <2>1. traded[i] = [orders[i] EXCEPT !.filled_quantity = @ + 0]
        BY <1>1, <1>3 DEF Traded
    <2>2. PICK o \in Order : o = orders[i]
        BY <1>2
    <2>3. o.filled_quantity \in 0..MaxU64
        BY DEF Order, U64
    <2>4. o.filled_quantity + 0 = o.filled_quantity
        BY <2>3, WidthAssumption
    <2>5. [o EXCEPT !.filled_quantity = o.filled_quantity] = o
        BY DEF Order
    <2> QED BY <2>1, <2>2, <2>4, <2>5
<1>5. traded \in Seq(Order) /\ Len(traded) = Len(orders)
    BY <1>1, TradedOrders
<1>6. traded = orders
    BY <1>4, <1>5, SeqEqual
<1> QED BY <1>1, <1>6

LEMMA FullStaysFull ==
    ASSUME SInv, [ServicesNext]_system, NEW at \in AuctionType, FullOfTakers(at)
    PROVE  queue'[at] = queue[at]
<1>1. Inv /\ EmptyUntilInitialized /\ ServicesTypeOK /\ WellFormed(queue)
    BY InvParts DEF SInv
<1>2. PICK v : v = queue[at] /\ v \in Seq(Order)
    BY <1>1, QueueType
<1>3. Len(v) = MaxOrders /\ \A i \in 1..Len(v) : v[i].owner # maker
    BY <1>2 DEF FullOfTakers, Mine
<1>4. ASSUME NEW ps \in Seq(PlaceOrderParams), CancelAllAndPostNewOrders(maker, ps)
      PROVE  queue'[at] = queue[at]
    <2>1. PICK q : q = WithoutOwner(queue, maker)
        OBVIOUS
    <2>2. WellFormed(q) /\ queue' = WithOrders(q, maker, ps)
        BY <1>1, <1>4, <2>1, WithoutOwnerWellFormed DEF CancelAllAndPostNewOrders
    <2>3. PICK K : K = {i \in 1..Len(v) : v[i].owner # maker} /\ q[at] = Retain(v, K)
        BY <1>2, <2>1 DEF WithoutOwner
    <2>4. q[at] = v
        BY <1>2, <1>3, <2>3, RetainAll
    <2> QED BY <1>2, <1>3, <2>2, <2>4, NoneGetsIn
<1>5. ASSUME NEW request \in TakeRequests, PlaceMultipleOrders(taker, request)
      PROVE  queue'[at] = queue[at]
    <2>1. request \in Seq(PlaceOrderParams)
        BY TakerOrdersType
    <2>2. queue' = WithOrders(queue, taker, request)
        BY <1>5 DEF PlaceMultipleOrders
    <2> QED BY <1>1, <1>2, <1>3, <2>1, <2>2, NoneGetsIn
<1>6. ASSUME NEW b \in BatchIds, ExecuteBatch(b) PROVE queue'[at] = queue[at]
    <2>1. \A i \in 1..Len(v) : v[i] \in OfKind
        <3>1. v \in Seq(OfKind)
            BY <1>2 DEF SInv, AllIn
        <3> QED BY <3>1, ElementOfSeq
    <2>2. Makers(v) = {}
        BY <1>2, <1>3, <2>1 DEF Makers, OfKind
    <2>3. Traded(v, at) = v
        BY <1>2, <2>2, NoMakersNoFills
    <2>4. PICK live : /\ live = {i \in 1..Len(v) : Live(v[i])}
                      /\ queue'[at] = Retain(v, live)
        BY <1>1, <1>2, <1>6, <2>3, ExecutedQueues
    <2>5. 1..Len(v) \subseteq live
        BY <1>1, <1>2, <2>4 DEF Inv, QueuesHoldOpenOrders
    <2> QED BY <1>2, <2>4, <2>5, RetainAll
<1>7. ASSUME NEW mid \in Mids, NEW quantity \in [1..(2 * Levels) -> Quantities],
             CancelAllAndPostNewOrders(maker, MakerOrders(mid, quantity))
      PROVE  queue'[at] = queue[at]
    <2>1. PICK ps \in Seq(PlaceOrderParams) : ps = MakerOrders(mid, quantity)
        BY MakerOrdersType
    <2> QED BY <1>4, <1>7, <2>1
<1> QED BY <1>1, <1>5, <1>6, <1>7, SystemSteps

(* taker.service.ts:64: orders that meet no maker are never matched, and   *)
(* the taker never cancels: a queue full of them lets nobody in, and no    *)
(* batch makes room in it.                                                 *)
THEOREM FullForEver == ServicesSpec => FullOfTakersIsForEver
<1>1. SInv /\ [ServicesNext]_system
        => [\A at \in AuctionType : FullOfTakers(at) => queue'[at] = queue[at]]_system
    BY FullStaysFull
<1> QED BY <1>1, InvariantOfServices, PTL DEF ServicesSpec, FullOfTakersIsForEver

-----------------------------------------------------------------------------
(* The places of the maker.                                                *)

LEMMA OwnedLength ==
    ASSUME NEW S, NEW v \in Seq(S), NEW owner
    PROVE  Len(Owned(v, owner)) = Cardinality({i \in 1..Len(v) : v[i].owner = owner})
<1>1. PICK K : K = {i \in 1..Len(v) : v[i].owner = owner}
    OBVIOUS
<1>2. K \cap (1..Len(v)) = K
    BY <1>1
<1> QED BY <1>1, <1>2, RetainProperties DEF Owned, IsSelection

LEMMA OwnedOfConcat ==
    ASSUME NEW v \in Seq(Order), NEW w \in Seq(Order), NEW owner
    PROVE  Owned(v \o w, owner) = Owned(v, owner) \o Owned(w, owner)
<1>1. PICK T : T = {o \in Order : o.owner = owner}
    OBVIOUS
<1>2. \A s \in Seq(Order) : Owned(s, owner) = Filter(s, T)
    BY <1>1, OwnedIsFilter
<1>3. PICK u : u = v \o w /\ u \in Seq(Order)
    BY ConcatProperties
<1>4. Filter(v \o w, T) = Filter(v, T) \o Filter(w, T)
    BY FilterConcat
<1>5. Owned(u, owner) = Filter(u, T) /\ Owned(v, owner) = Filter(v, T)
          /\ Owned(w, owner) = Filter(w, T)
    BY <1>2, <1>3
<1> QED BY <1>3, <1>4, <1>5

(* A batch does not fill a maker, so that it takes none away.              *)
LEMMA BatchKeepsQuotes ==
    ASSUME SInv, NEW b \in BatchIds, ExecuteBatch(b), NEW at \in AuctionType
    PROVE  Len(Owned(queue'[at], maker)) = Len(Owned(queue[at], maker))
<1>1. Inv
    BY DEF SInv
<1>2. PICK v : v = queue[at] /\ v \in Seq(Order) /\ v \in Seq(OfKind)
    BY <1>1, QueueType DEF SInv, AllIn
<1>3. PICK traded : traded = Traded(v, at)
    OBVIOUS
<1>4. PICK live : /\ live = {i \in 1..Len(traded) : Live(traded[i])}
                  /\ queue'[at] = Retain(traded, live)
    BY <1>1, <1>2, <1>3, ExecutedQueues
<1>5. /\ traded \in Seq(Order) /\ Len(traded) = Len(v) /\ Len(v) \in Nat
      /\ \A i \in 1..Len(v) : traded[i] \in FilledFrom(v[i])
    BY <1>2, <1>3, TradedOrders
<1>6. \A i \in 1..Len(v) : v[i] \in Order /\ v[i] \in OfKind /\ Live(v[i])
    BY <1>1, <1>2, ElementOfSeq DEF Inv, QueuesHoldOpenOrders
<1>7. ASSUME NEW i \in 1..Len(v) PROVE traded[i].owner = v[i].owner
    BY <1>5, <1>6, <1>7 DEF FilledFrom, Order
<1>8. ASSUME NEW i \in 1..Len(v), v[i].owner = maker PROVE Live(traded[i])
    <2>1. i \in Makers(v)
        BY <1>2, <1>6, <1>8 DEF Makers, OfKind
    <2>2. PICK fill : fill = Fill(v, at, ClearingPrice(v, at), i)
        OBVIOUS
    <2>3. fill = 0
        BY <1>2, <2>1, <2>2, MakersAreNotFilled
    <2>4. traded[i] = [v[i] EXCEPT !.filled_quantity = @ + fill]
        BY <1>3, <2>2 DEF Traded
    <2>5. PICK o \in Order : o = v[i]
        BY <1>6
    <2>6. o.filled_quantity \in 0..MaxU64
        BY DEF Order, U64
    <2>7. o.filled_quantity + fill = o.filled_quantity
        BY <2>3, <2>6, WidthAssumption
    <2>8. [o EXCEPT !.filled_quantity = o.filled_quantity] = o
        BY DEF Order
    <2> QED BY <1>6, <2>4, <2>5, <2>7, <2>8
<1>9. PICK T : T = {o \in Order : o.owner = maker}
    OBVIOUS
<1>10. InSet(traded, T) \subseteq live
    BY <1>4, <1>5, <1>7, <1>8, <1>9 DEF InSet
<1>11. Filter(Retain(traded, live), T) = Filter(traded, T)
    BY <1>5, <1>10, FilterOfRetain
<1>12. Retain(traded, live) \in Seq(Order)
    BY <1>5, RetainProperties
<1>13. \A s \in Seq(Order) : Owned(s, maker) = Filter(s, T)
    BY <1>9, OwnedIsFilter
<1>14. Owned(queue'[at], maker) = Owned(traded, maker)
    BY <1>4, <1>5, <1>11, <1>12, <1>13
<1>15. {i \in 1..Len(traded) : traded[i].owner = maker}
          = {i \in 1..Len(v) : v[i].owner = maker}
    BY <1>5, <1>7
<1>16. Len(Owned(traded, maker)) = Cardinality({i \in 1..Len(traded) : traded[i].owner = maker})
    BY <1>5, OwnedLength
<1>17. Len(Owned(v, maker)) = Cardinality({i \in 1..Len(v) : v[i].owner = maker})
    BY <1>2, OwnedLength
<1> QED BY <1>2, <1>14, <1>15, <1>16, <1>17

(* Of the quotes of a tick as many go to each queue as the maker has       *)
(* levels, and where so many find room they all get in.                    *)
LEMMA QuotesGetIn ==
    ASSUME NEW mid \in Mids, NEW quantity \in [1..(2 * Levels) -> Quantities], NEW ps,
           ps = MakerOrders(mid, quantity), NEW q, WellFormed(q),
           \A at \in AuctionType : Len(q[at]) + Levels <= MaxOrders
    PROVE  /\ Posted(q, ps) = 1..Len(ps)
           /\ \A at \in AuctionType :
                 Cardinality({j \in 1..Len(ps) : Route(ps[j]) = at}) = Levels
<1>1. /\ ps \in Seq(PlaceOrderParams) /\ Len(ps) = 2 * Levels /\ Levels \in Nat
      /\ \A j \in 1..(2 * Levels) :
            /\ ps[j].order_type = "Maker"
            /\ ps[j].side = IF j <= Levels THEN "Buy" ELSE "Sell"
    BY MakerOrdersType
<1>2. PICK n \in Nat : n = Len(ps) /\ n = Levels + Levels
    BY <1>1
<1>3. \A j \in 1..n : Route(ps[j]) = IF j <= Levels THEN "Bid" ELSE "Ask"
    BY <1>1, <1>2 DEF Route
<1>4. ASSUME NEW j \in 1..n
      PROVE  Cardinality(Before(ps, j)) = IF j <= Levels THEN j - 1 ELSE j - 1 - Levels
    <2>1. CASE j <= Levels
        <3>1. Before(ps, j) = 1..(j - 1)
            BY <1>1, <1>2, <1>3, <2>1 DEF Before
        <3>2. PICK m \in Nat : m = j - 1
            OBVIOUS
        <3>3. Cardinality(1..m) = m
            BY FS_Interval
        <3> QED BY <2>1, <3>1, <3>2, <3>3
    <2>2. CASE ~ (j <= Levels)
        <3>1. Before(ps, j) = (Levels + 1)..(j - 1)
            BY <1>1, <1>2, <1>3, <2>2 DEF Before
        <3>2. PICK m \in Nat : m = j - 1
            OBVIOUS
        <3>3. PICK l \in Nat : l = Levels + 1
            BY <1>1
        <3>4. l <= m + 1
            BY <1>1, <2>2, <3>2, <3>3
        <3>5. Cardinality(l..m) = IF l > m THEN 0 ELSE m - l + 1
            BY FS_Interval
        <3> QED BY <1>1, <2>2, <3>1, <3>2, <3>3, <3>4, <3>5
    <2> QED BY <2>1, <2>2
<1>5. ASSUME NEW j \in 1..n PROVE ~ MeetsFullQueue(q, ps, j)
    <2>1. PICK at \in AuctionType : at = Route(ps[j])
        BY RouteIsAuction
    <2>2. PICK ahead \in Nat : ahead = Cardinality(Before(ps, j)) /\ ahead < Levels
        <3>1. PICK ahead : ahead = Cardinality(Before(ps, j))
            OBVIOUS
        <3>2. ahead \in Nat /\ ahead < Levels
            BY <1>1, <1>2, <1>4, <3>1
        <3> QED BY <3>1, <3>2
    <2>3. PICK len \in Nat : len = Len(q[at]) /\ Position(q, ps, j) = len + ahead
        BY <1>1, <1>2, <2>1, <2>2, PositionType
    <2>4. len + Levels <= MaxOrders
        BY <2>1, <2>3
    <2>5. len + ahead < MaxOrders
        BY <1>1, <2>2, <2>3, <2>4, ProgramAssumption
    <2> QED BY <2>3, <2>5, ProgramAssumption DEF MeetsFullQueue
<1>6. Posted(q, ps) = 1..Len(ps)
    <2>1. \A j \in 1..n : \A k \in 1..(j - 1) : k \in 1..n
        OBVIOUS
    <2> QED BY <1>2, <1>5, <2>1 DEF Posted, Reached
<1>7. Cardinality({j \in 1..Len(ps) : Route(ps[j]) = "Bid"}) = Levels
    <2>1. {j \in 1..Len(ps) : Route(ps[j]) = "Bid"} = 1..Levels
        BY <1>1, <1>2, <1>3
    <2>2. Cardinality(1..Levels) = Levels
        <3>1. PICK m \in Nat : m = Levels
            BY <1>1
        <3>2. Cardinality(1..m) = m
            BY FS_Interval
        <3> QED BY <3>1, <3>2
    <2> QED BY <2>1, <2>2
<1>8. Cardinality({j \in 1..Len(ps) : Route(ps[j]) = "Ask"}) = Levels
    <2>1. {j \in 1..Len(ps) : Route(ps[j]) = "Ask"} = (Levels + 1)..n
        BY <1>1, <1>2, <1>3
    <2>2. PICK l \in Nat : l = Levels + 1
        BY <1>1
    <2>3. Cardinality(l..n) = IF l > n THEN 0 ELSE n - l + 1
        BY FS_Interval
    <2>4. Levels > 0
        BY <1>1, ServicesAssumption
    <2>5. l <= n /\ n - l + 1 = Levels
        BY <1>1, <1>2, <2>2, <2>4
    <2>6. Cardinality(l..n) = Levels
        BY <2>3, <2>5
    <2> QED BY <2>1, <2>2, <2>6
<1> QED BY <1>6, <1>7, <1>8 DEF AuctionType

LEMMA CancelMakesRoom ==
    ASSUME WellFormed(queue), NEW at \in AuctionType
    PROVE  Len(WithoutOwner(queue, maker)[at]) + Len(Owned(queue[at], maker)) <= MaxOrders
<1>1. PICK v \in Seq(Order) : v = queue[at] /\ Len(v) <= MaxOrders
    BY DEF WellFormed
<1>2. PICK n \in Nat : n = Len(v)
    OBVIOUS
<1>3. PICK K : K = {i \in 1..n : v[i].owner # maker}
    OBVIOUS
<1>4. PICK M : M = {i \in 1..n : v[i].owner = maker}
    OBVIOUS
<1>5. WithoutOwner(queue, maker)[at] = Retain(v, K)
    BY <1>1, <1>2, <1>3 DEF WithoutOwner
<1>6. Len(Retain(v, K)) = Cardinality(K)
    <2>1. K \cap (1..Len(v)) = K
        BY <1>2, <1>3
    <2> QED BY <2>1, RetainProperties DEF IsSelection
<1>7. Len(Owned(v, maker)) = Cardinality(M)
    BY <1>2, <1>4, OwnedLength
<1>8. Cardinality(K) + Cardinality(M) = n
    <2>1. IsFiniteSet(1..n) /\ Cardinality(1..n) = n
        BY FS_Interval
    <2>2. K \subseteq 1..n /\ M \subseteq 1..n /\ K \cup M = 1..n /\ K \cap M = {}
        BY <1>3, <1>4
    <2>3. /\ IsFiniteSet(K) /\ IsFiniteSet(M)
          /\ Cardinality(K) \in Nat /\ Cardinality(M) \in Nat
        BY <2>1, <2>2, FS_Subset, FS_CardinalityType
    <2>4. Cardinality(K \cup M) = Cardinality(K) + Cardinality(M) - Cardinality(K \cap M)
        BY <2>3, FS_Union
    <2>5. Cardinality(K \cap M) = 0
        BY <2>2, FS_EmptySet
    <2>6. Cardinality(K \cup M) = n
        BY <2>1, <2>2
    <2>7. PICK k \in Nat, m \in Nat : k = Cardinality(K) /\ m = Cardinality(M)
        BY <2>3
    <2> QED BY <2>4, <2>5, <2>6, <2>7
<1> QED BY <1>1, <1>2, <1>5, <1>6, <1>7, <1>8

LEMMA QuotesAreReplaced ==
    ASSUME SInv, NEW mid \in Mids, NEW quantity \in [1..(2 * Levels) -> Quantities],
           CancelAllAndPostNewOrders(maker, MakerOrders(mid, quantity)),
           \A at \in AuctionType : Len(Owned(queue[at], maker)) = Levels,
           NEW at \in AuctionType
    PROVE  Len(Owned(queue'[at], maker)) = Levels
<1>1. WellFormed(queue) /\ Inv
    BY InvParts DEF SInv
<1>2. PICK ps : ps = MakerOrders(mid, quantity) /\ ps \in Seq(PlaceOrderParams)
    BY MakerOrdersType
<1>3. PICK q : q = WithoutOwner(queue, maker)
    OBVIOUS
<1>4. WellFormed(q) /\ AllValid(q, ps) /\ queue' = WithOrders(q, maker, ps)
    BY <1>1, <1>2, <1>3, WithoutOwnerWellFormed DEF CancelAllAndPostNewOrders
<1>5. \A a \in AuctionType : Len(q[a]) + Levels <= MaxOrders
    BY <1>1, <1>3, CancelMakesRoom
<1>6. /\ Posted(q, ps) = 1..Len(ps)
      /\ Cardinality({j \in 1..Len(ps) : Route(ps[j]) = at}) = Levels
    BY <1>2, <1>4, <1>5, QuotesGetIn
<1>7. PICK K : K = {j \in 1..Len(ps) : Route(ps[j]) = at}
    OBVIOUS
<1>8. PICK N : N = {NewOrder(maker, ps[j], Position(q, ps, j)) : j \in 1..Len(ps)}
    OBVIOUS
<1>9. PICK new : new = NewOrders(q, maker, ps) /\ new \in Seq(N) /\ Len(new) = Len(ps)
    <2>1. PICK n \in Nat : n = Len(ps)
        BY <1>2
    <2>2. NewOrders(q, maker, ps)
              = [j \in 1..n |-> NewOrder(maker, ps[j], Position(q, ps, j))]
        BY <2>1 DEF NewOrders
    <2>3. \A j \in 1..n : NewOrder(maker, ps[j], Position(q, ps, j)) \in N
        BY <1>8, <2>1
    <2> QED BY <2>1, <2>2, <2>3
<1>10. \A o \in N : o.owner = maker
    BY <1>8 DEF NewOrder
<1>11. PICK posted : posted = Retain(new, K) /\ posted \in Seq(N) /\ Len(posted) = Levels
    <2>1. K \cap (1..Len(new)) = K
        BY <1>7, <1>9
    <2>2. Retain(new, K) \in Seq(N) /\ Len(Retain(new, K)) = Cardinality(K \cap (1..Len(new)))
        BY <1>9, RetainProperties DEF IsSelection
    <2>3. Cardinality(K) = Levels
        BY <1>6, <1>7
    <2> QED BY <2>1, <2>2, <2>3
<1>12. queue'[at] = q[at] \o posted
    BY <1>4, <1>6, <1>7, <1>9, <1>11 DEF WithOrders
<1>13. PICK rest \in Seq(Order) : rest = q[at]
    BY <1>4 DEF WellFormed
<1>14. \A i \in 1..Len(rest) : rest[i].owner # maker
    <2>1. PICK T : T = {o \in Order : o.owner # maker}
        OBVIOUS
    <2>2. AllIn(queue, Order)
        BY <1>1 DEF AllIn, WellFormed
    <2>3. AllIn(q, T)
        BY <1>3, <2>1, <2>2, CancelKeeps
    <2>4. rest \in Seq(T)
        BY <1>13, <2>3 DEF AllIn
    <2> QED BY <2>1, <2>4, ElementOfSeq
<1>15. PICK S : S = Order \cup N
    OBVIOUS
<1>16. rest \in Seq(S) /\ posted \in Seq(S)
    BY <1>11, <1>13, <1>15
<1>17. PICK w : /\ w = rest \o posted /\ w \in Seq(S) /\ Len(w) = Len(rest) + Len(posted)
                /\ \A i \in 1..(Len(rest) + Len(posted)) :
                      w[i] = IF i <= Len(rest) THEN rest[i] ELSE posted[i - Len(rest)]
    <2>1. /\ rest \o posted \in Seq(S)
          /\ Len(rest \o posted) = Len(rest) + Len(posted)
          /\ \A i \in 1..(Len(rest) + Len(posted)) :
                (rest \o posted)[i] = IF i <= Len(rest) THEN rest[i] ELSE posted[i - Len(rest)]
        BY <1>16, ConcatProperties
    <2> QED BY <2>1
<1>18. PICK n \in Nat, l \in Nat : n = Len(rest) /\ l = Levels /\ Len(posted) = l
    BY <1>11, <1>13, ServicesAssumption
<1>19. {i \in 1..Len(w) : w[i].owner = maker} = (n + 1)..(n + l)
    <2>1. \A i \in 1..l : posted[i].owner = maker
        BY <1>10, <1>11, <1>18, ElementOfSeq
    <2>2. \A i \in 1..(n + l) : w[i].owner = maker <=> i > n
        <3>1. ASSUME NEW i \in 1..(n + l), i <= n PROVE w[i].owner # maker
            <4>1. w[i] = rest[i] /\ i \in 1..Len(rest)
                BY <1>17, <1>18, <3>1
            <4> QED BY <1>14, <4>1
        <3>2. ASSUME NEW i \in 1..(n + l), ~ (i <= n) PROVE w[i].owner = maker
            <4>1. w[i] = posted[i - n] /\ i - n \in 1..l
                BY <1>17, <1>18, <3>2
            <4> QED BY <2>1, <4>1
        <3> QED BY <3>1, <3>2
    <2> QED BY <1>17, <1>18, <2>2
<1>20. Cardinality((n + 1)..(n + l)) = l
    <2>1. PICK a \in Nat, z \in Nat : a = n + 1 /\ z = n + l
        OBVIOUS
    <2>2. Cardinality(a..z) = IF a > z THEN 0 ELSE z - a + 1
        BY FS_Interval
    <2> QED BY <2>1, <2>2
<1>21. Len(Owned(w, maker)) = Levels
    <2>1. w \in Seq(S)
        BY <1>17
    <2>2. Len(Owned(w, maker)) = Cardinality({i \in 1..Len(w) : w[i].owner = maker})
        BY <2>1, OwnedLength
    <2> QED BY <1>18, <1>19, <1>20, <2>2
<1> QED BY <1>12, <1>13, <1>17, <1>21

LEMMA StepKeepsPlaces ==
    ASSUME SInv, [ServicesNext]_system, Quoted
    PROVE  Quoted'
<1>1. Inv /\ EmptyUntilInitialized /\ ServicesTypeOK /\ Inv'
    BY StepSInv DEF SInv
<1>2. \A at \in AuctionType : queue[at] \in Seq(Order) /\ queue'[at] \in Seq(Order)
    BY <1>1, QueueType DEF Inv, TypeOK
<1>3. ASSUME NEW at \in AuctionType PROVE Len(Owned(queue[at], maker)) = Levels
    <2>1. PICK v \in Seq(Order) : v = queue[at]
        BY <1>2
    <2>2. Len(Owned(v, maker)) = Cardinality({i \in 1..Len(v) : v[i].owner = maker})
        BY OwnedLength
    <2> QED BY <2>1, <2>2 DEF Quoted, Mine
<1>4. ASSUME NEW at \in AuctionType PROVE Len(Owned(queue'[at], maker)) = Levels
    <2>1. CASE UNCHANGED queue
        BY <1>3, <2>1
    <2>2. ASSUME NEW mid \in Mids, NEW quantity \in [1..(2 * Levels) -> Quantities],
                 CancelAllAndPostNewOrders(maker, MakerOrders(mid, quantity))
          PROVE  Len(Owned(queue'[at], maker)) = Levels
        BY <1>3, <2>2, QuotesAreReplaced
    <2>3. ASSUME NEW request \in TakeRequests, PlaceMultipleOrders(taker, request)
          PROVE  Len(Owned(queue'[at], maker)) = Levels
        <3>1. request \in Seq(PlaceOrderParams)
            BY TakerOrdersType
        <3>2. PICK w : w = WithOrders(queue, taker, request)[at] /\ queue'[at] = w
            BY <2>3 DEF PlaceMultipleOrders
        <3>3. PICK v \in Seq(Order) : v = queue[at]
            BY <1>2
        <3>4. AppendedNow(v, w, taker)
            BY <3>1, <3>2, <3>3, PostedOrders
        <3>5. Owned(w, maker) = Owned(v, maker)
            BY <3>4, ServicesAssumption, OwnedAfterAppending
        <3> QED BY <1>3, <3>2, <3>3, <3>5
    <2>4. ASSUME NEW b \in BatchIds, ExecuteBatch(b)
          PROVE  Len(Owned(queue'[at], maker)) = Levels
        BY <1>3, <2>4, BatchKeepsQuotes
    <2> QED BY <1>1, <2>1, <2>2, <2>3, <2>4, SystemSteps
<1>5. \A at \in AuctionType :
          Cardinality({i \in 1..Len(queue'[at]) : queue'[at][i].owner = maker}) = Levels
    BY <1>2, <1>4, OwnedLength
<1> QED BY <1>5 DEF Quoted, Mine

(* Cancel-and-post of a full set of quotes finds at least the room it has  *)
(* made; the taker's orders go to the end of the queues; and batches fill  *)
(* takers only: the maker that has all its quotes keeps all its quotes.    *)
THEOREM PlacesAreKept == ServicesSpec => MakerKeepsItsPlaces
<1>1. SInv /\ [ServicesNext]_system => [Quoted => Quoted']_system
    BY StepKeepsPlaces
<1> QED BY <1>1, InvariantOfServices, PTL DEF ServicesSpec, MakerKeepsItsPlaces
=============================================================================
