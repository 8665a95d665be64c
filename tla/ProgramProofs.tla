--------------------------- MODULE ProgramProofs ---------------------------
(***************************************************************************)
(* Invariants of the program for every number of owners, every capacity    *)
(* and every request.  The queues are handled by lemmas about what each    *)
(* instruction does to them; the theorems then go through the actions.     *)
(***************************************************************************)
EXTENDS ProgramProperties, AuctionProofs

(* The orders that may rest in the queue of an auction.                    *)
Queued(at) == {o \in Order : Live(o) /\ Route(o) = at /\ ValidParams(o)}

WellFormed(q) ==
    /\ q \in [AuctionType -> Seq(Order)]
    /\ \A at \in AuctionType : q[at] \in Seq(Queued(at)) /\ Len(q[at]) <= MaxOrders

LEMMA QueuesWellFormed ==
    WellFormed(queue) <=>
        queue \in [AuctionType -> Seq(Order)] /\ QueuesHoldOpenOrders
<1>1. ASSUME WellFormed(queue) PROVE QueuesHoldOpenOrders
    <2>1. ASSUME NEW at \in AuctionType, NEW i \in 1..Len(queue[at])
          PROVE  queue[at][i] \in Queued(at)
        BY <1>1, <2>1, ElementOfSeq DEF WellFormed
    <2> QED BY <1>1, <2>1 DEF WellFormed, Queued, QueuesHoldOpenOrders
<1>2. ASSUME queue \in [AuctionType -> Seq(Order)], QueuesHoldOpenOrders
      PROVE  WellFormed(queue)
    <2>1. ASSUME NEW at \in AuctionType
          PROVE  queue[at] \in Seq(Queued(at)) /\ Len(queue[at]) <= MaxOrders
        <3>1. queue[at] \in Seq(Order)
            BY <1>2
        <3>2. \A i \in 1..Len(queue[at]) : queue[at][i] \in Queued(at)
            BY <1>2, <3>1, ElementOfSeq DEF Queued, QueuesHoldOpenOrders
        <3>3. Len(queue[at]) <= MaxOrders
            BY <1>2 DEF QueuesHoldOpenOrders
        <3> QED BY <3>1, <3>2, <3>3
    <2> QED BY <1>2, <2>1 DEF WellFormed
<1>3. WellFormed(queue) => queue \in [AuctionType -> Seq(Order)]
    BY DEF WellFormed
<1> QED BY <1>1, <1>2, <1>3

LEMMA QueuedAreOrders ==
    ASSUME NEW at, NEW orders \in Seq(Queued(at))
    PROVE  orders \in Seq(Order)
BY DEF Queued

(* A cancel leaves well-formed queues, whoever cancels.                    *)
LEMMA WithoutOwnerWellFormed ==
    ASSUME NEW q, WellFormed(q), NEW owner
    PROVE  WellFormed(WithoutOwner(q, owner))
<1> DEFINE others(at) == {i \in 1..Len(q[at]) : q[at][i].owner # owner}
           rest(at) == Retain(q[at], others(at))
<1>1. ASSUME NEW at \in AuctionType
      PROVE  /\ rest(at) \in Seq(Order)
             /\ rest(at) \in Seq(Queued(at))
             /\ Len(rest(at)) <= MaxOrders
    <2>1. /\ q[at] \in Seq(Queued(at)) /\ q[at] \in Seq(Order)
          /\ Len(q[at]) \in Nat /\ Len(q[at]) <= MaxOrders
        BY <1>1 DEF WellFormed
    <2> HIDE DEF others
    <2>2. rest(at) \in Seq(Queued(at))
        BY <2>1, RetainProperties
    <2>3. Len(rest(at)) \in Nat /\ Len(rest(at)) <= Len(q[at])
        BY <2>1, RetainLength
    <2>4. rest(at) \in Seq(Order)
        BY <2>2, QueuedAreOrders
    <2> QED BY <2>1, <2>2, <2>3, <2>4, ProgramAssumption
<1>2. WithoutOwner(q, owner) = [at \in AuctionType |-> rest(at)]
    BY DEF WithoutOwner
<1> HIDE DEF rest
<1> QED BY <1>1, <1>2 DEF WellFormed

(* So does a batch: what the auction leaves open is still worth a place.   *)
LEMMA AfterBatchWellFormed ==
    ASSUME NEW at \in AuctionType, NEW orders \in Seq(Queued(at)), Len(orders) <= MaxOrders
    PROVE  /\ AfterBatch(orders, at) \in Seq(Queued(at))
           /\ Len(AfterBatch(orders, at)) <= MaxOrders
<1> DEFINE traded == Traded(orders, at)
           open == {i \in 1..Len(traded) : Live(traded[i])}
<1>1. orders \in Seq(Order) /\ Len(orders) \in Nat
    BY QueuedAreOrders
<1>2. /\ traded \in Seq(Order) /\ Len(traded) = Len(orders)
      /\ \A i \in 1..Len(orders) : traded[i] \in FilledFrom(orders[i])
    BY <1>1, TradedOrders
<1> HIDE DEF traded
<1>3. ASSUME NEW i \in open PROVE traded[i] \in Queued(at)
    <2>1. i \in 1..Len(orders) /\ Live(traded[i])
        BY <1>2
    <2>2. orders[i] \in Queued(at)
        BY <2>1, ElementOfSeq
    <2>3. orders[i] \in Order /\ Route(orders[i]) = at /\ ValidParams(orders[i])
        BY <2>2 DEF Queued
    <2>4. PICK f \in U64 : traded[i] = [orders[i] EXCEPT !.filled_quantity = f]
        BY <1>2, <2>1 DEF FilledFrom
    <2>5. /\ traded[i] \in Order
          /\ traded[i].order_type = orders[i].order_type
          /\ traded[i].side = orders[i].side
          /\ traded[i].price = orders[i].price
          /\ traded[i].quantity = orders[i].quantity
        BY <2>3, <2>4 DEF Order
    <2> QED BY <2>1, <2>3, <2>5 DEF Queued, Route, ValidParams
<1>4. open \cap (1..Len(traded)) = open
    OBVIOUS
<1> HIDE DEF open
<1>5. Retain(traded, open) \in Seq(Queued(at))
    BY <1>2, <1>3, <1>4, RetainSubtype
<1>6. Len(Retain(traded, open)) \in Nat /\ Len(Retain(traded, open)) <= Len(traded)
    BY <1>2, RetainLength
<1>7. Len(Retain(traded, open)) <= MaxOrders
    BY <1>1, <1>2, <1>6, ProgramAssumption
<1>8. AfterBatch(orders, at) = Retain(traded, open)
    BY DEF AfterBatch, traded, open
<1> QED BY <1>5, <1>7, <1>8

-----------------------------------------------------------------------------
(* Placing orders.                                                         *)

LEMMA NewOrderQueued ==
    ASSUME NEW owner \in Owner, NEW p \in PlaceOrderParams, ValidParams(p),
           unix_timestamp \in Timestamp, NEW position \in Nat, position < MaxOrders
    PROVE  NewOrder(owner, p, position) \in Queued(Route(p))
<1> DEFINE o == NewOrder(owner, p, position)
<1>1. /\ unix_timestamp + position \in U64 /\ 0 \in U64
      /\ p.quantity \in Nat /\ p.quantity > 0
    BY WidthAssumption, ProgramAssumption
       DEF Timestamp, U64, PlaceOrderParams, ValidParams
<1>2. o \in Order
    BY <1>1 DEF NewOrder, Order, PlaceOrderParams
<1>3. /\ o.is_active = TRUE /\ o.filled_quantity = 0 /\ o.quantity = p.quantity
      /\ o.price = p.price /\ o.order_type = p.order_type /\ o.side = p.side
    BY DEF NewOrder
<1> HIDE DEF o
<1>4. Live(o) /\ Route(o) = Route(p) /\ ValidParams(o)
    BY <1>1, <1>3 DEF Live, Route, ValidParams
<1> QED BY <1>2, <1>4 DEF Queued, o

LEMMA RouteIsAuction ==
    ASSUME NEW p PROVE Route(p) \in AuctionType
BY DEF Route, AuctionType

(* The orders of a list ahead of its j-th in the same queue.               *)
Before(ps, j) == {k \in 1..(j - 1) : Route(ps[k]) = Route(ps[j])}

LEMMA PositionType ==
    ASSUME NEW q, WellFormed(q), NEW ps \in Seq(PlaceOrderParams), NEW j \in 1..Len(ps)
    PROVE  /\ IsFiniteSet(Before(ps, j)) /\ Cardinality(Before(ps, j)) \in Nat
           /\ Len(q[Route(ps[j])]) \in Nat
           /\ Position(q, ps, j) = Len(q[Route(ps[j])]) + Cardinality(Before(ps, j))
           /\ Position(q, ps, j) \in Nat
<1>1. IsFiniteSet(1..(j - 1)) /\ Before(ps, j) \in SUBSET (1..(j - 1))
    BY FS_Interval DEF Before
<1>2. IsFiniteSet(Before(ps, j)) /\ Cardinality(Before(ps, j)) \in Nat
    BY <1>1, FS_Subset, FS_CardinalityType
<1>3. Len(q[Route(ps[j])]) \in Nat
    BY RouteIsAuction DEF WellFormed
<1> QED BY <1>2, <1>3 DEF Position, Before

(* A list never takes a queue beyond its capacity.                         *)
LEMMA PostedFit ==
    ASSUME NEW q, WellFormed(q), NEW ps \in Seq(PlaceOrderParams), NEW at \in AuctionType
    PROVE  LET K == {j \in Posted(q, ps) : Route(ps[j]) = at}
           IN  Cardinality(K) \in Nat /\ Len(q[at]) + Cardinality(K) <= MaxOrders
<1> DEFINE K == {j \in Posted(q, ps) : Route(ps[j]) = at}
<1>1. Len(ps) \in Nat /\ Len(q[at]) \in Nat /\ Len(q[at]) <= MaxOrders
    BY DEF WellFormed
<1>2. /\ K \subseteq 1..Len(ps)
      /\ \A j \in K : Route(ps[j]) = at /\ ~ MeetsFullQueue(q, ps, j)
    BY DEF Posted, Reached
<1> HIDE DEF K
<1>3. CASE K = {}
    <2>1. Cardinality(K) = 0
        BY <1>3, FS_EmptySet
    <2>2. Cardinality(K) \in Nat /\ Len(q[at]) + Cardinality(K) <= MaxOrders
        BY <1>1, <2>1, ProgramAssumption
    <2> QED BY <2>2 DEF K
<1>4. CASE K # {}
    <2>1. K \in SUBSET (0..Len(ps))
        BY <1>1, <1>2
    <2>2. PICK j \in K : \A k \in K : k <= j
        BY <1>1, <1>4, <2>1, NatSetMax
    <2>3. j \in 1..Len(ps) /\ Route(ps[j]) = at
        BY <1>2
    <2>4. /\ IsFiniteSet(Before(ps, j)) /\ Cardinality(Before(ps, j)) \in Nat
          /\ Position(q, ps, j) = Len(q[at]) + Cardinality(Before(ps, j))
        BY <2>3, PositionType
    <2>5. Len(q[at]) + Cardinality(Before(ps, j)) < MaxOrders
        BY <1>1, <1>2, <2>2, <2>4, ProgramAssumption DEF MeetsFullQueue
    <2>6. K \subseteq Before(ps, j) \cup {j}
        <3>1. ASSUME NEW k \in K, k # j PROVE k \in 1..(j - 1)
            BY <3>1, <1>2, <2>2, <2>3
        <3> QED BY <3>1, <1>2, <2>3 DEF Before
    <2>7. j \notin Before(ps, j)
        BY <2>3 DEF Before
    <2>8. /\ IsFiniteSet(Before(ps, j) \cup {j})
          /\ Cardinality(Before(ps, j) \cup {j}) = Cardinality(Before(ps, j)) + 1
        BY <2>4, <2>7, FS_AddElement
    <2>9. IsFiniteSet(K) /\ Cardinality(K) <= Cardinality(Before(ps, j)) + 1
        BY <2>6, <2>8, FS_Subset
    <2>10. Cardinality(K) \in Nat
        BY <2>9, FS_CardinalityType
    <2>11. Len(q[at]) + Cardinality(K) <= MaxOrders
        BY <1>1, <2>4, <2>5, <2>9, <2>10, ProgramAssumption
    <2> QED BY <2>10, <2>11 DEF K
<1> QED BY <1>3, <1>4

LEMMA WithOrdersWellFormed ==
    ASSUME NEW q, WellFormed(q), NEW owner \in Owner, NEW ps \in Seq(PlaceOrderParams),
           AllValid(q, ps), unix_timestamp \in Timestamp
    PROVE  WellFormed(WithOrders(q, owner, ps))
<1> DEFINE new == NewOrders(q, owner, ps)
           K(at) == {j \in Posted(q, ps) : Route(ps[j]) = at}
           after(at) == q[at] \o Retain(new, K(at))
           S == {NewOrder(owner, ps[j], Position(q, ps, j)) : j \in 1..Len(ps)}
<1>1. Len(ps) \in Nat
    OBVIOUS
<1>2. /\ new \in Seq(S) /\ Len(new) = Len(ps)
      /\ \A j \in 1..Len(ps) : new[j] = NewOrder(owner, ps[j], Position(q, ps, j))
    BY <1>1 DEF NewOrders
<1> HIDE DEF new, S
<1>3. ASSUME NEW at \in AuctionType
      PROVE  /\ after(at) \in Seq(Order) /\ after(at) \in Seq(Queued(at))
             /\ Len(after(at)) <= MaxOrders
    <2>1. q[at] \in Seq(Queued(at)) /\ Len(q[at]) \in Nat
        BY <1>3 DEF WellFormed
    <2>2. ASSUME NEW j \in K(at) PROVE new[j] \in Queued(at)
        <3>1. /\ j \in 1..Len(ps) /\ Route(ps[j]) = at /\ ~ MeetsFullQueue(q, ps, j)
              /\ ValidParams(ps[j]) /\ ps[j] \in PlaceOrderParams
            BY <2>2, ElementOfSeq DEF Posted, Reached, AllValid
        <3>2. Position(q, ps, j) \in Nat
            BY <3>1, PositionType
        <3>3. Position(q, ps, j) < MaxOrders
            BY <3>1, <3>2, ProgramAssumption DEF MeetsFullQueue
        <3>4. NewOrder(owner, ps[j], Position(q, ps, j)) \in Queued(at)
            BY <3>1, <3>2, <3>3, NewOrderQueued
        <3> QED BY <1>2, <3>1, <3>4
    <2>3. K(at) \cap (1..Len(new)) = K(at)
        BY <1>2 DEF Posted, Reached
    <2>4. Cardinality(K(at)) \in Nat /\ Len(q[at]) + Cardinality(K(at)) <= MaxOrders
        BY <1>3, PostedFit
    <2> HIDE DEF K
    <2>5. Retain(new, K(at)) \in Seq(Queued(at))
        BY <1>2, <2>2, <2>3, RetainSubtype
    <2>6. Len(Retain(new, K(at))) = Cardinality(K(at))
        BY <1>2, <2>3, RetainProperties DEF IsSelection
    <2>7. /\ after(at) \in Seq(Queued(at))
          /\ Len(after(at)) = Len(q[at]) + Cardinality(K(at))
        BY <2>1, <2>5, <2>6
    <2>8. after(at) \in Seq(Order)
        BY <2>7, QueuedAreOrders
    <2> QED BY <2>4, <2>7, <2>8
<1>4. WithOrders(q, owner, ps) = [at \in AuctionType |-> after(at)]
    BY DEF WithOrders, new
<1> HIDE DEF after
<1> QED BY <1>3, <1>4 DEF WellFormed

-----------------------------------------------------------------------------
(* What one step preserves.                                                *)

Inv == TypeOK /\ QueuesHoldOpenOrders

LEMMA EmptyWellFormed == WellFormed(EmptyQueues)
<1>1. << >> \in Seq(Order) /\ \A at \in AuctionType : << >> \in Seq(Queued(at))
    OBVIOUS
<1> QED BY <1>1, ProgramAssumption DEF WellFormed, EmptyQueues

(* The parts of Inv that are not about the queues.                         *)
OtherTypes ==
    /\ initialized \in BOOLEAN
    /\ auction_state \in AuctionState
    /\ DOMAIN results \subseteq BatchIds
    /\ \A b \in DOMAIN results : results[b] \in AuctionResult
    /\ slot \in 0..MaxSlot
    /\ unix_timestamp \in Timestamp

LEMMA InvParts == Inv <=> WellFormed(queue) /\ OtherTypes
BY QueuesWellFormed DEF Inv, TypeOK, OtherTypes

LEMMA WellFormedNext ==
    ASSUME WellFormed(queue'), OtherTypes'
    PROVE  Inv'
<1>1. WellFormed(queue)' = WellFormed(queue')
    BY DEF WellFormed
<1>2. (WellFormed(queue) /\ OtherTypes)' <=> Inv'
    BY InvParts, PTL
<1> QED BY <1>1, <1>2

LEMMA InitInv == Init => Inv
<1>1. SUFFICES ASSUME Init PROVE WellFormed(queue) /\ OtherTypes
    BY InvParts
<1>2. WellFormed(queue)
    <2>1. queue = EmptyQueues
        BY <1>1 DEF Init
    <2> QED BY <2>1, EmptyWellFormed
<1>3. 0 \in U64 /\ 0 \in Timestamp /\ 0 \in 0..MaxSlot
    BY WidthAssumption, ProgramAssumption DEF U64, Timestamp
<1>4. OtherTypes
    <2>1. DOMAIN results = {}
        BY <1>1 DEF Init
    <2>2. auction_state \in AuctionState
        BY <1>1, <1>3 DEF Init, AuctionState
    <2> QED BY <1>1, <1>3, <2>1, <2>2 DEF Init, OtherTypes
<1> QED BY <1>2, <1>4

LEMMA WithResultType ==
    ASSUME OtherTypes, NEW batch_id \in BatchIds, NEW r \in AuctionResult,
           results' = WithResult(batch_id, r)
    PROVE  /\ DOMAIN results' \subseteq BatchIds
           /\ \A b \in DOMAIN results' : results'[b] \in AuctionResult
BY DEF WithResult, OtherTypes

(* The instructions that post a list, called with any list.                *)
LEMMA PostWellFormed ==
    ASSUME Inv, NEW owner \in Owner, NEW ps \in Seq(PlaceOrderParams),
           PlaceMultipleOrders(owner, ps)
    PROVE  WellFormed(queue') /\ OtherTypes'
<1>1. WellFormed(queue) /\ OtherTypes /\ unix_timestamp \in Timestamp
    BY InvParts DEF OtherTypes
<1>2. WellFormed(queue')
    BY <1>1, WithOrdersWellFormed DEF PlaceMultipleOrders
<1> QED BY <1>1, <1>2 DEF PlaceMultipleOrders, OtherTypes, clock

LEMMA CancelAndPostWellFormed ==
    ASSUME Inv, NEW owner \in Owner, NEW ps \in Seq(PlaceOrderParams),
           CancelAllAndPostNewOrders(owner, ps)
    PROVE  WellFormed(queue') /\ OtherTypes'
<1>1. WellFormed(queue) /\ OtherTypes /\ unix_timestamp \in Timestamp
    BY InvParts DEF OtherTypes
<1>2. WellFormed(WithoutOwner(queue, owner))
    BY <1>1, WithoutOwnerWellFormed
<1>3. WellFormed(queue')
    BY <1>1, <1>2, WithOrdersWellFormed DEF CancelAllAndPostNewOrders
<1> QED BY <1>1, <1>3 DEF CancelAllAndPostNewOrders, OtherTypes, clock

LEMMA StepInv == Inv /\ [Next]_vars => Inv'
<1> SUFFICES ASSUME Inv, [Next]_vars PROVE WellFormed(queue') /\ OtherTypes'
    BY WellFormedNext
<1>1. WellFormed(queue) /\ OtherTypes
    BY InvParts
<1>2. 0 \in U64 /\ 0 \in Timestamp /\ MaxU64 \in Nat /\ MaxSlot \in U64
    BY WidthAssumption, ProgramAssumption DEF U64, Timestamp
<1>3. unix_timestamp \in Timestamp /\ slot \in 0..MaxSlot /\ auction_state \in AuctionState
    BY <1>1 DEF OtherTypes
<1>4. ASSUME NEW batch_interval \in Intervals, Initialize(batch_interval)
      PROVE  WellFormed(queue') /\ OtherTypes'
    <2>1. WellFormed(queue')
        BY <1>4, EmptyWellFormed DEF Initialize
    <2>2. auction_state' \in AuctionState
        BY <1>2, <1>4, ProgramAssumption DEF Initialize, AuctionState
    <2> QED BY <1>1, <1>4, <2>1, <2>2 DEF Initialize, OtherTypes, clock
<1>5. ASSUME NEW owner \in Owner, NEW p \in Params, PlaceOrder(owner, p)
      PROVE  WellFormed(queue') /\ OtherTypes'
    <2> DEFINE at == Route(p)
               o == NewOrder(owner, p, Len(queue[at]))
    <2>1. at \in AuctionType /\ p \in PlaceOrderParams
        BY RouteIsAuction, ProgramAssumption
    <2>2. /\ queue[at] \in Seq(Queued(at)) /\ Len(queue[at]) \in Nat
          /\ Len(queue[at]) < MaxOrders
        BY <1>1, <1>5, <2>1 DEF WellFormed, PlaceOrder
    <2>3. o \in Queued(at)
        BY <1>3, <1>5, <2>1, <2>2, NewOrderQueued DEF PlaceOrder
    <2>4. queue' = [queue EXCEPT ![at] = Append(queue[at], o)]
        BY <1>5 DEF PlaceOrder
    <2> HIDE DEF o, at
    <2>5. /\ Append(queue[at], o) \in Seq(Queued(at))
          /\ Len(Append(queue[at], o)) <= MaxOrders
        BY <2>2, <2>3, ProgramAssumption
    <2>6. Append(queue[at], o) \in Seq(Order)
        BY <2>5, QueuedAreOrders
    <2>7. WellFormed(queue')
        BY <1>1, <2>1, <2>4, <2>5, <2>6 DEF WellFormed
    <2> QED BY <1>1, <1>5, <2>7 DEF PlaceOrder, OtherTypes, clock
<1>6. ASSUME NEW owner \in Owner, CancelAllOrders(owner)
      PROVE  WellFormed(queue') /\ OtherTypes'
    <2>1. WellFormed(queue')
        BY <1>1, <1>6, WithoutOwnerWellFormed DEF CancelAllOrders
    <2> QED BY <1>1, <1>6, <2>1 DEF CancelAllOrders, OtherTypes, clock
<1>7. ASSUME NEW owner \in Owner, NEW ps \in ParamLists, PlaceMultipleOrders(owner, ps)
      PROVE  WellFormed(queue') /\ OtherTypes'
    <2>1. ps \in Seq(PlaceOrderParams)
        BY ProgramAssumption
    <2> QED BY <1>7, <2>1, PostWellFormed
<1>8. ASSUME NEW owner \in Owner, NEW ps \in ParamLists,
             CancelAllAndPostNewOrders(owner, ps)
      PROVE  WellFormed(queue') /\ OtherTypes'
    <2>1. ps \in Seq(PlaceOrderParams)
        BY ProgramAssumption
    <2> QED BY <1>8, <2>1, CancelAndPostWellFormed
<1>9. ASSUME NEW batch_id \in BatchIds, InitializeResult(batch_id)
      PROVE  WellFormed(queue') /\ OtherTypes'
    <2> DEFINE r == [batch_id |-> 0, bid_clearing_price |-> 0, bid_volume |-> 0,
                     ask_clearing_price |-> 0, ask_volume |-> 0, timestamp |-> 0]
    <2>1. r \in AuctionResult
        BY <1>2 DEF AuctionResult
    <2>2. results' = WithResult(batch_id, r)
        BY <1>9 DEF InitializeResult
    <2>3. /\ DOMAIN results' \subseteq BatchIds
          /\ \A b \in DOMAIN results' : results'[b] \in AuctionResult
        BY <1>1, <2>1, <2>2, WithResultType
    <2> QED BY <1>1, <1>9, <2>3 DEF InitializeResult, OtherTypes, clock
<1>10. ASSUME NEW batch_id \in BatchIds, ExecuteBatch(batch_id)
       PROVE  WellFormed(queue') /\ OtherTypes'
    <2>1. ASSUME NEW at \in AuctionType
          PROVE  /\ queue[at] \in Seq(Order)
                 /\ AfterBatch(queue[at], at) \in Seq(Order)
                 /\ AfterBatch(queue[at], at) \in Seq(Queued(at))
                 /\ Len(AfterBatch(queue[at], at)) <= MaxOrders
        <3>1. queue[at] \in Seq(Queued(at)) /\ Len(queue[at]) <= MaxOrders
            BY <1>1, <2>1 DEF WellFormed
        <3>2. /\ AfterBatch(queue[at], at) \in Seq(Queued(at))
              /\ Len(AfterBatch(queue[at], at)) <= MaxOrders
            BY <2>1, <3>1, AfterBatchWellFormed
        <3>3. queue[at] \in Seq(Order) /\ AfterBatch(queue[at], at) \in Seq(Order)
            BY <3>1, <3>2, QueuedAreOrders
        <3> QED BY <3>2, <3>3
    <2>2. WellFormed(queue')
        <3>1. queue' = [at \in AuctionType |-> AfterBatch(queue[at], at)]
            BY <1>10 DEF ExecuteBatch, Executable
        <3> QED BY <2>1, <3>1 DEF WellFormed
    <2>3. auction_state' \in AuctionState
        <3>1. slot \in U64
            BY <1>2, <1>3 DEF U64
        <3>2. auction_state.batch_counter + 1 \in U64
            BY <1>2, <1>3, <1>10 DEF ExecuteBatch, Executable, AuctionState, U64
        <3> QED BY <1>3, <1>10, <3>1, <3>2 DEF ExecuteBatch, Executable, AuctionState
    <2>4. BatchResult \in AuctionResult
        <3>1. \A at \in AuctionType :
                 /\ ClearingPrice(queue[at], at) \in U64
                 /\ ClearingVolume(queue[at], at) \in U64
            BY <1>10, <2>1, ClearingType DEF ExecuteBatch, Executable
        <3>2. auction_state.batch_counter + 1 \in U64
            BY <1>2, <1>3, <1>10 DEF ExecuteBatch, Executable, AuctionState, U64
        <3>3. "Bid" \in AuctionType /\ "Ask" \in AuctionType
            BY DEF AuctionType
        <3> QED BY <1>3, <3>1, <3>2, <3>3 DEF AuctionResult, BatchResult
    <2>5. results' = WithResult(batch_id, BatchResult)
        BY <1>10 DEF ExecuteBatch, Executable
    <2>6. /\ DOMAIN results' \subseteq BatchIds
          /\ \A b \in DOMAIN results' : results'[b] \in AuctionResult
        BY <1>1, <2>4, <2>5, WithResultType
    <2> QED BY <1>1, <1>10, <2>2, <2>3, <2>6 DEF ExecuteBatch, Executable, OtherTypes, clock
<1>11. ASSUME Tick PROVE WellFormed(queue') /\ OtherTypes'
    <2>1. slot' \in 0..MaxSlot /\ unix_timestamp' \in Timestamp
        BY <1>2, <1>3, <1>11 DEF Tick, U64
    <2> QED BY <1>1, <1>11, <2>1 DEF Tick, accounts, OtherTypes
<1>12. ASSUME UNCHANGED vars PROVE WellFormed(queue') /\ OtherTypes'
    BY <1>1, <1>12 DEF vars, OtherTypes
<1> QED BY <1>4, <1>5, <1>6, <1>7, <1>8, <1>9, <1>10, <1>11, <1>12 DEF Next, Trade

(* Every account has its declared type, whatever the requests: no order is *)
(* filled beyond a u64 and no volume reported that is not one.             *)
THEOREM TypeCorrect == Spec => []TypeOK
<1>1. Inv => TypeOK
    BY DEF Inv
<1> QED BY InitInv, StepInv, <1>1, PTL DEF Spec

(* The queues only ever hold open orders of their kind, within capacity.   *)
THEOREM QueuesAreClean == Spec => []QueuesHoldOpenOrders
<1>1. Inv => QueuesHoldOpenOrders
    BY DEF Inv
<1> QED BY InitInv, StepInv, <1>1, PTL DEF Spec

(* In every reachable book that is small enough, the auction does not      *)
(* overflow, so that no order in it can keep batches from executing.       *)
THEOREM NoPanicInSmallBooks == Spec => []SmallBooksNeverPanic
<1>1. Inv => SmallBooksNeverPanic
    <2>1. SUFFICES ASSUME Inv, NEW at \in AuctionType,
                   Volume(queue[at], Makers(queue[at])) <= MaxU64,
                   Volume(queue[at], Takers(queue[at]))
                      * Volume(queue[at], Takers(queue[at])) <= MaxU64
          PROVE  ~ Panics(queue[at], at)
        BY DEF SmallBooksNeverPanic
    <2>2. queue[at] \in Seq(Order)
        BY <2>1 DEF Inv, TypeOK
    <2> QED BY <2>1, <2>2, SmallBookDoesNotPanic
<1> QED BY InitInv, StepInv, <1>1, PTL DEF Spec

-----------------------------------------------------------------------------
(* The log of batches.                                                     *)

LEMMA StateTypes ==
    ASSUME Inv
    PROVE  /\ auction_state.batch_counter \in Nat /\ auction_state.batch_interval \in Nat
           /\ auction_state.last_batch_slot \in Nat
           /\ slot \in Nat /\ unix_timestamp \in Nat
           /\ auction_state \in AuctionState
           /\ \A b \in DOMAIN results :
                 results[b].batch_id \in Nat /\ results[b].timestamp \in Nat
<1>1. /\ auction_state \in AuctionState /\ slot \in 0..MaxSlot
      /\ unix_timestamp \in Timestamp
      /\ \A b \in DOMAIN results : results[b] \in AuctionResult
    BY DEF Inv, TypeOK
<1> QED BY <1>1 DEF AuctionState, AuctionResult, U64, Timestamp

LEMMA StepLog ==
    Inv /\ ResultsNumberTheBatches /\ [Next]_vars => ResultsNumberTheBatches'
<1> SUFFICES ASSUME Inv, ResultsNumberTheBatches, [Next]_vars
             PROVE  ResultsNumberTheBatches'
    OBVIOUS
<1> DEFINE c == auction_state.batch_counter
<1>1. /\ c \in Nat /\ unix_timestamp \in Nat
      /\ auction_state \in AuctionState
      /\ \A b \in DOMAIN results :
            results[b].batch_id \in Nat /\ results[b].timestamp \in Nat
    BY StateTypes
<1>2. /\ \A n \in 1..c : \E b \in Executed : results[b].batch_id = n
      /\ \A b \in Executed : results[b].batch_id \in 1..c
    BY DEF ResultsNumberTheBatches
<1>3. ASSUME NEW batch_interval \in Intervals, Initialize(batch_interval)
      PROVE  ResultsNumberTheBatches'
    <2>1. /\ ~ initialized /\ initialized' = TRUE /\ results' = results
          /\ unix_timestamp' = unix_timestamp /\ auction_state'.batch_counter = 0
        BY <1>3 DEF Initialize, clock
    <2>2. auction_state.batch_counter = 0
        BY <2>1 DEF ResultsNumberTheBatches
    <2> QED BY <2>1, <2>2 DEF ResultsNumberTheBatches, Executed
<1>4. ASSUME NEW batch_id \in BatchIds, InitializeResult(batch_id)
      PROVE  ResultsNumberTheBatches'
    <2>1. /\ batch_id \notin DOMAIN results
          /\ DOMAIN results' = DOMAIN results \cup {batch_id}
          /\ results'[batch_id].batch_id = 0
          /\ \A b \in DOMAIN results : results'[b] = results[b]
          /\ UNCHANGED <<auction_state, initialized, unix_timestamp>>
        BY <1>4 DEF InitializeResult, WithResult, clock
    <2>2. Executed' = Executed
        BY <2>1 DEF Executed
    <2>3. \A b \in Executed : results'[b] = results[b]
        BY <2>1 DEF Executed
    <2> QED BY <2>1, <2>2, <2>3 DEF ResultsNumberTheBatches
<1>5. ASSUME NEW batch_id \in BatchIds, ExecuteBatch(batch_id)
      PROVE  ResultsNumberTheBatches'
    <2>1. /\ batch_id \notin DOMAIN results
          /\ DOMAIN results' = DOMAIN results \cup {batch_id}
          /\ results'[batch_id].batch_id = c + 1
          /\ results'[batch_id].timestamp = unix_timestamp
          /\ \A b \in DOMAIN results : results'[b] = results[b]
          /\ unix_timestamp' = unix_timestamp /\ initialized' = initialized /\ initialized
        BY <1>5 DEF ExecuteBatch, Executable, WithResult, BatchResult, clock
    <2>2. auction_state'.batch_counter = c + 1
        BY <1>1, <1>5 DEF ExecuteBatch, Executable, AuctionState
    <2>3. /\ Executed' = Executed \cup {batch_id} /\ batch_id \notin Executed
          /\ \A b \in Executed : results'[b] = results[b]
        BY <1>1, <2>1 DEF Executed
    <2> HIDE DEF c
    <2>4. {results'[b].batch_id : b \in Executed'} = 1..(c + 1)
        <3>1. \A b \in Executed' : results'[b].batch_id \in 1..(c + 1)
            BY <1>1, <1>2, <2>1, <2>3
        <3>2. ASSUME NEW n \in 1..(c + 1)
              PROVE  \E b \in Executed' : results'[b].batch_id = n
            <4>1. CASE n = c + 1
                BY <4>1, <2>1, <2>3
            <4>2. CASE n # c + 1
                <5>1. n \in 1..c
                    BY <1>1, <4>2
                <5>2. PICK b \in Executed : results[b].batch_id = n
                    BY <1>2, <5>1
                <5> QED BY <2>3, <5>2
            <4> QED BY <4>1, <4>2
        <3> QED BY <3>1, <3>2
    <2>5. ASSUME NEW b \in Executed', NEW e \in Executed'
          PROVE  /\ results'[b].batch_id = results'[e].batch_id => b = e
                 /\ results'[b].batch_id < results'[e].batch_id
                       => results'[b].timestamp <= results'[e].timestamp
        <3>1. CASE b \in Executed /\ e \in Executed
            BY <2>3, <3>1 DEF ResultsNumberTheBatches
        <3>2. CASE b = batch_id /\ e = batch_id
            BY <1>1, <2>1, <3>2
        <3>3. CASE b \in Executed /\ e = batch_id
            <4>1. results[b].batch_id \in 1..c /\ results[b].timestamp <= unix_timestamp
                BY <1>2, <3>3 DEF ResultsNumberTheBatches
            <4> QED BY <1>1, <2>1, <2>3, <3>3, <4>1
        <3>4. CASE b = batch_id /\ e \in Executed
            <4>1. results[e].batch_id \in 1..c
                BY <1>2, <3>4
            <4> QED BY <1>1, <2>1, <2>3, <3>4, <4>1
        <3> QED BY <2>3, <3>1, <3>2, <3>3, <3>4
    <2>6. \A b \in Executed' : results'[b].timestamp <= unix_timestamp'
        BY <1>1, <2>1, <2>3 DEF ResultsNumberTheBatches
    <2> QED BY <2>1, <2>2, <2>4, <2>5, <2>6 DEF ResultsNumberTheBatches
<1>6. ASSUME Tick PROVE ResultsNumberTheBatches'
    <2>1. /\ UNCHANGED <<auction_state, initialized, results>>
          /\ unix_timestamp' \in {unix_timestamp, unix_timestamp + 1}
        BY <1>6 DEF Tick, accounts
    <2>2. \A b \in Executed : results[b].timestamp <= unix_timestamp'
        <3>1. \A b \in Executed :
                 results[b].timestamp \in Nat /\ results[b].timestamp <= unix_timestamp
            BY <1>1 DEF Executed, ResultsNumberTheBatches
        <3> QED BY <1>1, <2>1, <3>1
    <2> QED BY <2>1, <2>2 DEF ResultsNumberTheBatches, Executed
<1>7. ASSUME UNCHANGED <<auction_state, initialized, results, unix_timestamp>>
      PROVE  ResultsNumberTheBatches'
    BY <1>7 DEF ResultsNumberTheBatches, Executed
<1>8. ASSUME NEW owner \in Owner,
             \/ \E p \in Params : PlaceOrder(owner, p)
             \/ CancelAllOrders(owner)
             \/ \E ps \in ParamLists : \/ PlaceMultipleOrders(owner, ps)
                                      \/ CancelAllAndPostNewOrders(owner, ps)
      PROVE  UNCHANGED <<auction_state, initialized, results, unix_timestamp>>
    BY <1>8 DEF PlaceOrder, CancelAllOrders, PlaceMultipleOrders,
                CancelAllAndPostNewOrders, clock
<1>9. ASSUME UNCHANGED vars
      PROVE  UNCHANGED <<auction_state, initialized, results, unix_timestamp>>
    BY <1>9 DEF vars
<1> QED BY <1>3, <1>4, <1>5, <1>6, <1>7, <1>8, <1>9 DEF Next, Trade

(* Whatever ids the callers name, the executed batches are numbered        *)
(* without gap or repetition, in the order of their time.                  *)
THEOREM LogIsGapless == Spec => []ResultsNumberTheBatches
<1>1. Init => ResultsNumberTheBatches
    <2>1. ASSUME Init PROVE Executed = {}
        BY <2>1 DEF Init, Executed
    <2>2. ASSUME Init PROVE auction_state.batch_counter = 0
        BY <2>2 DEF Init
    <2> QED BY <2>1, <2>2 DEF ResultsNumberTheBatches
<1> QED BY InitInv, StepInv, StepLog, <1>1, PTL DEF Spec

-----------------------------------------------------------------------------
(* The distance between batches.                                           *)

(* Before initialize there has been no batch.                              *)
Unstarted == ~ initialized => auction_state.last_batch_slot = 0

LEMMA TradesLeaveState ==
    ASSUME Trade
    PROVE  UNCHANGED <<initialized, auction_state>>
BY DEF Trade, PlaceOrder, CancelAllOrders, PlaceMultipleOrders,
       CancelAllAndPostNewOrders, clock

LEMMA StepUnstarted == Unstarted /\ [Next]_vars => Unstarted'
<1> SUFFICES ASSUME Unstarted, [Next]_vars PROVE Unstarted'
    OBVIOUS
<1>1. CASE \E batch_interval \in Intervals : Initialize(batch_interval)
    BY <1>1 DEF Initialize, Unstarted
<1>2. CASE \E batch_id \in BatchIds : ExecuteBatch(batch_id)
    BY <1>2 DEF ExecuteBatch, Executable, Unstarted
<1>3. CASE UNCHANGED <<initialized, auction_state>>
    BY <1>3 DEF Unstarted
<1> QED BY <1>1, <1>2, <1>3, TradesLeaveState
       DEF Next, InitializeResult, Tick, accounts, clock, vars

(* A step of BatchesKeepTheInterval.                                       *)
IntervalStep ==
    /\ BatchStep =>
          /\ slot >= auction_state.last_batch_slot + auction_state.batch_interval
          /\ auction_state'.last_batch_slot = slot
    /\ ~ BatchStep =>
          auction_state'.last_batch_slot =
             IF initialized THEN auction_state.last_batch_slot ELSE 0
    /\ initialized =>
          auction_state'.batch_interval = auction_state.batch_interval

LEMMA StepInterval ==
    Inv /\ Unstarted /\ ResultsNumberTheBatches /\ [Next]_vars => IntervalStep
<1> SUFFICES ASSUME Inv, Unstarted, ResultsNumberTheBatches, [Next]_vars
             PROVE  IntervalStep
    OBVIOUS
<1>1. auction_state \in AuctionState /\ auction_state.batch_counter \in Nat
    BY StateTypes
<1>2. CASE \E batch_interval \in Intervals : Initialize(batch_interval)
    <2>1. ~ initialized /\ auction_state.batch_counter = 0
        BY <1>2 DEF Initialize, ResultsNumberTheBatches
    <2>2. auction_state'.batch_counter = 0 /\ auction_state'.last_batch_slot = 0
        BY <1>2 DEF Initialize
    <2> QED BY <2>1, <2>2 DEF IntervalStep, BatchStep
<1>3. CASE \E batch_id \in BatchIds : ExecuteBatch(batch_id)
    <2>1. /\ auction_state' = [auction_state EXCEPT !.last_batch_slot = slot,
                                                   !.batch_counter = @ + 1]
          /\ BatchDue
        BY <1>3 DEF ExecuteBatch, Executable
    <2>2. /\ auction_state'.batch_counter = auction_state.batch_counter + 1
          /\ auction_state'.batch_interval = auction_state.batch_interval
          /\ auction_state'.last_batch_slot = slot
        BY <1>1, <2>1 DEF AuctionState
    <2>3. BatchStep
        BY <1>1, <2>2 DEF BatchStep
    <2> QED BY <2>1, <2>2, <2>3 DEF IntervalStep, BatchDue
<1>4. CASE UNCHANGED <<initialized, auction_state>>
    BY <1>4 DEF IntervalStep, BatchStep, Unstarted
<1> QED BY <1>2, <1>3, <1>4, TradesLeaveState
       DEF Next, InitializeResult, Tick, accounts, clock, vars

(* However slots pass and whoever cranks, a batch is at least the interval *)
(* after the one before it, the first after slot 0, and nothing else moves *)
(* the slot of the last batch or, once it is set, the interval.            *)
THEOREM IntervalKept == Spec => BatchesKeepTheInterval
<1>1. Init => Unstarted
    BY DEF Init, Unstarted
<1> QED BY <1>1, InitInv, StepInv, StepUnstarted, StepInterval, LogIsGapless, PTL
       DEF Spec, BatchesKeepTheInterval, IntervalStep

-----------------------------------------------------------------------------
(* Clients that follow the counter.                                        *)

(* With ids that are never ahead of the program, results are where their   *)
(* numbers say, and accounts beyond the counter are those nobody executed. *)
ResultsInPlace ==
    /\ \A b \in DOMAIN results :
          results[b].batch_id = IF b <= auction_state.batch_counter THEN b ELSE 0
    /\ 1..auction_state.batch_counter \subseteq DOMAIN results
    /\ ~ initialized => auction_state.batch_counter = 0

LEMMA BatchTypes ==
    ASSUME Inv
    PROVE  /\ auction_state \in AuctionState
           /\ auction_state.batch_counter \in Nat
           /\ BatchIds \subseteq Nat /\ DOMAIN results \subseteq BatchIds
<1>1. BatchIds \subseteq Nat
    BY WidthAssumption, ProgramAssumption DEF U64
<1> QED BY <1>1, StateTypes DEF Inv, TypeOK

(* Only the next id can be executed, and it is executed in its place.      *)
LEMMA ExecutesTheNext ==
    ASSUME Inv, ResultsInPlace,
           NEW b \in BatchIds, b \in 1..(auction_state.batch_counter + 1), ExecuteBatch(b)
    PROVE  /\ b = auction_state.batch_counter + 1
           /\ b \notin DOMAIN results
           /\ auction_state'.batch_counter = auction_state.batch_counter + 1
           /\ ResultsInPlace'
<1> DEFINE c == auction_state.batch_counter
<1>1. /\ c \in Nat /\ auction_state \in AuctionState
      /\ BatchIds \subseteq Nat /\ DOMAIN results \subseteq BatchIds
    BY BatchTypes
<1>2. /\ b \notin DOMAIN results /\ initialized /\ initialized' = initialized
    BY DEF ExecuteBatch, Executable
<1>3. b = c + 1
    BY <1>1, <1>2 DEF ResultsInPlace
<1>4. auction_state'.batch_counter = c + 1
    BY <1>1 DEF ExecuteBatch, AuctionState
<1>5. /\ DOMAIN results' = DOMAIN results \cup {b}
      /\ results'[b].batch_id = c + 1
      /\ \A d \in DOMAIN results : results'[d] = results[d]
    BY <1>2 DEF ExecuteBatch, WithResult, BatchResult
<1>6. ASSUME NEW d \in DOMAIN results'
      PROVE  results'[d].batch_id = IF d <= c + 1 THEN d ELSE 0
    <2>1. CASE d = b
        BY <1>1, <1>3, <1>5, <2>1
    <2>2. CASE d # b
        <3>1. d \in DOMAIN results /\ d \in Nat /\ d # c + 1
            BY <1>1, <1>3, <1>5, <1>6, <2>2
        <3>2. d <= c + 1 <=> d <= c
            BY <1>1, <3>1
        <3> QED BY <1>5, <3>1, <3>2 DEF ResultsInPlace
    <2> QED BY <2>1, <2>2
<1>7. 1..(c + 1) \subseteq DOMAIN results'
    BY <1>1, <1>3, <1>5 DEF ResultsInPlace
<1> QED BY <1>2, <1>3, <1>4, <1>6, <1>7 DEF ResultsInPlace

(* A step of the program that executes no batch keeps the results in place *)
(* and as they are, and the counter where it is.                           *)
LEMMA QuietStepsKeepPlaces ==
    ASSUME Inv, ResultsInPlace,
           \/ \E interval \in Intervals : Initialize(interval)
           \/ \E b \in BatchIds : InitializeResult(b)
           \/ Trade \/ Tick \/ UNCHANGED vars
    PROVE  /\ ResultsInPlace'
           /\ auction_state'.batch_counter = auction_state.batch_counter
<1> DEFINE c == auction_state.batch_counter
<1>1. /\ c \in Nat /\ BatchIds \subseteq Nat /\ DOMAIN results \subseteq BatchIds
    BY BatchTypes
<1>2. ASSUME NEW interval \in Intervals, Initialize(interval)
      PROVE  ResultsInPlace' /\ auction_state'.batch_counter = c
    BY <1>2 DEF Initialize, ResultsInPlace
<1>3. ASSUME NEW b \in BatchIds, InitializeResult(b)
      PROVE  ResultsInPlace' /\ auction_state'.batch_counter = c
    <2>1. /\ b \notin DOMAIN results
          /\ DOMAIN results' = DOMAIN results \cup {b}
          /\ results'[b].batch_id = 0
          /\ \A d \in DOMAIN results : results'[d] = results[d]
          /\ UNCHANGED <<auction_state, initialized>>
        BY <1>3 DEF InitializeResult, WithResult
    <2>2. ~ (b \in 1..c)
        BY <2>1 DEF ResultsInPlace
    <2>3. b = (IF b <= c THEN b ELSE b) /\ (b <= c => b = 0)
        BY <1>1, <2>2
    <2>4. \A d \in DOMAIN results' :
             results'[d].batch_id = IF d <= c THEN d ELSE 0
        BY <1>1, <2>1, <2>3 DEF ResultsInPlace
    <2> QED BY <2>1, <2>4 DEF ResultsInPlace
<1>4. ASSUME UNCHANGED <<auction_state, initialized, results>>
      PROVE  ResultsInPlace' /\ auction_state'.batch_counter = c
    BY <1>4 DEF ResultsInPlace
<1>5. ASSUME Trade PROVE UNCHANGED <<auction_state, initialized, results>>
    BY <1>5 DEF Trade, PlaceOrder, CancelAllOrders, PlaceMultipleOrders,
                CancelAllAndPostNewOrders
<1>6. Tick => UNCHANGED <<auction_state, initialized, results>>
    BY DEF Tick, accounts
<1>7. UNCHANGED vars => UNCHANGED <<auction_state, initialized, results>>
    BY DEF vars
<1> QED BY <1>2, <1>3, <1>4, <1>5, <1>6, <1>7

(* What is in a result account stays there.                                *)
LEMMA ResultsAreFinal ==
    ASSUME [Next]_vars
    PROVE  /\ DOMAIN results \subseteq DOMAIN results'
           /\ \A b \in DOMAIN results : results'[b] = results[b]
<1>1. ASSUME NEW b, InitializeResult(b) \/ ExecuteBatch(b)
      PROVE  /\ DOMAIN results \subseteq DOMAIN results'
             /\ \A d \in DOMAIN results : results'[d] = results[d]
    BY <1>1 DEF InitializeResult, ExecuteBatch, Executable, WithResult
<1>2. ASSUME ~ \E b \in BatchIds : InitializeResult(b) \/ ExecuteBatch(b)
      PROVE  UNCHANGED results
    BY <1>2 DEF Next, Initialize, Trade, PlaceOrder, CancelAllOrders, PlaceMultipleOrders,
                CancelAllAndPostNewOrders, Tick, accounts, vars
<1> QED BY <1>1, <1>2

LEMMA InitInPlace == Init => ResultsInPlace
<1>1. Init => auction_state.batch_counter = 0 /\ DOMAIN results = {}
    BY DEF Init
<1> QED BY <1>1 DEF ResultsInPlace

-----------------------------------------------------------------------------
(* The auction of every book the program can reach.                        *)

LEMMA QueueType ==
    ASSUME Inv, NEW at \in AuctionType
    PROVE  queue[at] \in Seq(Order)
BY DEF Inv, TypeOK

LEMMA ReceiptsAreFills ==
    ASSUME NEW orders \in Seq(Order), NEW at
    PROVE  /\ Receipts(orders, at) = Fills(orders, at)
           /\ \A i \in Takers(orders) \cup Makers(orders) :
                 Receipts(orders, at)[i] = Fill(orders, at, ClearingPrice(orders, at), i)
<1> DEFINE price == ClearingPrice(orders, at)
           e(i) == Traded(orders, at)[i].filled_quantity - orders[i].filled_quantity
           fill(i) == Fill(orders, at, price, i)
<1>1. ASSUME NEW i \in 1..Len(orders) PROVE e(i) = fill(i)
    <2>1. orders[i] \in Order /\ fill(i) \in Nat
        BY ElementOfSeq, FillBounds
    <2>2. Traded(orders, at)[i] = [orders[i] EXCEPT !.filled_quantity = @ + fill(i)]
        BY DEF Traded
    <2> HIDE DEF fill
    <2>3. orders[i].filled_quantity \in Nat
        <3>1. orders[i].filled_quantity \in 0..MaxU64
            BY <2>1 DEF Order, U64
        <3> QED BY <3>1, WidthAssumption
    <2>4. Traded(orders, at)[i].filled_quantity = orders[i].filled_quantity + fill(i)
        BY <2>1, <2>2 DEF Order
    <2> QED BY <2>1, <2>3, <2>4
<1>2. /\ Receipts(orders, at) = [i \in 1..Len(orders) |-> e(i)]
      /\ Fills(orders, at) = [i \in 1..Len(orders) |-> fill(i)]
    BY DEF Receipts, Fills
<1>3. \A i \in Takers(orders) \cup Makers(orders) : i \in 1..Len(orders)
    BY Participants
<1> HIDE DEF e
<1> QED BY <1>1, <1>2, <1>3

(* The auction looks for its price among those of the orders only.  In any *)
(* queue, with any number of orders and prices, no other price would match *)
(* more, and no lower one as much.                                         *)
THEOREM NoBetterPrice == Spec => []ClearingIsOptimal
<1>1. Inv => ClearingIsOptimal
    <2>1. SUFFICES ASSUME Inv, NEW at \in AuctionType, NEW price \in U64
                   PROVE  LET orders == queue[at]
                              volume == VolumeAtPrice(orders, at, price)
                          IN  /\ volume <= ClearingVolume(orders, at)
                              /\ price < ClearingPrice(orders, at)
                                    => volume < ClearingVolume(orders, at)
        BY DEF ClearingIsOptimal
    <2>2. queue[at] \in Seq(Order) /\ price \in Nat
        BY <2>1, QueueType, WidthAssumption DEF U64
    <2> QED BY <2>2, ClearingPriceIsOptimal
<1> QED BY InitInv, StepInv, <1>1, PTL DEF Spec

(* Whatever the book, the loop over the price groups serves a taker only   *)
(* when everyone with a better price has all it asked for.                 *)
THEOREM BetterPricesFirst == Spec => []TakersServedInPriceOrder
<1>1. Inv => TakersServedInPriceOrder
    <2>1. SUFFICES ASSUME Inv, NEW at \in AuctionType, NEW i \in Takers(queue[at]),
                          Receipts(queue[at], at)[i] > 0
                   PROVE  /\ TakerAccepts(queue[at][i], at, ClearingPrice(queue[at], at))
                          /\ \A j \in Takers(queue[at]) :
                                Outbids(at, queue[at][j].price, queue[at][i].price)
                                   => Receipts(queue[at], at)[j] = Open(queue[at][j])
        BY DEF TakersServedInPriceOrder
    <2>2. PICK orders \in Seq(Order) : orders = queue[at]
        BY <2>1, QueueType
    <2>3. ClearingPrice(orders, at) \in Nat
        BY ClearingType, WidthAssumption DEF U64
    <2>4. \A j \in Takers(orders) :
             Receipts(orders, at)[j] = Fill(orders, at, ClearingPrice(orders, at), j)
        BY ReceiptsAreFills
    <2>5. i \in Takers(orders) /\ Fill(orders, at, ClearingPrice(orders, at), i) > 0
        BY <2>1, <2>2, <2>4
    <2>6. /\ TakerAccepts(orders[i], at, ClearingPrice(orders, at))
          /\ \A j \in Takers(orders) :
                Outbids(at, orders[j].price, orders[i].price)
                   => Fill(orders, at, ClearingPrice(orders, at), j) = Open(orders[j])
        BY <2>3, <2>5, TakersFillInPriceOrder
    <2> QED BY <2>2, <2>4, <2>6
<1> QED BY InitInv, StepInv, <1>1, PTL DEF Spec

(* However many takers there are at a price, the roundings of their shares *)
(* never put one of them a whole unit ahead of its proportion to another.  *)
THEOREM ProportionalShares == Spec => []TakersOfOnePriceShareAlike
<1>1. Inv => TakersOfOnePriceShareAlike
    <2>1. SUFFICES ASSUME Inv, NEW at \in AuctionType,
                          NEW i \in Takers(queue[at]), NEW j \in Takers(queue[at]),
                          queue[at][i].price = queue[at][j].price
                   PROVE  Receipts(queue[at], at)[i] * Open(queue[at][j])
                             < (Receipts(queue[at], at)[j] + 1) * Open(queue[at][i])
        BY DEF TakersOfOnePriceShareAlike
    <2>2. PICK orders \in Seq(Order) : orders = queue[at]
        BY <2>1, QueueType
    <2>3. \A k \in Takers(orders) :
             Receipts(orders, at)[k] = Fill(orders, at, ClearingPrice(orders, at), k)
        BY ReceiptsAreFills
    <2>4. i \in Takers(orders) /\ j \in Takers(orders) /\ orders[i].price = orders[j].price
        BY <2>1, <2>2
    <2>5. Fill(orders, at, ClearingPrice(orders, at), i) * Open(orders[j])
             < (Fill(orders, at, ClearingPrice(orders, at), j) + 1) * Open(orders[i])
        BY <2>4, TakersOfAPriceShareAlike
    <2> QED BY <2>2, <2>3, <2>4, <2>5
<1> QED BY InitInv, StepInv, <1>1, PTL DEF Spec

(* The reported volume is what the takers receive, but for less than one   *)
(* unit for each taker of the price at which the volume runs out: the      *)
(* roundings of the other levels do not add to it.                         *)
THEOREM ShortfallIsOneLevel == Spec => []ShortfallWithinOneLevel
<1>1. Inv => ShortfallWithinOneLevel
    <2>1. SUFFICES ASSUME Inv, NEW at \in AuctionType
                   PROVE  LET orders == queue[at]
                              takers == TakersAt(orders, at, ClearingPrice(orders, at))
                              shortfall == ClearingVolume(orders, at)
                                   - SumOver(Receipts(orders, at), Takers(orders))
                          IN  /\ shortfall >= 0
                              /\ shortfall > 0 =>
                                    \E i \in takers :
                                       shortfall < Cardinality(SameLevel(orders, takers, i))
        BY DEF ShortfallWithinOneLevel
    <2>2. PICK orders \in Seq(Order) : orders = queue[at]
        BY <2>1, QueueType
    <2> DEFINE T == TakersAt(orders, at, ClearingPrice(orders, at))
    <2>3. PICK received \in Nat, volume \in Nat :
              /\ received = SumOver(Receipts(orders, at), Takers(orders))
              /\ volume = ClearingVolume(orders, at)
        BY TakersShortfall, ReceiptsAreFills, ClearingType
    <2>4. /\ received <= volume
          /\ \/ received = volume
             \/ \E m \in T : volume - received < Cardinality(SameLevel(orders, T, m))
        BY <2>3, TakersShortfall, ReceiptsAreFills
    <2> HIDE DEF T
    <2>5. /\ volume - received >= 0
          /\ volume - received > 0 =>
                \E m \in T : volume - received < Cardinality(SameLevel(orders, T, m))
        BY <2>4
    <2> QED BY <2>2, <2>3, <2>5 DEF T
<1> QED BY InitInv, StepInv, <1>1, PTL DEF Spec

-----------------------------------------------------------------------------
(* What a batch does to the queues.                                        *)

(* A step that is a batch is an execute_batch: initialize cannot reset a   *)
(* counter that has moved.                                                 *)
LEMMA BatchIsExecuted ==
    ASSUME ResultsNumberTheBatches, [Next]_vars, BatchStep
    PROVE  \E b \in BatchIds : ExecuteBatch(b)
<1>1. ASSUME NEW interval \in Intervals, Initialize(interval) PROVE FALSE
    <2>1. auction_state.batch_counter = 0 /\ auction_state'.batch_counter = 0
        BY <1>1 DEF Initialize, ResultsNumberTheBatches
    <2> QED BY <2>1 DEF BatchStep
<1>2. ASSUME UNCHANGED auction_state PROVE FALSE
    BY <1>2 DEF BatchStep
<1>3. Trade => UNCHANGED auction_state
    BY DEF Trade, PlaceOrder, CancelAllOrders, PlaceMultipleOrders,
           CancelAllAndPostNewOrders
<1>4. Tick \/ UNCHANGED vars \/ (\E b \in BatchIds : InitializeResult(b))
         => UNCHANGED auction_state
    BY DEF Tick, accounts, vars, InitializeResult
<1> QED BY <1>1, <1>2, <1>3, <1>4 DEF Next

LEMMA ExecutedQueues ==
    ASSUME Inv, NEW b \in BatchIds, ExecuteBatch(b), NEW at \in AuctionType
    PROVE  LET traded == Traded(queue[at], at)
               live == {i \in 1..Len(traded) : Live(traded[i])}
           IN  /\ queue[at] \in Seq(Order)
               /\ traded \in Seq(Order)
               /\ queue'[at] = Retain(traded, live)
<1>1. queue[at] \in Seq(Order)
    BY QueueType
<1>2. queue'[at] = AfterBatch(queue[at], at)
    BY DEF ExecuteBatch
<1> QED BY <1>1, <1>2, TradedOrders DEF AfterBatch

(* The orders a batch leaves are those it found, in their order, filled    *)
(* further.                                                                *)
LEMMA ExecutedFills ==
    ASSUME Inv, NEW b \in BatchIds, ExecuteBatch(b), NEW at \in AuctionType
    PROVE  \E kept \in SUBSET (1..Len(queue[at])) :
              LET rest == Retain(queue[at], kept)
              IN  /\ Len(rest) = Len(queue'[at])
                  /\ \A i \in 1..Len(queue'[at]) :
                        /\ queue'[at][i].filled_quantity >= rest[i].filled_quantity
                        /\ [queue'[at][i] EXCEPT !.filled_quantity = 0]
                              = [rest[i] EXCEPT !.filled_quantity = 0]
<1>1. PICK before \in Seq(Order) : before = queue[at]
    BY QueueType
<1>2. PICK traded \in Seq(Order) : traded = Traded(before, at) /\ Len(traded) = Len(before)
    BY TradedOrders
<1>3. PICK kept : kept = {i \in 1..Len(traded) : Live(traded[i])}
    OBVIOUS
<1>4. PICK after \in Seq(Order) : after = Retain(traded, kept) /\ after = queue'[at]
    BY <1>1, <1>2, <1>3, ExecutedQueues, RetainProperties
<1>5. PICK rest \in Seq(Order) : rest = Retain(before, kept)
    BY RetainProperties
<1>6. kept \in SUBSET (1..Len(before))
    BY <1>2, <1>3
<1>7. PICK e : e = Indices(Len(before), kept)
    OBVIOUS
<1>8. /\ Len(after) = Len(e)
      /\ \A j \in 1..Len(e) : e[j] \in 1..Len(before) /\ after[j] = traded[e[j]]
    <2>1. e = Indices(Len(traded), kept)
        BY <1>2, <1>7
    <2>2. /\ Len(Retain(traded, kept)) = Len(e)
          /\ \A j \in 1..Len(e) : /\ e[j] \in kept \cap (1..Len(traded))
                                  /\ Retain(traded, kept)[j] = traded[e[j]]
        BY <2>1, RetainByIndices
    <2> QED BY <1>2, <1>4, <2>2
<1>9. /\ Len(rest) = Len(e)
      /\ \A j \in 1..Len(e) : e[j] \in 1..Len(before) /\ rest[j] = before[e[j]]
    BY <1>5, <1>7, RetainByIndices
<1>10. ASSUME NEW i \in 1..Len(after)
       PROVE  /\ after[i].filled_quantity >= rest[i].filled_quantity
              /\ [after[i] EXCEPT !.filled_quantity = 0]
                    = [rest[i] EXCEPT !.filled_quantity = 0]
    <2>1. PICK k \in 1..Len(before) : after[i] = traded[k] /\ rest[i] = before[k]
        BY <1>8, <1>9
    <2>2. traded[k] \in FilledFrom(before[k]) /\ before[k] \in Order
        BY <1>2, TradedOrders, ElementOfSeq
    <2>3. PICK o \in Order, t \in Order : o = before[k] /\ t = traded[k]
        BY <2>2 DEF FilledFrom
    <2>4. t.filled_quantity >= o.filled_quantity
        BY <2>2, <2>3 DEF FilledFrom
    <2>5. PICK f \in U64 : t = [o EXCEPT !.filled_quantity = f]
        BY <2>2, <2>3 DEF FilledFrom
    <2>6. [t EXCEPT !.filled_quantity = 0] = [o EXCEPT !.filled_quantity = 0]
        BY <2>5 DEF Order
    <2> QED BY <2>1, <2>3, <2>4, <2>6
<1>11. Len(rest) = Len(after)
    BY <1>8, <1>9
<1> QED BY <1>1, <1>4, <1>5, <1>6, <1>10, <1>11

(* The reported volume of an auction, and what leaves its queue.           *)
LEMMA ExecutedVolumes ==
    ASSUME Inv, NEW b \in BatchIds, ExecuteBatch(b), NEW at \in AuctionType
    PROVE  LET reported == ClearingVolume(queue[at], at)
               matched == TakersOpen(queue, at) - TakersOpen(queue', at)
           IN  /\ matched <= reported
               /\ reported - matched <= Cardinality(Takers(queue[at]))
               /\ MakersOpen(queue, at) - MakersOpen(queue', at) <= reported
<1>1. PICK orders \in Seq(Order) : orders = queue[at]
    BY QueueType
<1>2. PICK after : /\ after = queue'[at]
                   /\ after = Retain(Traded(orders, at),
                                 {i \in 1..Len(Traded(orders, at)) :
                                     Live(Traded(orders, at)[i])})
    BY <1>1, ExecutedQueues
<1>3. \A s : Takers(s) = OfType(s, "Taker") /\ Makers(s) = OfType(s, "Maker")
    BY DEF Takers, Makers, OfType
<1>4. /\ Volume(orders, Takers(orders))
            = SumOver(Fills(orders, at), Takers(orders)) + Volume(after, Takers(after))
      /\ Volume(after, Takers(after)) \in Nat
      /\ Volume(orders, Makers(orders))
            = SumOver(Fills(orders, at), Makers(orders)) + Volume(after, Makers(after))
      /\ Volume(after, Makers(after)) \in Nat
    BY <1>2, <1>3, FillsLeaveVolume
<1>5. SumOver(Fills(orders, at), Makers(orders)) = 0
    <2>1. PICK fills \in Seq(Nat) :
              /\ fills = Fills(orders, at) /\ Len(fills) = Len(orders)
              /\ \A i \in 1..Len(orders) :
                    fills[i] = Fill(orders, at, ClearingPrice(orders, at), i)
        BY FillsType
    <2>2. \A i \in Makers(orders) \cap (1..Len(fills)) : fills[i] = 0
        BY <2>1, MakersAreNotFilled
    <2>3. SumOver(fills, Makers(orders)) = 0
        BY <2>2, SumZero
    <2> QED BY <2>1, <2>3
<1>6. PICK received \in Nat, volume \in Nat :
          /\ received = SumOver(Fills(orders, at), Takers(orders))
          /\ volume = ClearingVolume(orders, at)
    BY TakersShortfall, ClearingType
<1>7. Takers(orders) \subseteq 1..Len(orders) /\ IsFiniteSet(1..Len(orders))
    <2>1. PICK m \in Nat : m = Len(orders)
        OBVIOUS
    <2>2. IsFiniteSet(1..m)
        BY FS_Interval
    <2> QED BY <2>1, <2>2, Participants
<1>8. PICK n \in Nat : n = Cardinality(Takers(orders)) /\ IsFiniteSet(Takers(orders))
    BY <1>7, FS_Subset, FS_CardinalityType
<1>9. received <= volume /\ volume - received <= n
    <2>1. received <= volume
        BY <1>6, TakersShortfall
    <2>2. CASE received = volume
        BY <2>2
    <2>3. CASE received # volume
        <3>1. PICK m \in TakersAt(orders, at, ClearingPrice(orders, at)) :
                  volume - received <
                     Cardinality(SameLevel(orders,
                                    TakersAt(orders, at, ClearingPrice(orders, at)), m))
            BY <1>6, <2>3, TakersShortfall
        <3>2. SameLevel(orders, TakersAt(orders, at, ClearingPrice(orders, at)), m)
                 \subseteq Takers(orders)
            BY Participants DEF SameLevel
        <3>3. PICK level : level =
                  SameLevel(orders, TakersAt(orders, at, ClearingPrice(orders, at)), m)
            OBVIOUS
        <3>4. level \subseteq Takers(orders)
            BY <3>2, <3>3
        <3>5. Cardinality(level) <= n /\ IsFiniteSet(level)
            BY <1>8, <3>4, FS_Subset
        <3>6. PICK c \in Nat : c = Cardinality(level)
            BY <3>5, FS_CardinalityType
        <3>7. volume - received < c /\ c <= n
            BY <3>1, <3>3, <3>5, <3>6
        <3> QED BY <2>1, <3>7
    <2> QED BY <2>1, <2>2, <2>3
<1>10. /\ TakersOpen(queue, at) = Volume(orders, Takers(orders))
       /\ TakersOpen(queue', at) = Volume(after, Takers(after))
       /\ MakersOpen(queue, at) = Volume(orders, Makers(orders))
       /\ MakersOpen(queue', at) = Volume(after, Makers(after))
    BY <1>1, <1>2 DEF TakersOpen, MakersOpen
<1>11. PICK x \in Nat, y \in Nat : /\ x = Volume(after, Takers(after))
                                   /\ y = Volume(after, Makers(after))
    BY <1>4
<1>12. /\ TakersOpen(queue, at) - TakersOpen(queue', at) = received
       /\ MakersOpen(queue, at) - MakersOpen(queue', at) = 0
    <2>1. TakersOpen(queue, at) = received + x /\ TakersOpen(queue', at) = x
        BY <1>4, <1>6, <1>10, <1>11
    <2>2. MakersOpen(queue, at) = 0 + y /\ MakersOpen(queue', at) = y
        BY <1>4, <1>5, <1>10, <1>11
    <2> QED BY <2>1, <2>2
<1> QED BY <1>1, <1>6, <1>8, <1>9, <1>12

(* What execute_batch writes for each auction.                             *)
LEMMA ExecutedReport ==
    ASSUME NEW b \in BatchIds, ExecuteBatch(b), NEW c \in DOMAIN results' \ DOMAIN results,
           NEW at \in AuctionType
    PROVE  (IF at = "Bid" THEN results'[c].bid_volume ELSE results'[c].ask_volume)
              = ClearingVolume(queue[at], at)
<1>1. c = b /\ results'[c] = BatchResult
    BY DEF ExecuteBatch, Executable, WithResult
<1>2. /\ BatchResult.bid_volume = ClearingVolume(queue["Bid"], "Bid")
      /\ BatchResult.ask_volume = ClearingVolume(queue["Ask"], "Ask")
    BY DEF BatchResult
<1> QED BY <1>1, <1>2 DEF AuctionType

(* Every batch: its volumes are what leaves the queues, less one unit for  *)
(* each taker at most.                                                     *)
THEOREM VolumesAreAccountedFor == Spec => ReportedVolumeLeavesQueues
<1>1. Inv /\ ResultsNumberTheBatches /\ [Next]_vars =>
         \A b \in DOMAIN results' \ DOMAIN results :
            BatchStep =>
               \A at \in AuctionType :
                  LET reported == IF at = "Bid" THEN results'[b].bid_volume
                                  ELSE results'[b].ask_volume
                      matched == TakersOpen(queue, at) - TakersOpen(queue', at)
                  IN  /\ matched <= reported
                      /\ reported - matched <= Cardinality(Takers(queue[at]))
                      /\ MakersOpen(queue, at) - MakersOpen(queue', at) <= reported
    <2>1. SUFFICES ASSUME Inv, ResultsNumberTheBatches, [Next]_vars, BatchStep,
                          NEW b \in DOMAIN results' \ DOMAIN results,
                          NEW at \in AuctionType
                   PROVE  LET reported == IF at = "Bid" THEN results'[b].bid_volume
                                          ELSE results'[b].ask_volume
                              matched == TakersOpen(queue, at) - TakersOpen(queue', at)
                          IN  /\ matched <= reported
                              /\ reported - matched <= Cardinality(Takers(queue[at]))
                              /\ MakersOpen(queue, at) - MakersOpen(queue', at) <= reported
        OBVIOUS
    <2>2. PICK id \in BatchIds : ExecuteBatch(id)
        BY <2>1, BatchIsExecuted
    <2>3. (IF at = "Bid" THEN results'[b].bid_volume ELSE results'[b].ask_volume)
             = ClearingVolume(queue[at], at)
        BY <2>2, ExecutedReport
    <2> QED BY <2>1, <2>2, <2>3, ExecutedVolumes
<1> QED BY InitInv, StepInv, LogIsGapless, <1>1, PTL DEF Spec, ReportedVolumeLeavesQueues

(* Every batch: no order is added, repeated, resized or moved.             *)
THEOREM BatchesOnlyFill == Spec => BatchStepOnlyFills
<1>1. Inv /\ ResultsNumberTheBatches /\ [Next]_vars =>
         (BatchStep =>
            \A at \in AuctionType :
               LET before == queue[at]
                   after == queue'[at]
               IN  \E kept \in SUBSET (1..Len(before)) :
                      LET rest == Retain(before, kept)
                      IN  /\ Len(rest) = Len(after)
                          /\ \A i \in 1..Len(after) :
                                /\ after[i].filled_quantity >= rest[i].filled_quantity
                                /\ [after[i] EXCEPT !.filled_quantity = 0]
                                      = [rest[i] EXCEPT !.filled_quantity = 0])
    BY BatchIsExecuted, ExecutedFills
<1> QED BY InitInv, StepInv, LogIsGapless, <1>1, PTL DEF Spec, BatchStepOnlyFills

-----------------------------------------------------------------------------
(* The order of the queues in time.                                        *)

(* The orders are in the order of their timestamps, none later than now.   *)
InTimeOrder(orders, now) ==
    /\ \A i \in 1..Len(orders) : orders[i].timestamp \in Nat /\ orders[i].timestamp <= now
    /\ \A i, j \in 1..Len(orders) : i < j => orders[i].timestamp <= orders[j].timestamp

(* The invariant that keeps a queue in order: what is appended now cannot  *)
(* be earlier than what is there.                                          *)
QueuesUntilNow == \A at \in AuctionType : InTimeOrder(queue[at], unix_timestamp)

LEMMA RetainInTimeOrder ==
    ASSUME NEW S, NEW orders \in Seq(S), NEW K, NEW now, InTimeOrder(orders, now)
    PROVE  InTimeOrder(Retain(orders, K), now)
<1>1. PICK e, r : e = Indices(Len(orders), K) /\ r = Retain(orders, K)
    OBVIOUS
<1>2. /\ Len(r) = Len(e)
      /\ \A j \in 1..Len(e) : e[j] \in 1..Len(orders) /\ r[j] = orders[e[j]]
    BY <1>1, RetainByIndices
<1>3. \A i, j \in 1..Len(e) : i < j => e[i] < e[j]
    <2>1. PICK n \in Nat : n = Len(orders)
        OBVIOUS
    <2>2. Ascending(Indices(n, K))
        BY IndicesAscend
    <2> QED BY <1>1, <2>1, <2>2 DEF Ascending
<1>4. InTimeOrder(r, now)
    BY <1>2, <1>3 DEF InTimeOrder
<1> QED BY <1>1, <1>4

LEMMA ConcatInTimeOrder ==
    ASSUME NEW S, NEW orders \in Seq(S), NEW posted \in Seq(S), NEW now \in Nat,
           InTimeOrder(orders, now),
           \A i \in 1..Len(posted) : posted[i].timestamp = now
    PROVE  InTimeOrder(orders \o posted, now)
<1>1. PICK m \in Nat, n \in Nat : m = Len(orders) /\ n = Len(posted)
    OBVIOUS
<1>2. PICK all : all = orders \o posted
    OBVIOUS
<1>3. /\ Len(all) = m + n
      /\ \A i \in 1..(m + n) :
            all[i] = IF i <= m THEN orders[i] ELSE posted[i - m]
    BY <1>1, <1>2, ConcatProperties
<1>4. ASSUME NEW i \in 1..(m + n)
      PROVE  \/ i \in 1..m /\ all[i] = orders[i]
             \/ i > m /\ all[i].timestamp = now
    <2>1. CASE i <= m
        BY <1>3, <2>1
    <2>2. CASE i > m
        <3>1. i - m \in 1..n
            BY <2>2
        <3> QED BY <1>1, <1>3, <2>2, <3>1
    <2> QED BY <2>1, <2>2
<1>5. \A i \in 1..(m + n) : all[i].timestamp \in Nat /\ all[i].timestamp <= now
    BY <1>1, <1>4 DEF InTimeOrder
<1>6. ASSUME NEW i \in 1..(m + n), NEW j \in 1..(m + n), i < j
      PROVE  all[i].timestamp <= all[j].timestamp
    <2>1. CASE j > m /\ all[j].timestamp = now
        BY <1>5, <2>1
    <2>2. CASE j \in 1..m /\ all[j] = orders[j]
        <3>1. i \in 1..m /\ all[i] = orders[i]
            BY <1>3, <1>6, <2>2
        <3> QED BY <1>1, <1>6, <2>2, <3>1 DEF InTimeOrder
    <2> QED BY <1>4, <2>1, <2>2
<1> QED BY <1>2, <1>3, <1>5, <1>6 DEF InTimeOrder

(* w is v with orders of one owner and of this second appended.            *)
AppendedNow(v, w, owner) ==
    \E S : \E posted \in Seq(S) :
        /\ v \in Seq(S)
        /\ w = v \o posted
        /\ \A i \in 1..Len(posted) : /\ posted[i].timestamp = unix_timestamp
                                     /\ posted[i].owner = owner

(* That is what a list does to each of the queues.                         *)
LEMMA PostedOrders ==
    ASSUME NEW q, NEW owner, NEW ps \in Seq(PlaceOrderParams), NEW at \in AuctionType,
           NEW v \in Seq(Order), q[at] = v
    PROVE  AppendedNow(v, WithOrders(q, owner, ps)[at], owner)
<1> DEFINE new == NewOrders(q, owner, ps)
           N == {NewOrder(owner, ps[j], Position(q, ps, j)) : j \in 1..Len(ps)}
           K == {j \in Posted(q, ps) : Route(ps[j]) = at}
<1>1. Len(ps) \in Nat
    OBVIOUS
<1>2. new \in Seq(N)
    BY <1>1 DEF NewOrders
<1>3. \A o \in N : o.timestamp = unix_timestamp /\ o.owner = owner
    BY DEF NewOrder
<1>4. WithOrders(q, owner, ps)[at] = q[at] \o Retain(new, K)
    BY DEF WithOrders
<1> HIDE DEF new, N, K
<1>5. PICK posted \in Seq(N) : posted = Retain(new, K)
    BY <1>2, RetainProperties
<1>6. \A i \in 1..Len(posted) : posted[i] \in N
    BY ElementOfSeq
<1>7. PICK S : S = N \cup Order
    OBVIOUS
<1>8. posted \in Seq(S) /\ v \in Seq(S)
    BY <1>7
<1> QED BY <1>3, <1>4, <1>5, <1>6, <1>8 DEF AppendedNow

(* And what a single order does to its queue.                              *)
LEMMA PlacedOrder ==
    ASSUME NEW v \in Seq(Order), NEW owner, NEW p, NEW position
    PROVE  AppendedNow(v, Append(v, NewOrder(owner, p, position)), owner)
<1>1. PICK o : o = NewOrder(owner, p, position)
    OBVIOUS
<1>2. o.timestamp = unix_timestamp /\ o.owner = owner
    BY <1>1 DEF NewOrder
<1>3. PICK S : S = Order \cup {o}
    OBVIOUS
<1>4. v \in Seq(S) /\ o \in S
    BY <1>3
<1>5. PICK posted \in Seq(S) : posted = << o >> /\ Append(v, o) = v \o posted
    <2>1. << o >> \in Seq(S)
        BY <1>4
    <2>2. Append(v, o) = v \o << o >>
        BY <1>4, AppendIsConcat
    <2> QED BY <2>1, <2>2
<1>6. \A i \in 1..Len(posted) : /\ posted[i].timestamp = unix_timestamp
                               /\ posted[i].owner = owner
    BY <1>2, <1>5
<1>7. AppendedNow(v, Append(v, o), owner)
    BY <1>4, <1>5, <1>6 DEF AppendedNow
<1> QED BY <1>1, <1>7

LEMMA StepTimeOrder ==
    Inv /\ QueuesUntilNow /\ [Next]_vars => QueuesUntilNow'
<1> SUFFICES ASSUME Inv, QueuesUntilNow, [Next]_vars, NEW at \in AuctionType
             PROVE  InTimeOrder(queue'[at], unix_timestamp')
    BY DEF QueuesUntilNow
<1>1. /\ queue[at] \in Seq(Order) /\ InTimeOrder(queue[at], unix_timestamp)
      /\ unix_timestamp \in Nat
    BY QueueType, StateTypes DEF QueuesUntilNow
<1>2. ASSUME NEW v \in Seq(Order), InTimeOrder(v, unix_timestamp),
             NEW w, NEW owner, AppendedNow(v, w, owner)
      PROVE  InTimeOrder(w, unix_timestamp)
    <2>1. PICK S : \E posted \in Seq(S) :
              /\ v \in Seq(S) /\ w = v \o posted
              /\ \A i \in 1..Len(posted) : posted[i].timestamp = unix_timestamp
        BY <1>2 DEF AppendedNow
    <2>2. PICK posted \in Seq(S) :
              /\ v \in Seq(S) /\ w = v \o posted
              /\ \A i \in 1..Len(posted) : posted[i].timestamp = unix_timestamp
        BY <2>1
    <2> QED BY <1>1, <1>2, <2>2, ConcatInTimeOrder
<1>3. ASSUME NEW owner
      PROVE  /\ WithoutOwner(queue, owner)[at] \in Seq(Order)
             /\ InTimeOrder(WithoutOwner(queue, owner)[at], unix_timestamp)
    <2>1. PICK K : K = {i \in 1..Len(queue[at]) : queue[at][i].owner # owner}
        OBVIOUS
    <2>2. WithoutOwner(queue, owner)[at] = Retain(queue[at], K)
        BY <2>1 DEF WithoutOwner
    <2>3. PICK v \in Seq(Order) : v = queue[at]
        BY <1>1
    <2>4. Retain(v, K) \in Seq(Order) /\ InTimeOrder(Retain(v, K), unix_timestamp)
        BY <1>1, <2>3, RetainProperties, RetainInTimeOrder
    <2> QED BY <2>2, <2>3, <2>4
<1>4. ASSUME UNCHANGED <<queue, unix_timestamp>>
      PROVE  InTimeOrder(queue'[at], unix_timestamp')
    BY <1>1, <1>4
<1>5. ASSUME NEW interval \in Intervals, Initialize(interval)
      PROVE  InTimeOrder(queue'[at], unix_timestamp')
    <2>1. queue'[at] = << >>
        BY <1>5 DEF Initialize, EmptyQueues
    <2> QED BY <2>1 DEF InTimeOrder
<1>6. ASSUME NEW owner \in Owner, NEW p \in Params, PlaceOrder(owner, p)
      PROVE  InTimeOrder(queue'[at], unix_timestamp')
    <2>1. UNCHANGED unix_timestamp
        BY <1>6 DEF PlaceOrder, clock
    <2>2. CASE at # Route(p)
        <3>1. queue'[at] = queue[at]
            BY <1>6, <2>2 DEF PlaceOrder, Inv, TypeOK
        <3> QED BY <1>1, <2>1, <3>1
    <2>3. CASE at = Route(p)
        <3>0. PICK v \in Seq(Order) : v = queue[at]
            BY <1>1
        <3>1. PICK o : v = queue[at] /\ o = NewOrder(owner, p, Len(v))
            BY <3>0
        <3>2. queue'[at] = Append(v, o)
            BY <1>6, <2>3, <3>1 DEF PlaceOrder, Inv, TypeOK
        <3>3. AppendedNow(v, Append(v, o), owner)
            BY <3>1, PlacedOrder
        <3> QED BY <1>1, <1>2, <2>1, <3>1, <3>2, <3>3
    <2> QED BY <2>2, <2>3
<1>7. ASSUME NEW owner \in Owner, CancelAllOrders(owner)
      PROVE  InTimeOrder(queue'[at], unix_timestamp')
    BY <1>3, <1>7 DEF CancelAllOrders, clock
<1>8. ASSUME NEW owner \in Owner, NEW ps \in ParamLists, PlaceMultipleOrders(owner, ps)
      PROVE  InTimeOrder(queue'[at], unix_timestamp')
    <2>1. ps \in Seq(PlaceOrderParams)
        BY ProgramAssumption
    <2>0. PICK v \in Seq(Order) : v = queue[at]
        BY <1>1
    <2>2. PICK q : v = queue[at] /\ q = queue
        BY <2>0
    <2>3. AppendedNow(v, WithOrders(q, owner, ps)[at], owner)
        BY <2>1, <2>2, PostedOrders
    <2>4. InTimeOrder(WithOrders(q, owner, ps)[at], unix_timestamp)
        BY <1>1, <1>2, <2>2, <2>3
    <2> QED BY <1>8, <2>2, <2>4 DEF PlaceMultipleOrders, clock
<1>9. ASSUME NEW owner \in Owner, NEW ps \in ParamLists,
             CancelAllAndPostNewOrders(owner, ps)
      PROVE  InTimeOrder(queue'[at], unix_timestamp')
    <2>1. ps \in Seq(PlaceOrderParams)
        BY ProgramAssumption
    <2>2. PICK q : q = WithoutOwner(queue, owner)
        OBVIOUS
    <2>3. PICK v \in Seq(Order) : v = q[at] /\ InTimeOrder(v, unix_timestamp)
        BY <1>3, <2>2
    <2>4. AppendedNow(v, WithOrders(q, owner, ps)[at], owner)
        BY <2>1, <2>3, PostedOrders
    <2>5. InTimeOrder(WithOrders(q, owner, ps)[at], unix_timestamp)
        BY <1>2, <2>3, <2>4
    <2> QED BY <1>9, <2>2, <2>5 DEF CancelAllAndPostNewOrders, clock
<1>10. ASSUME NEW b \in BatchIds, InitializeResult(b)
       PROVE  InTimeOrder(queue'[at], unix_timestamp')
    BY <1>4, <1>10 DEF InitializeResult, clock
<1>11. ASSUME NEW b \in BatchIds, ExecuteBatch(b)
       PROVE  InTimeOrder(queue'[at], unix_timestamp')
    <2> DEFINE live == {i \in 1..Len(Traded(queue[at], at)) :
                           Live(Traded(queue[at], at)[i])}
    <2>1. PICK traded \in Seq(Order) :
              traded = Traded(queue[at], at) /\ queue'[at] = Retain(traded, live)
        BY <1>11, ExecutedQueues
    <2> HIDE DEF live
    <2>2. /\ Len(traded) = Len(queue[at])
          /\ \A i \in 1..Len(queue[at]) : traded[i].timestamp = queue[at][i].timestamp
        <3>1. /\ Len(traded) = Len(queue[at])
              /\ \A i \in 1..Len(queue[at]) : traded[i] \in FilledFrom(queue[at][i])
            BY <1>1, <2>1, TradedOrders
        <3>2. ASSUME NEW i \in 1..Len(queue[at])
              PROVE  traded[i].timestamp = queue[at][i].timestamp
            <4>1. PICK f \in U64 : traded[i] = [queue[at][i] EXCEPT !.filled_quantity = f]
                BY <3>1 DEF FilledFrom
            <4>2. queue[at][i] \in Order
                BY <1>1, ElementOfSeq
            <4> QED BY <4>1, <4>2 DEF Order
        <3> QED BY <3>1, <3>2
    <2>3. InTimeOrder(traded, unix_timestamp)
        BY <1>1, <2>2 DEF InTimeOrder
    <2>4. InTimeOrder(Retain(traded, live), unix_timestamp)
        BY <2>3, RetainInTimeOrder
    <2>5. UNCHANGED unix_timestamp
        BY <1>11 DEF ExecuteBatch, clock
    <2> QED BY <2>1, <2>4, <2>5
<1>12. ASSUME Tick PROVE InTimeOrder(queue'[at], unix_timestamp')
    <2>1. queue' = queue /\ unix_timestamp' \in {unix_timestamp, unix_timestamp + 1}
        BY <1>12 DEF Tick, accounts
    <2> QED BY <1>1, <2>1 DEF InTimeOrder
<1>13. ASSUME UNCHANGED vars PROVE InTimeOrder(queue'[at], unix_timestamp')
    BY <1>4, <1>13 DEF vars
<1> QED BY <1>5, <1>6, <1>7, <1>8, <1>9, <1>10, <1>11, <1>12, <1>13 DEF Next, Trade

(* Whatever is cancelled, filled or posted in lists, a queue stays in the  *)
(* order its orders were placed in.                                        *)
THEOREM QueuesStayInOrder == Spec => []QueuesInTimeOrder
<1>1. Init => QueuesUntilNow
    <2>1. SUFFICES ASSUME Init, NEW at \in AuctionType
                   PROVE  InTimeOrder(queue[at], unix_timestamp)
        BY DEF QueuesUntilNow
    <2>2. queue[at] = << >>
        BY <2>1 DEF Init, EmptyQueues
    <2> QED BY <2>2 DEF InTimeOrder
<1>2. QueuesUntilNow => QueuesInTimeOrder
    BY DEF QueuesUntilNow, InTimeOrder, QueuesInTimeOrder
<1> QED BY InitInv, StepInv, StepTimeOrder, <1>1, <1>2, PTL DEF Spec

-----------------------------------------------------------------------------
(* The orders of the others.                                               *)

(* The orders of one owner in one queue.                                   *)
Owned(v, owner) == Retain(v, {i \in 1..Len(v) : v[i].owner = owner})

LEMMA OwnedIsFilter ==
    ASSUME NEW S, NEW v \in Seq(S), NEW owner
    PROVE  Owned(v, owner) = Filter(v, {o \in S : o.owner = owner})
<1>1. \A i \in 1..Len(v) : v[i] \in S
    BY ElementOfSeq
<1>2. {i \in 1..Len(v) : v[i].owner = owner} = InSet(v, {o \in S : o.owner = owner})
    BY <1>1 DEF InSet
<1> QED BY <1>2 DEF Owned, Filter

LEMMA OwnedAfterAppending ==
    ASSUME NEW v, NEW w, NEW owner, AppendedNow(v, w, owner), NEW other, other # owner
    PROVE  Owned(w, other) = Owned(v, other)
<1>1. PICK S : \E posted \in Seq(S) :
          /\ v \in Seq(S) /\ w = v \o posted
          /\ \A i \in 1..Len(posted) : posted[i].owner = owner
    BY DEF AppendedNow
<1>2. PICK posted \in Seq(S) :
          /\ v \in Seq(S) /\ w = v \o posted
          /\ \A i \in 1..Len(posted) : posted[i].owner = owner
    BY <1>1
<1>3. PICK T : T = {o \in S : o.owner = other}
    OBVIOUS
<1>4. \A s \in Seq(S) : Owned(s, other) = Filter(s, T)
    BY <1>3, OwnedIsFilter
<1>5. Filter(posted, T) = << >>
    <2>1. \A i \in 1..Len(posted) : ~ (posted[i].owner = other)
        BY <1>2
    <2>2. InSet(posted, T) = {}
        BY <1>3, <2>1 DEF InSet
    <2>3. PICK K : K = InSet(posted, T)
        OBVIOUS
    <2>4. K \cap (1..Len(posted)) = {}
        BY <2>2, <2>3
    <2>5. Retain(posted, K) = << >>
        BY <2>4, RetainNone
    <2> QED BY <2>3, <2>5 DEF Filter
<1>6. Filter(v \o posted, T) = Filter(v, T) \o Filter(posted, T)
    BY <1>2, FilterConcat
<1>7. PICK f \in Seq(S) : f = Filter(v, T)
    BY <1>2, FilterType
<1>8. f \o << >> = f
    BY ConcatEmptySeq
<1>9. w \in Seq(S)
    BY <1>2, ConcatProperties
<1>10. Filter(w, T) = Filter(v, T)
    BY <1>2, <1>5, <1>6, <1>7, <1>8
<1>11. Owned(w, other) = Filter(w, T) /\ Owned(v, other) = Filter(v, T)
    BY <1>2, <1>4, <1>9
<1> QED BY <1>10, <1>11

LEMMA OwnedAfterCancelling ==
    ASSUME NEW v \in Seq(Order), NEW owner, NEW other, other # owner
    PROVE  Owned(Retain(v, {i \in 1..Len(v) : v[i].owner # owner}), other)
              = Owned(v, other)
<1>1. PICK K : K = {i \in 1..Len(v) : v[i].owner # owner}
    OBVIOUS
<1>2. PICK T : T = {o \in Order : o.owner = other}
    OBVIOUS
<1>3. InSet(v, T) \subseteq K
    BY <1>1, <1>2 DEF InSet
<1>4. PICK r \in Seq(Order) : r = Retain(v, K)
    BY RetainProperties
<1>5. Filter(Retain(v, K), T) = Filter(v, T)
    BY <1>3, FilterOfRetain
<1>6. Owned(r, other) = Filter(r, T) /\ Owned(v, other) = Filter(v, T)
    BY <1>2, OwnedIsFilter
<1>7. Owned(r, other) = Owned(v, other)
    BY <1>4, <1>5, <1>6
<1> QED BY <1>1, <1>4, <1>7

LEMMA OrdersOfOwned ==
    ASSUME NEW q, NEW r, NEW owner,
           \A at \in AuctionType : Owned(q[at], owner) = Owned(r[at], owner)
    PROVE  OrdersOf(q, owner) = OrdersOf(r, owner)
<1>1. /\ OrdersOf(q, owner) = [at \in AuctionType |-> Owned(q[at], owner)]
      /\ OrdersOf(r, owner) = [at \in AuctionType |-> Owned(r[at], owner)]
    BY DEF OrdersOf, Owned
<1> QED BY <1>1

(* There is nothing for initialize to overwrite.                           *)
EmptyUntilInitialized == ~ initialized => queue = EmptyQueues

LEMMA StepEmpty ==
    EmptyUntilInitialized /\ [Next]_vars => EmptyUntilInitialized'
<1> SUFFICES ASSUME EmptyUntilInitialized, [Next]_vars, ~ initialized'
             PROVE  queue' = EmptyQueues
    BY DEF EmptyUntilInitialized
<1>1. ASSUME Trade \/ (\E b \in BatchIds : ExecuteBatch(b)) PROVE FALSE
    BY <1>1 DEF Trade, PlaceOrder, CancelAllOrders, PlaceMultipleOrders,
                CancelAllAndPostNewOrders, ExecuteBatch, Executable
<1>2. ASSUME UNCHANGED <<initialized, queue>> PROVE queue' = EmptyQueues
    BY <1>2 DEF EmptyUntilInitialized
<1>3. ~ \E interval \in Intervals : Initialize(interval)
    BY DEF Initialize
<1>4. Tick \/ UNCHANGED vars \/ (\E b \in BatchIds : InitializeResult(b))
         => UNCHANGED <<initialized, queue>>
    BY DEF Tick, accounts, vars, InitializeResult
<1> QED BY <1>1, <1>2, <1>3, <1>4 DEF Next

LEMMA StepKeepsOthers ==
    ASSUME Inv, EmptyUntilInitialized, [Next]_vars, ~ BatchStep, Owner # {}
    PROVE  \E owner \in Owner : \A other \in Owner \ {owner} :
              OrdersOf(queue', other) = OrdersOf(queue, other)
<1>1. \A at \in AuctionType : queue[at] \in Seq(Order)
    BY QueueType
<1>2. ASSUME UNCHANGED queue
      PROVE  \E owner \in Owner : \A other \in Owner \ {owner} :
                OrdersOf(queue', other) = OrdersOf(queue, other)
    <2>1. PICK owner \in Owner : TRUE
        OBVIOUS
    <2> QED BY <1>2, <2>1
<1>3. ASSUME NEW v \in Seq(Order), NEW owner, NEW w, AppendedNow(v, w, owner)
      PROVE  \A other \in Owner \ {owner} : Owned(w, other) = Owned(v, other)
    BY <1>3, OwnedAfterAppending
<1>4. ASSUME NEW owner \in Owner,
             \A other \in Owner \ {owner} : \A at \in AuctionType :
                Owned(queue'[at], other) = Owned(queue[at], other)
      PROVE  \E who \in Owner : \A other \in Owner \ {who} :
                OrdersOf(queue', other) = OrdersOf(queue, other)
    BY <1>4, OrdersOfOwned
<1>5. ASSUME NEW interval \in Intervals, Initialize(interval) PROVE UNCHANGED queue
    BY <1>5 DEF Initialize, EmptyUntilInitialized
<1>6. ASSUME NEW owner \in Owner, NEW p \in Params, PlaceOrder(owner, p),
             NEW other \in Owner \ {owner}, NEW at \in AuctionType
      PROVE  Owned(queue'[at], other) = Owned(queue[at], other)
    <2>1. CASE at # Route(p)
        <3>1. queue'[at] = queue[at]
            BY <1>6, <2>1 DEF PlaceOrder, Inv, TypeOK
        <3> QED BY <3>1
    <2>2. CASE at = Route(p)
        <3>1. PICK v \in Seq(Order) : v = queue[at]
            BY <1>1
        <3>2. PICK w : w = Append(v, NewOrder(owner, p, Len(v)))
            OBVIOUS
        <3>3. queue'[at] = w
            BY <1>6, <2>2, <3>1, <3>2 DEF PlaceOrder, Inv, TypeOK
        <3>4. AppendedNow(v, w, owner)
            BY <3>2, PlacedOrder
        <3> QED BY <1>3, <3>1, <3>3, <3>4
    <2> QED BY <2>1, <2>2
<1>7. ASSUME NEW owner, NEW at \in AuctionType
      PROVE  /\ WithoutOwner(queue, owner)[at] \in Seq(Order)
             /\ \A other \in Owner \ {owner} :
                   Owned(WithoutOwner(queue, owner)[at], other) = Owned(queue[at], other)
    <2>1. PICK v \in Seq(Order) : v = queue[at]
        BY <1>1
    <2>2. PICK r \in Seq(Order) :
              r = Retain(v, {i \in 1..Len(v) : v[i].owner # owner})
        BY RetainProperties
    <2>3. WithoutOwner(queue, owner)[at] = r
        BY <2>1, <2>2 DEF WithoutOwner
    <2>4. ASSUME NEW other \in Owner \ {owner} PROVE Owned(r, other) = Owned(v, other)
        <3>1. other # owner
            OBVIOUS
        <3>2. Owned(Retain(v, {i \in 1..Len(v) : v[i].owner # owner}), other)
                 = Owned(v, other)
            BY <3>1, OwnedAfterCancelling
        <3> QED BY <2>2, <3>2
    <2> QED BY <2>1, <2>3, <2>4
<1>8. ASSUME NEW owner \in Owner, CancelAllOrders(owner),
             NEW other \in Owner \ {owner}, NEW at \in AuctionType
      PROVE  Owned(queue'[at], other) = Owned(queue[at], other)
    BY <1>7, <1>8 DEF CancelAllOrders
<1>9. ASSUME NEW owner \in Owner, NEW ps \in ParamLists, PlaceMultipleOrders(owner, ps),
             NEW other \in Owner \ {owner}, NEW at \in AuctionType
      PROVE  Owned(queue'[at], other) = Owned(queue[at], other)
    <2>1. ps \in Seq(PlaceOrderParams)
        BY ProgramAssumption
    <2>2. PICK v \in Seq(Order) : v = queue[at]
        BY <1>1
    <2>3. PICK q : q = queue
        OBVIOUS
    <2>4. PICK w : w = WithOrders(q, owner, ps)[at]
        OBVIOUS
    <2>5. AppendedNow(v, w, owner)
        BY <2>1, <2>2, <2>3, <2>4, PostedOrders
    <2>6. queue'[at] = w
        BY <1>9, <2>3, <2>4 DEF PlaceMultipleOrders
    <2> QED BY <1>3, <2>2, <2>5, <2>6
<1>10. ASSUME NEW owner \in Owner, NEW ps \in ParamLists,
              CancelAllAndPostNewOrders(owner, ps),
              NEW other \in Owner \ {owner}, NEW at \in AuctionType
       PROVE  Owned(queue'[at], other) = Owned(queue[at], other)
    <2>1. ps \in Seq(PlaceOrderParams)
        BY ProgramAssumption
    <2>2. PICK q : q = WithoutOwner(queue, owner)
        OBVIOUS
    <2>3. PICK v \in Seq(Order) : v = q[at]
        BY <1>7, <2>2
    <2>4. PICK w : w = WithOrders(q, owner, ps)[at]
        OBVIOUS
    <2>5. AppendedNow(v, w, owner)
        BY <2>1, <2>3, <2>4, PostedOrders
    <2>6. queue'[at] = w
        BY <1>10, <2>2, <2>4 DEF CancelAllAndPostNewOrders
    <2>7. Owned(w, other) = Owned(v, other)
        BY <1>3, <2>5
    <2>8. Owned(v, other) = Owned(queue[at], other)
        BY <1>7, <2>2, <2>3
    <2> QED BY <2>6, <2>7, <2>8
<1>11. ASSUME NEW b \in BatchIds, ExecuteBatch(b) PROVE FALSE
    <2>1. auction_state'.batch_counter = auction_state.batch_counter + 1
        BY <1>11, StateTypes DEF ExecuteBatch, AuctionState
    <2>2. auction_state.batch_counter \in Nat
        BY StateTypes
    <2> QED BY <2>1, <2>2 DEF BatchStep
<1>12. Tick \/ UNCHANGED vars \/ (\E b \in BatchIds : InitializeResult(b))
          => UNCHANGED queue
    BY DEF Tick, accounts, vars, InitializeResult
<1>13. ASSUME NEW owner \in Owner,
              \/ \E p \in Params : PlaceOrder(owner, p)
              \/ CancelAllOrders(owner)
              \/ \E ps \in ParamLists : \/ PlaceMultipleOrders(owner, ps)
                                       \/ CancelAllAndPostNewOrders(owner, ps)
       PROVE  \A other \in Owner \ {owner} : \A at \in AuctionType :
                 Owned(queue'[at], other) = Owned(queue[at], other)
    BY <1>6, <1>8, <1>9, <1>10, <1>13
<1> QED BY <1>2, <1>4, <1>5, <1>11, <1>12, <1>13 DEF Next, Trade

(* As long as there is anyone to sign: outside a batch, one signer at most *)
(* changes orders, its own, and the others' keep their places.             *)
THEOREM OthersAreUndisturbed == ASSUME Owner # {} PROVE Spec => OthersOrdersKept
<1>1. Init => EmptyUntilInitialized
    BY DEF Init, EmptyUntilInitialized
<1>2. Inv /\ EmptyUntilInitialized /\ [Next]_vars =>
         (~ BatchStep =>
            \E owner \in Owner : \A other \in Owner \ {owner} :
               OrdersOf(queue', other) = OrdersOf(queue, other))
    BY StepKeepsOthers
<1> QED BY InitInv, StepInv, StepEmpty, <1>1, <1>2, PTL DEF Spec, OthersOrdersKept
=============================================================================
