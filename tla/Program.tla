------------------------------ MODULE Program ------------------------------
(***************************************************************************)
(* The on-chain program (lib.rs and instructions/): its accounts, and one  *)
(* action per instruction.  A transaction that fails changes nothing, so   *)
(* what makes an instruction fail is a conjunct of its action; so is an    *)
(* arithmetic overflow, which aborts it.  An account argument is checked   *)
(* by its seeds: the three singletons exist from initialize on, and a      *)
(* result account is created (Anchor's init) by the instruction naming it. *)
(***************************************************************************)
EXTENDS Auction, FiniteSets

CONSTANTS
    MaxOrders,      \* OrderQueue.max_orders, 85 in initialize
    Params,         \* the requests made of place_order
    ParamLists,     \* the requests made of the instructions that post a list
    Intervals,      \* the batch intervals initialize is called with
    BatchIds,       \* the batch ids instructions are called with
    MaxSlot         \* bound on the slots of the chain that are explored

ASSUME ProgramAssumption ==
    /\ MaxOrders \in Nat
    /\ MaxI64 + MaxOrders <= MaxU64
    /\ Params \subseteq PlaceOrderParams
    /\ ParamLists \subseteq Seq(PlaceOrderParams)
    /\ Intervals \subseteq U64
    /\ BatchIds \subseteq U64
    /\ MaxSlot \in U64

VARIABLES
    initialized,    \* the accounts auction_state, bid_queue and ask_queue exist
    auction_state,  \* the AuctionState account (its authority is never read)
    queue,          \* the orders of the bid_queue and ask_queue accounts
    results,        \* the result accounts that exist, by the batch id of their address
    slot,           \* the Clock's slot
    unix_timestamp  \* the Clock's time in seconds

accounts == <<initialized, auction_state, queue, results>>
clock == <<slot, unix_timestamp>>
vars == <<initialized, auction_state, queue, results, slot, unix_timestamp>>

AuctionState ==
    [batch_interval : U64, last_batch_slot : U64, batch_counter : U64,
     is_paused : BOOLEAN]

EmptyQueues == [at \in AuctionType |-> << >>]

Init ==
    /\ initialized = FALSE
    /\ auction_state = [batch_interval |-> 0, last_batch_slot |-> 0,
                        batch_counter |-> 0, is_paused |-> FALSE]
    /\ queue = EmptyQueues
    /\ results = [b \in {} |-> 0]
    /\ slot = 0
    /\ unix_timestamp = 0

Initialize(batch_interval) ==
    /\ ~ initialized
    /\ initialized' = TRUE
    /\ auction_state' = [batch_interval |-> batch_interval, last_batch_slot |-> 0,
                         batch_counter |-> 0, is_paused |-> FALSE]
    /\ queue' = EmptyQueues
    /\ UNCHANGED <<results, clock>>

-----------------------------------------------------------------------------
(* Placing and cancelling orders.                                          *)

ValidParams(p) == p.price > 0 /\ p.quantity > 0

(* A mistake: ids are made of milliseconds.                                *)
NewOrderInMillis(owner, p, position) ==
    [id |-> 1000 * unix_timestamp + position, owner |-> owner,
     order_type |-> p.order_type, side |-> p.side,
     price |-> p.price, quantity |-> p.quantity,
     timestamp |-> unix_timestamp, is_active |-> TRUE, filled_quantity |-> 0]

(* The order made of p when its queue holds position orders.               *)
NewOrder(owner, p, position) ==
    [id |-> unix_timestamp + position, owner |-> owner,
     order_type |-> p.order_type, side |-> p.side,
     price |-> p.price, quantity |-> p.quantity,
     timestamp |-> unix_timestamp, is_active |-> TRUE, filled_quantity |-> 0]

(* A full queue makes the instruction succeed without doing anything.      *)
PlaceOrder(owner, p) ==
    /\ initialized /\ ~ auction_state.is_paused
    /\ ValidParams(p)
    /\ Len(queue[Route(p)]) < MaxOrders
    /\ queue' = [queue EXCEPT ![Route(p)] = Append(@, NewOrder(owner, p, Len(@)))]
    /\ UNCHANGED <<initialized, auction_state, results, clock>>

(* A list of requests is posted in order until one meets a full queue,     *)
(* where the instruction stops and succeeds; an invalid request reached    *)
(* before that makes it fail as a whole.  q is the queues it starts from.  *)
Position(q, ps, j) ==
    Len(q[Route(ps[j])]) + Cardinality({k \in 1..(j - 1) : Route(ps[k]) = Route(ps[j])})

(* A mistake: a queue counts as full only beyond its capacity.             *)
MeetsOverfullQueue(q, ps, j) == Position(q, ps, j) > MaxOrders

MeetsFullQueue(q, ps, j) == Position(q, ps, j) >= MaxOrders
Reached(q, ps) ==
    {j \in 1..Len(ps) : \A k \in 1..(j - 1) : ~ MeetsFullQueue(q, ps, k)}
Posted(q, ps) == {j \in Reached(q, ps) : ~ MeetsFullQueue(q, ps, j)}
AllValid(q, ps) == \A j \in Reached(q, ps) : ValidParams(ps[j])

NewOrders(q, owner, ps) ==
    [j \in 1..Len(ps) |-> NewOrder(owner, ps[j], Position(q, ps, j))]

(* A mistake: new orders go in front of those that rest.                   *)
WithOrdersInFront(q, owner, ps) ==
    [at \in AuctionType |->
        Retain(NewOrders(q, owner, ps), {j \in Posted(q, ps) : Route(ps[j]) = at})
            \o q[at]]

WithOrders(q, owner, ps) ==
    [at \in AuctionType |->
        q[at] \o Retain(NewOrders(q, owner, ps),
                        {j \in Posted(q, ps) : Route(ps[j]) = at})]

(* A mistake: retain keeps what it should drop.                            *)
OnlyOwner(q, owner) ==
    [at \in AuctionType |->
        Retain(q[at], {i \in 1..Len(q[at]) : q[at][i].owner = owner})]

WithoutOwner(q, owner) ==
    [at \in AuctionType |->
        Retain(q[at], {i \in 1..Len(q[at]) : q[at][i].owner # owner})]

PlaceMultipleOrders(owner, ps) ==
    /\ initialized /\ ~ auction_state.is_paused
    /\ AllValid(queue, ps)
    /\ queue' = WithOrders(queue, owner, ps)
    /\ UNCHANGED <<initialized, auction_state, results, clock>>

(* The only instruction on orders that does not look at is_paused.         *)
CancelAllOrders(owner) ==
    /\ initialized
    /\ queue' = WithoutOwner(queue, owner)
    /\ UNCHANGED <<initialized, auction_state, results, clock>>

CancelAllAndPostNewOrders(owner, ps) ==
    /\ initialized /\ ~ auction_state.is_paused
    /\ AllValid(WithoutOwner(queue, owner), ps)
    /\ queue' = WithOrders(WithoutOwner(queue, owner), owner, ps)
    /\ UNCHANGED <<initialized, auction_state, results, clock>>

-----------------------------------------------------------------------------
(* Batches and their result accounts.                                      *)

WithResult(batch_id, r) ==
    [b \in DOMAIN results \cup {batch_id} |-> IF b = batch_id THEN r ELSE results[b]]

(* Anchor creates the account, zeroed.                                     *)
InitializeResult(batch_id) ==
    /\ batch_id \notin DOMAIN results
    /\ results' = WithResult(batch_id,
                     [batch_id |-> 0, bid_clearing_price |-> 0, bid_volume |-> 0,
                      ask_clearing_price |-> 0, ask_volume |-> 0, timestamp |-> 0])
    /\ UNCHANGED <<initialized, auction_state, queue, clock>>

(* A mistake: a batch is due in any later slot.                            *)
BatchDueAtOnce == slot >= auction_state.last_batch_slot

(* A sum beyond u64 aborts the instruction; no slot reaches it here.      *)
BatchDue ==
    slot >= auction_state.last_batch_slot + auction_state.batch_interval

(* Two mistakes: what an order has left is posted as an order of its own;  *)
(* and the fills are made on a copy of the orders.                         *)
AfterBatchReposted(orders, at) ==
    LET traded == Traded(orders, at)
        reposted == [i \in 1..Len(orders) |->
                        [orders[i] EXCEPT !.quantity = Open(traded[i]),
                                          !.filled_quantity = 0]]
    IN  Retain(reposted, {i \in 1..Len(traded) : Live(traded[i])})
AfterBatchOfCopy(orders, at) ==
    Retain(orders, {i \in 1..Len(orders) : Live(orders[i])})

(* The queue after its auction, without what the auction has filled.       *)
AfterBatch(orders, at) ==
    LET traded == Traded(orders, at)
    IN  Retain(traded, {i \in 1..Len(traded) : Live(traded[i])})

(* Two mistakes: the counter is read before it is increased; and the two   *)
(* auctions are mixed up.                                                  *)
BatchResultOfOldCounter ==
    [batch_id |-> auction_state.batch_counter,
     bid_clearing_price |-> 0, bid_volume |-> 0,
     ask_clearing_price |-> 0, ask_volume |-> 0, timestamp |-> unix_timestamp]
BatchResultSwapped ==
    [batch_id |-> auction_state.batch_counter + 1,
     bid_clearing_price |-> ClearingPrice(queue["Ask"], "Ask"),
     bid_volume |-> ClearingVolume(queue["Ask"], "Ask"),
     ask_clearing_price |-> ClearingPrice(queue["Bid"], "Bid"),
     ask_volume |-> ClearingVolume(queue["Bid"], "Bid"),
     timestamp |-> unix_timestamp]

BatchResult ==
    [batch_id |-> auction_state.batch_counter + 1,
     bid_clearing_price |-> ClearingPrice(queue["Bid"], "Bid"),
     bid_volume |-> ClearingVolume(queue["Bid"], "Bid"),
     ask_clearing_price |-> ClearingPrice(queue["Ask"], "Ask"),
     ask_volume |-> ClearingVolume(queue["Ask"], "Ask"),
     timestamp |-> unix_timestamp]

(* A mistake: init_if_needed takes an account that exists.                 *)
ExecutableAgain(batch_id) ==
    /\ initialized
    /\ BatchDue
    /\ \A at \in AuctionType : ~ Panics(queue[at], at)
    /\ auction_state.batch_counter < MaxU64

(* What execute_batch requires.                                            *)
Executable(batch_id) ==
    /\ initialized
    /\ batch_id \notin DOMAIN results
    /\ BatchDue
    /\ \A at \in AuctionType : ~ Panics(queue[at], at)
    /\ auction_state.batch_counter < MaxU64

ExecuteBatch(batch_id) ==
    /\ Executable(batch_id)
    /\ auction_state' = [auction_state EXCEPT !.last_batch_slot = slot,
                                              !.batch_counter = @ + 1]
    /\ results' = WithResult(batch_id, BatchResult)
    /\ queue' = [at \in AuctionType |-> AfterBatch(queue[at], at)]
    /\ UNCHANGED <<initialized, clock>>

-----------------------------------------------------------------------------
(* A new slot; seconds pass more slowly than slots.                        *)
Tick ==
    /\ slot < MaxSlot
    /\ slot' = slot + 1
    /\ unix_timestamp' \in {unix_timestamp, unix_timestamp + 1} \cap Timestamp
    /\ UNCHANGED accounts

(* What the traders do.                                                    *)
Trade ==
    \E owner \in Owner :
        \/ \E p \in Params : PlaceOrder(owner, p)
        \/ CancelAllOrders(owner)
        \/ \E ps \in ParamLists :
              \/ PlaceMultipleOrders(owner, ps)
              \/ CancelAllAndPostNewOrders(owner, ps)

Next ==
    \/ \E batch_interval \in Intervals : Initialize(batch_interval)
    \/ Trade
    \/ \E batch_id \in BatchIds : InitializeResult(batch_id) \/ ExecuteBatch(batch_id)
    \/ Tick

Spec == Init /\ [][Next]_vars
=============================================================================
