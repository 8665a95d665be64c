# A TLA+ verification of toy-dfba

toy-dfba is a dual flow batch auction on Solana: traders rest maker and taker
orders in two queues, a crank runs an auction over each queue every few slots,
and a backend and a frontend drive and show it. The modules beside this file
model the program, TLC checks them on small instances, and TLAPS proves
theorems about them for every value of their constants. Line numbers are of
`src/`; `PROJECT.json` maps every definition to the lines it models.

## 1. The system

| component | state it keeps | operations | hard behaviours |
|---|---|---|---|
| auction (`processor/auction.rs`) | none; changes the orders of a queue | `execute_auction`, `calculate_volume_at_price`, `execute_trades_at_price` | choice of the price, order of filling, roundings, overflow |
| program (`instructions/`, `state.rs`, `lib.rs`) | the accounts `auction_state`, `bid_queue`, `ask_queue`, and one `result` per batch id | `initialize`, `place_order`, `place_multiple_orders`, `cancel_all_orders`, `cancel_all_and_post_new_orders`, `initialize_result`, `execute_batch` | instructions of all traders in any order, full queues, lists cut short, result addresses chosen by the caller |
| delegation (`lib.rs` 53-116, `scripts/delegate.ts`) | who owns each account: the program, or the ephemeral rollup | `delegate_auction_state`, `delegate_bid_queue`, `delegate_ask_queue`, `delegate_result` | a script of three transactions that may stop between them |
| crank (`crank.service.ts`) | an interval; per tick a counter it fetched | `start`, `stop`, `executeBatch` | overlapping ticks, stale counters, colliding ids, an id that is taken for good |
| maker (`maker.service.ts`), taker (`taker.service.ts`) | an interval, statistics | `cancelAllAndPostNewOrders`, `placeTakerOrders` | overlapping ticks landing out of order, partial posting |
| API (`api.service.ts`) | an interval per subscribe message | `/api/orders`, `/api/results`, `/api/auction-state`, WebSocket | snapshots made of several fetches, swallowed failures |
| frontend (`frontend/src/components`) | the last answers, an interval | polls every second | answers overtaking each other |
| scripts (`initialize.ts`, `demo.ts`), trading panel | the transaction each waits for, the id of the demo's batch, `loading` | one transaction after another | errors that skip steps, answers that come after the transaction was given up |
| set-up (`solana.service.ts`, `config`, `index.ts`) | the service being started | connect, derive addresses, start one service after the other | a start that awaits a transaction |

How they interact. The services and the frontend never call each other about
orders or batches: they send transactions to the program and fetch its
accounts. A transaction is atomic and its failure changes nothing, and two that
write one account are executed one after the other. So inside the program the
interleaving is of whole instructions, while a client that fetches an account
and then acts on it has no atomicity at all.

What makes each component correct:

- auction: the price maximises the matched volume; better takers are served
  first and equal ones alike; what is reported is what is filled; no overflow
  on the books the traders can build.
- program: queues never exceed their capacity, hold nothing but live orders of
  their kind in order of placement; an instruction of one trader leaves the
  orders of the others alone; a batch only fills; the log of results is
  gapless and in order; batches keep the interval.
- crank: batches are executed one after the other and keep being executed;
  a tick with a stale counter does no harm.
- maker and taker: the quotes that rest are around one mid (not always the latest
  tick's), and keep their places; every service starts.
- readers: what is shown was in the accounts, and once they rest it is what is
  there (in between, an older answer may replace a newer one); nothing goes on
  polling for viewers who have left.
- delegation: the script delegates the accounts in its order, and nothing trades
  on accounts that are on two layers. (Running the script again does not repair
  an unfinished delegation: it fails at the account delegated first. Anybody can
  repair it by signing the missing instruction, since nothing in `delegate_*` asks
  who the payer is, but no code in the repository does.)
- scripts and panel: each waits for its own transaction only, and ends.

`PROJECT.json` lists the hazards, each at its line, with the properties that
cover it.

## 2. The modules

| module | what it is | models |
|---|---|---|
| `VecOps` | keep the elements at some positions; add up over some positions | `Vec::retain`, the summing loops |
| `State` | the types of the accounts and parameters | `state.rs`, `PlaceOrderParams` |
| `Auction` | the auction of one queue, as operators | `processor/auction.rs` |
| `Program` | the accounts as variables, one action per instruction | `instructions/`, `lib.rs` |
| `ProgramProperties` | what the program promises | - |
| `Claims` | what the documentation claims and the program does not do | - |
| `Crank` | the crank's ticks, composed with the program | `crank.service.ts` |
| `BatchLog` | abstract: an append-only log of numbered batches | - |
| `CrankProperties` | what the crank achieves; that it implements `BatchLog` | - |
| `Services`, `ServicesProperties` | the maker's and taker's ticks and the start of the services, composed with the program | `maker.service.ts`, `taker.service.ts`, `index.ts` |
| `OrderBook`, `OrderBookProperties` | the readers of the queues: the page's polls and the subscriptions | `api.service.ts`, `OrderBook.tsx` |
| `AuctionResults`, `AuctionResultsProperties` | the readers of the results | `api.service.ts`, `AuctionResults.tsx` |
| `Interface` | addresses, and the accounts each instruction writes | `types/toy_dfba.ts`, `solana.service.ts` |
| `Deployment`, `DeploymentProperties` | two layers, and the clients that wait for their transactions | `lib.rs` 53-116, `scripts/`, `TradingPanel.tsx` |
| `MC_...` | small instances for TLC | - |
| `VecOpsProofs`, `AuctionProofs`, `ProgramProofs`, `CrankProofs`, `ServicesProofs`, `OrderBookProofs`, `AuctionResultsProofs`, `DeploymentProofs` | lemmas and theorems | - |

`Program` EXTENDS `Auction`, which EXTENDS `State` and `VecOps`; `Crank`, `Services`,
`OrderBook`, `AuctionResults` and `Deployment` EXTEND `ProgramProperties`, each a
composition of clients with the program's actions as they are; each proof
module extends the module it is about and the proof module below it.

**State and code.** `auction_state`, `queue["Bid"]` and `queue["Ask"]` are the
three singleton accounts, `initialized` says whether they exist, and `results`
is a function from the batch ids in the addresses of the result accounts that
exist to their contents. `slot` and `unix_timestamp` are the Clock sysvar, which
`Tick` advances; it is the one external action. The `authority` of the auction
and the events are left out, as nothing reads them. `is_paused` is kept and
looked at where the code does; no instruction sets it.

**Actions.** Each instruction of `lib.rs` is an action. `require!`, Anchor's
`init` and `seeds` constraints and the overflows that abort an instruction
(`overflow-checks = true`, `Cargo.toml`) are its guards, because a failed
transaction leaves every account as it was. An instruction that returns `Ok`
without doing anything (an order meets a full queue) is a stuttering step.

A list of requests is posted by a loop that may stop in the middle. `Position`
is the length of the queue the loop sees when it reaches a request, `Reached`
the requests it reaches, `Posted` those it pushes, `AllValid` the `require!` of
every request reached. A request that is invalid behind the place where the
loop stops does no harm, in the model as in the code.

**The auction without its loops.** The code sorts references to the orders,
scans prices, and fills price group by price group while `remaining_volume`
lasts. The model names an order by its position in the queue and writes down
what the loops compute: the clearing price is the lowest quoted price with the
largest volume; a group's share is the smaller of its own volume and what the
groups ahead of it leave (`LeftForLevel`); a taker gets its part of that,
rounded down (`TakerFill`). The order of filling is the relation `Outbids` on
prices, so no sorting is needed, and inside a group the code's order does not
matter. Makers are filled by `maker_fill_volume = total - (total - remaining)`
(`MakerFillVolume`): this is what is left after all takers, and it is 0.
`Panics` collects the overflows: the sums over all makers and all takers (the
lowest and the highest price count all of one side), and the product
`available * volume_to_fill`.

**The crank.** `timers` are the intervals that fire: `stop` clears the one it
holds, and a second `start` would leave the first without a handle. Every
callback of an interval is a tick, and since `setInterval` does not wait, `Ticks`
of them may be under way; two crank processes are no different from two
intervals. A tick goes through the `await`s of `executeBatch`: `Fetch` reads the
counter and sends the transaction for the id after it; then either the
transaction lands (`Land`, which is the program's `ExecuteBatch` for that id, at
a time when the counter may have moved), or the program refuses it (`Refuse`: too
early, the address taken, an overflow), or the wait for the confirmation ends
first (`TimeOut`). In the last case the transaction stays in `unconfirmed`, from
where it may still land (`LandLate`) or not (`Expire`). `unconfirmed` is a set:
a second copy of an id can never land after the first, because the result
account then exists. Errors are caught and logged, so that a failing tick just
ends (`FetchFails`, `Refuse`). The traders and `initialize_result` act at any
time (`Others`); `execute_batch` is called by ticks only, unlike in `Program`,
where anyone calls it with any id.

`BatchLog` is the promise to a reader who, as `api.service.ts` does, fetches the
results 1 to `batch_counter`: `Log` in `CrankProperties` maps the result accounts
at these ids to a sequence. The mapping only makes sense with the crank: called
with other ids, `execute_batch` writes its results elsewhere (section 4).

**The services.** Nothing a tick of the maker or the taker learns changes what
the service does next: an error is logged, a success counted. So a tick *is* its
transaction, from the time it is sent (`SendQuotes`, `SendTakes`) to the time it
lands (`LandQuotes`, `LandTakes`, the program's instructions) or is lost, refused
or too old (`LoseQuotes`, `LoseTakes`). The intervals do not wait, so that `Ticks` of
them are in the network in any order. A request is a mid price, one of `Mids`,
with quotes `Levels` deep on both sides of it, or takes `Reach` beyond it, and any
quantities: the code draws the mid at random (within 1 percent) and all
quantities independently. `starting` follows `main()`, which starts the
maker, then the taker and its first orders, whose answer it awaits, then the
crank; a stopped service (`StopService`) leaves in the network what is there. The
crank is its batches here.

**The readers of the queues.** A viewer is the page or a WebSocket connection.
The page mounts with one interval and a poll at once; each `subscribe` message
sets one more interval, and closing a connection clears all of its own, because
every one registers a handler of its own. `StartPoll` needs an interval of the
viewer and nothing else. A poll fetches the bids (`FetchBids`), then the asks
(`FetchAsks`), then is answered (`Answer`), which for the page replaces what it
shows. `Formattable` is the limit of `toNumber()`: beyond `MaxSafe` it throws, and
the page's poll fails as a whole, while a subscription sends its numbers
unconverted. Closing a viewer does not stop the polls it has under way: they run
to their end, for nobody.

**The readers of the results.** A poll of the panel is two requests, started at
once and answered in any order; the results are those of the last `Count` ids up
to the counter fetched first, each fetched on its own, and one that cannot be
fetched is passed over (`MissRow`). The panel takes the two answers together
(`Complete`, `Show`). Batches go on meanwhile, always with the id after the counter,
as the crank's do, and `initialize_result` may take any address.

**Two layers.** `Interface` has the addresses, as tuples of their seeds, and the
accounts each instruction writes, from its `#[derive(Accounts)]` struct (for those
that `#[delegate]` adds, from the generated IDL). `delegated` is the set
of addresses handed to the rollup. What the rollup does with them is external,
and modelled as follows: an instruction runs (`Runs`) where all accounts it
writes are, so that it does not run if some are delegated and some are not; an
account that an instruction creates is on the base layer; an account must exist
to be delegated, and cannot be delegated twice; and none comes back, since
nothing in the repository undelegates. `Others` are all who act beside the clients:
traders who place and cancel orders, signers of `initialize_result`, and signers of
any of the four delegate instructions, in any order and at any time. Batches of
others are the crank's: they have the id after the counter. `execute_batch` with
another id, which the program accepts, is left out here as it is in `Crank`; with
it the result at the demo's id could be one of another number (`batch_log` and
`LogIsGapless` are about such ids).

**Clients that wait.** The scripts and the panel use one `rpc()` at a time.
`waiting` is the transaction each client waits for. Its answer (`Outcome`) is
either a confirmation, when it has been executed, or an error: it was not sent,
was refused, or was not confirmed in time, and then it may stay in `late` and be
executed afterwards (`Late`). `delegate.ts` sends its three transactions in order
and exits on the first error; running it again starts over (`DelegateScript`).
`demo.ts` skips its takes when its quotes fail but executes a batch all the same,
with the id after a counter fetched before, and prints the result at that id.
The panel disables its form (`loading`) while it waits.

## 3. What is checked

The first four runs use `MC_Program`, each with its own constants; each of the
other five is the composition of one group of clients with the program.

| run | states | shows |
|---|---|---|
| `auction_bid` | 22622 | every bid queue of up to 4 orders, over 3 prices, 2 quantities, makers and takers; u64 ends at 7 so that the books overflow too |
| `auction_ask` | 25021 | every ask queue of up to 3 orders with quantities 1 and 3, batches executed, partly filled orders resting and new ones joining |
| `program` | about 223000 | two traders, capacity 2 a queue, two batches, one slot: single orders, lists that overfill one queue, lists with an invalid request, cancels, cancel-and-post |
| `batch_log` | 94128 | four result addresses, taken or executed in any order, intervals 0, 1 and 2, six slots, counters to 4 |
| `crank` | 141136 | two ticks under way, three batches, transactions that time out and land later, `initialize_result` at any address at any time, `start` and `stop` at any time |
| `services` | 68726 | two ticks of the maker and two of the taker in the network, two mids, queues of two, one batch, start and stop of every service |
| `order_book` | 78432 | the page and a connection with two subscriptions, two polls under way, orders that `toNumber()` can and cannot represent |
| `auction_results` | 183672 | two polls of two requests, a panel of the last two of three batches, addresses taken, results and polls that fail |
| `deployment` | 236880 | the three scripts and the panel at once, a late transaction, two result addresses, one slot, any signer of the delegate instructions, results delegated too |

The properties, and why they could fail:

- `ClearingIsOptimal`. The code only tries quoted prices and stops at the first
  best one. No price at all, quoted or not, matches more, and every lower one
  matches less: the tie is broken downwards over all prices.
- `TakersServedInPriceOrder`. Depends on the two sorts of takers, on groups
  being formed from neighbours, and on the group loop stopping in time.
- `TakersOfOnePriceShareAlike`, `ShortfallWithinOneLevel`. Bound what rounding
  takes away: less than one unit from any taker relative to another of its
  price, and less than one unit per taker of a single price in all. The volume
  reported is never below what is filled.
- `SmallBooksNeverPanic`. An overflow aborts `execute_batch`, and aborts it
  again as long as the orders rest. The property gives a region of books in
  which that cannot happen.
- `QueuesHoldOpenOrders`, `QueuesInTimeOrder`. Five instructions put orders in
  or take them out of the middle; none may leave a filled, invalid or misrouted
  order, exceed the capacity or reorder.
- `OthersOrdersKept`. Any step but a batch leaves all traders but one with the
  same orders in the same order.
- `BatchStepOnlyFills`, `ReportedVolumeLeavesQueues`. Relate the queues before
  and after a batch to each other and to the result account it writes.
- `ResultsNumberTheBatches`. Callers choose the addresses, the counter the numbers;
  the numbers stay gapless and in the order of time.
- `BatchesKeepTheInterval`. Every batch, whoever calls it, is at least
  `batch_interval` slots after the one before it, the first after slot 0, and
  nothing but a batch moves the slot this is measured from.
- `ConfirmedTicksExecutedTheirBatch`, `CrankTypeOK`. A tick acts on a counter it
  read earlier; its log line "Batch n executed" must be about the batch that its
  own transaction executed, and no id under way is ahead of the next batch.
- `ReadersSeeALog`. The refinement of `BatchLog`: any interleaving of ticks, late
  landings and `initialize_result` appends one entry per batch and rewrites none.
- `TakenAddressStopsTheCrank`. One call of `initialize_result` with the next id
  ends all batches the crank could execute, whatever is under way.
- `BatchesContinue`. Unless that happens, or an overflow jams the auction, or all
  intervals are cleared, the next batch comes: refusals, timeouts, collisions
  and overlapping ticks do not starve each other.

- `QuotesAreOneTicks`. Cancel-and-post is one instruction, and all of the maker's
  orders go with it. Ticks that land in another order than they were built in
  leave the quotes of an older tick, but never of two mids.
- `MakerKeepsItsPlaces`. The maker posts into the places its cancel has freed, so
  that takers who wait cannot squeeze a quote out once it is there.
- `FullOfTakersIsForEver`. The taker never cancels. Takers are only matched with
  makers, so a queue full of them is dead: the batches match nothing there and
  every instruction that posts stops at it, while it succeeds.
- `QuotesComeToRest`. Short of that, a maker that goes on is quoted in full.
- `AllServicesStart`. The crank starts last, after an answer; no error stops it.
- `BookCatchesUp`, `ResultsCatchUp`. Polls overtake each other and mix two moments.
  Once the accounts are at rest, however, the page shows them as they are, and
  goes on doing so. For the queues there is one more exception, an order too
  large to format, which keeps all orders from the page for as long as it rests.
- `ListedResultsAreTheLog`. The counter is read first and each result later, some
  are missed: what is listed is still final, in order, and of the last batches
  of some moment.
- `RestWithoutViewers`. Every subscription of a connection is cleared when it closes.
- `OrderBookTypeOK`, `AuctionResultsTypeOK`. Orders shown were on their side of the
  book and alive; no counter fetched is ahead of the program, and every row fetched
  or shown is a whole result.
- `DelegatedInOrder`. A transaction of a run that gave up may be executed in the
  middle of the next one, and others may have delegated some of the accounts, and
  still the script delegates no account before its predecessor.
- `DelegationEndsBatches`. What each instruction writes decides: as `execute_batch`
  creates an account, the first delegated account ends the batches, also after
  the last transaction of the script. In between everything stops but cancels,
  and those stop when the two queues are apart.
- `RestartedScriptIsStuck`. After a failure in the middle the script cannot be used
  to finish: its first transaction fails for good. The accounts come together only
  by a step that is not a client's.
- `DemoReportsItsBatch`. The demo prints a result at an id that the crank may have
  executed in its place; it only gets there if its own transaction passed `init`.
- `DeploymentTypeOK`. What a client waits for is a transaction of its own, of the step
  it is at; only accounts that exist are delegated.
- `ClientsComeBack`. Errors and late executions never leave a client waiting, or the
  panel's form disabled.

Every property is paired in `PROJECT.json` with a mutant, a definition of the
same module that makes a plausible mistake (marked "A mistake" in its comment),
under which TLC finds the property violated.

**Bounds.** An auction is decided by comparisons of prices and by sums and
roundings of quantities. Three prices are the least with a best, a middle and a
worst level on each side; four orders (bid) allow two takers of one price,
another level behind them, and a maker; quantities 1 and 2 (and 1 and 3) make
shares that divide evenly and shares that do not. `MaxU64` is 7 or 8 there, so
that sums and products of these quantities lie on both sides of it. Two traders
are all `OthersOrdersKept` distinguishes; a capacity of 2 lets a list fill a
queue before, at and after its first request, and the lists of `MC_Program`
overfill one queue ahead of a request for the other. Four result addresses let
the addresses and the numbers drift apart by more than one. The traders are
symmetric and `program` checks no liveness, so symmetry is sound.

The crank needs no orders: what a batch does to the queues is the business of
the other runs, and the crank reads none of it. Two ticks make every collision
of an old id with a newer one; three batches let an id be two behind; ids beyond
`BatchIds` are not sent, and `MaxSlot` ends the time, which `BatchesContinue`
takes into account (`CanBeDue`). An interval of one slot makes a tick come too
early, in time, and late.

Of the services, one quote and one take on each side decide which tick an order
is of; two mids are two ticks apart; a capacity of two is enough for a queue that
is full of takers, of one of each, and for requests that are cut short. The
readers need one order a queue: a queue is empty, or holds a small order or one
too large. Two polls overtake each other in every way. Three batches with a panel
of two let the oldest row leave the window between the counter and the fetch.
The clients of `Deployment` use one wallet, as the scripts do; a queue of
one makes the demo's lists overfill it; one late transaction at a time
(`MaxLate`) is enough for a run of the script to meet the leftovers of the one
before; two ids let the demo's batch be executed by the crank, and let the address
of a batch be taken before or after it. One slot is enough: a client does not see
the slot, and its transaction is executed, comes too early, or meets an address
that is taken. All queues are of one key here, so that the requests of other
traders are those of `wallet` (only the two instructions that cancel tell owners
apart). Two traders and two slots give about a million states, and the
safety properties hold there as well; with liveness that takes too long to be
repeated at every change.

Deadlock is checked in all runs but `services`: a trader can always cancel once
the auction exists, a viewer can always come and go. In `services` no trader acts
of its own accord, and once all services are stopped, the network is empty and
the clock at its bound, nothing is left to do.

**Fairness.** `Program` assumes none: nothing in the program makes anyone call
it. `FairCrankSpec` assumes what `crank.service.ts` and its environment provide.
Slots go on (weak fairness of `Clock`). An interval that is set starts a tick
again and again, and a tick that has been answered by the program or confirmed
goes on (weak fairness; Node runs the callbacks that are due). The network may
lose a fetch or delay a transaction any number of times, but not forever: strong
fairness of `Fetch` and of `Land`, for each tick. Weak fairness would not do, as
`FetchFails` and `TimeOut` keep disabling them, and a network that never answers
defeats every client. Nothing is assumed of `start`, `stop`, `LandLate`, the
traders or `initialize_result`.

`FairServicesSpec`: `main()` goes on, because `rpc()` answers or throws in the end; the
maker's interval keeps sending (weak fairness); and a maker that keeps sending
is not ignored for ever (strong fairness of `LandQuotes`, which the program may
disable). The taker and the crank may be as slow as they like. `FairOrderBookSpec`:
a poll ends (weak fairness), by an answer or a failure; the page's interval keeps
starting polls, and of its polls not all fail: strong fairness of each stage,
over all polls together, for the API answers some poll, not each.
`FairAuctionResultsSpec`: requests are answered or fail; that they do not fail for
ever is a premise of `ResultsCatchUp` instead. `FairDeploymentSpec`: every client gets
its answer, and the demo goes on. Nothing is assumed of the user, of who starts
the scripts, or of transactions that are late.

## 4. Where the documentation and the code differ

Each of these has a run that is expected to find the violation.

- `MakersShareTheVolume` (README.md:244, 524). Makers are never filled, and
  their orders rest with their whole quantity after they have been matched. The
  documentation's formula multiplies by `remaining_volume`; taken to the letter
  it is what the code does, and it contradicts the sentence it explains.
- `TakersServedInArrivalOrder` (README.md:243, 523). Price first, then pro rata.
- `OrderIdsAreUnique` (README.md:444). Ids repeat.

Seen while reading, without a run: the volume reported as matched
(README.md:459) includes what rounding leaves unfilled, and nothing of it is
filled on the makers' side; a full queue drops quotes silently (README.md:296 posts
all of them); `execute_batch` stores the counter in a result whose address is
whatever id the caller chose (README.md:455-457); the worked example of
README.md:255-266 announces price 100 and volume 700 although its own table has
800 at 105, which is what the code returns; `cancel_all_orders` and
`execute_batch` ignore `is_paused`; nothing sets `is_paused`; the maker's private
`cancelAllOrders` and `postNewOrders` and the API's `broadcastUpdate` are never
called.

## 5. What is proved

Every safety invariant and every action property of the runs that pass is a
theorem, `THEOREM ... == Spec => ...`, for all values of the constants. The
assumptions on these are the named ones of the modules, which TLC evaluates in
each run:

- `WidthAssumption`: the widths are naturals, and timestamps fit a u64;
- `ProgramAssumption`: requests, intervals and ids are of their types, and a
  timestamp plus a queue position fits a u64 (seconds and 85 are far from 2^64);
- `ServicesAssumption`: maker and taker have different keys, a tick has a mid price
  (`Mids # {}`: `basePrice` times a variation is always one), and the mids are far
  enough from 0 and from 2^64 for the levels around them;
- `OrderBookAssumption`, `AuctionResultsAssumption`, `DeploymentAssumption`: names
  are distinct, and the prices and counts the clients compute are in range.

Nothing bounds the traders, the prices, the quantities, the capacity, the ticks
and polls that overlap, the late transactions, or the number of steps.
`OthersAreUndisturbed` says besides that there is an owner at all, since its
property names one.

- `VecOpsProofs`: what `Retain` and `SumOver` return. The library's induction
  theorems take an operator and cannot be instantiated by the provers installed,
  so `NatSetInduction` states induction over a *set* of naturals, proved from
  the least element. From it: the recursion equations, the length and elements
  of `Retain`, and the bounds and monotonicity of `SumOver`. `SeqSetInduction` is the
  same for sequences that grow at their end, which is how `Filter` and `Retain`
  are related (`FilterOfRetain`, `RetainMap`). `RetainByIndices` says that `Retain`
  reads a sequence at ascending positions, so it keeps every order. `SumUnion`,
  `SumOfRetained` and `FloorSum` add up disjoint positions, what is retained, and
  shares that are rounded down.
- `AuctionProofs`: the types and bounds of volumes, prices and fills. A fill
  never exceeds what is open (`FillBounds`, from `ShareBound`: a floor of a
  proportional share), so `Traded` maps orders to orders that differ in
  `filled_quantity` only (`TradedOrders`). `ClearingPriceIsBest` shows that the
  price exists: a non-empty bounded set of volumes has a largest one.
  - `ClearingPriceIsOptimal`: the code tries quoted prices only. A price at which
    anything trades can be lowered to that of the dearest seller who accepts it:
    no seller drops out and no buyer refuses (`QuotedPriceBelow`).
  - `TakersFillInPriceOrder`: a level gets something only when the levels ahead of
    it have taken less than the volume, and these are then filled
    (`LevelsAheadAreFilled`). `TakersOfAPriceShareAlike` compares two floors of one
    fraction (`SharesAlike`).
  - `TakersShortfall`: only one level is cut (`MarginalLevel`): those ahead are filled,
    those behind get nothing, and the floors of that one level lose less than
    one unit for each of its takers.
  - `MakersAreNotFilled`: makers share what the takers have left of a volume that
    never exceeds what the takers ask for, so nothing. With it, `FillsLeaveVolume` gives what the batch leaves of both sides.
- `ProgramProofs`:
  - `TypeCorrect` and `QueuesAreClean`. The inductive invariant is
    `Inv == TypeOK /\ QueuesHoldOpenOrders`. Neither half is inductive alone:
    `filled_quantity` is a u64 after a batch because it never exceeds
    `quantity`, which needs live orders, and the id of a new order is a u64
    because its position is below the capacity. The step has one case for each
    instruction; `WithOrdersWellFormed` (a list never overfills a queue, by
    counting the requests posted ahead of the last one) and
    `AfterBatchWellFormed` carry most of the work.
  - `NoPanicInSmallBooks` follows from `TypeCorrect` and the auction's bounds.
  - `LogIsGapless`. Inductive with `TypeOK`: the new number is above every old
    one and its time is not below.
  - `IntervalKept`. A property of steps: only `ExecuteBatch` moves the counter, which
    needs that `initialize` finds it at 0 (a part of `LogIsGapless`), and before
    `initialize` the slot of the last batch is 0 (`Unstarted`).
  - `NoBetterPrice`, `BetterPricesFirst`, `ProportionalShares` and `ShortfallIsOneLevel`.
    Each instantiates its lemma about the auction for the queues of a reachable
    state: `Inv` has the orders live and typed, which is all the lemmas ask for.
  - `VolumesAreAccountedFor` and `BatchesOnlyFill`. A step that moves the counter is
    an `ExecuteBatch`, its new result is at one address only, and the queue it
    leaves is `Retain` of `Traded`; `ResultsNumberTheBatches` tells the new result
    from those that were there.
  - `QueuesStayInOrder`. The property is not inductive: a new order must not be
    older than what rests. `QueuesUntilNow` adds that no timestamp is after the
    clock; `RetainInTimeOrder` does cancels and batches.
  - `OthersAreUndisturbed`. An instruction has one owner; to cancel its orders and to
    append others leaves `Retain` of everybody else's orders as it was. Needs that there
    are no orders before `initialize` (`EmptyUntilInitialized`).

- `CrankProofs`, for any number of ticks and ids, with the traders at work:
  - `NoTickIsAhead` and `TicksReportTheirBatch`. The crank's steps are steps of the
    program or leave it alone (`CrankStepIsProgramStep`), so `Inv` holds. The
    invariant adds that ids under way are at most the next one (`CrankTypeOK`,
    `IdsInRange`), that below the counter every address is taken
    (`ResultsInPlace`), and that no two confirmed ticks have one id
    (`OneTickPerBatch`). Together: a transaction that passes `init` carries the
    next id exactly (`ExecutesTheNext`), however old the counter it came from.
  - `TakenAddressIsFinal` follows: with the next address taken no id under way
    can pass.
  - `ReadersSeeTheLog`. Every step maps to a step of `BatchLog` or a stutter. It
    needs the invariant above, the program's `ResultsNumberTheBatches` for the
    order of the timestamps, and that nothing happens before `initialize`.

- `ServicesProofs`, for any mids and levels, and any number of overlapping ticks. The
  invariant, `SInv`, is `Inv`, `EmptyUntilInitialized`, the types of the requests
  (`ServicesTypeOK`), that the maker's orders are makers and all others takers
  (`OfKind`), and one mid that all quotes of both queues are around (`Around`).
  - `ServicesTypeCorrect`. A request keeps its type in the network, and the orders of
    a request pass the validation of the program (`MakerOrdersType`,
    `TakerOrdersType`), so the program's steps apply to them.
  - `NeverTwoMids`. The maker's request cancels all its quotes before it posts, so
    what rests afterwards is of the new mid; a request that finds no room for
    some of its quotes posts the others, of the same mid.
  - `PlacesAreKept`. Batches never fill a maker, so they remove no quote
    (`BatchKeepsQuotes`). A cancel of `Levels` quotes in each queue makes room for
    `Levels` new ones there (`CancelMakesRoom`), and each queue gets no more than
    that from one request (`QuotesGetIn`).
  - `FullForEver`. A queue without makers fills nothing (`NoMakersNoFills`), a full
    one lets nobody in (`NoneGetsIn`), and the maker has nothing there to cancel.

- `OrderBookProofs`, for any connections, timers and overlapping polls:
  - `ViewersSeeOrders`. What a poll fetches are the active orders of a queue, well
    formed by `Inv`; the invariant (`OrderBookInv`) keeps them so on their way
    (`ReadersOK`), whatever happens to the queues meanwhile.

- `AuctionResultsProofs`, for any `Count` and any number of overlapping polls:
  - `NoReaderIsAhead` and `ListedResultsAreFinal`. The invariant (`ReadersInv`) says of
    each poll, and not only of what is shown, that its rows are in the window of
    `Count` ids that its counter opened, that the ids increase, and that each row is
    what its account holds now. It survives the steps of the program because a
    result once written never changes (`ResultsAreFinal`), which needs, as for the
    crank, that a batch is given the next id and finds its address free
    (`ResultsInPlace`, `ExecutesTheNext`, in `ProgramProofs`). `Show` needs the poll
    to be complete: only then is its window the one its counter promises.

- `DeploymentProofs`, for any traders, orders, ids, signers and number of late
  transactions:
  - `ClientsWaitInTurn`. Each client's transaction is a function of its own state
    (`PhasesOK`), an account that exists goes on existing (`Grown`), and only accounts
    that exist are delegated (`AccountsOK`).
  - `ScriptDelegatesInOrder`. What is delegated depends on what is in the network, so
    the invariant (`DeploymentInv`) is about the transactions: one that delegates an
    account is waited for, or late, only when its predecessor is delegated
    (`InOrder`), and only `delegate.ts` waits for such transactions (`ClientTxs`).
    Since nothing comes back, `InOrder` stays true of a transaction however long it
    is late (`InOrderForEver`). A step that is not of `Others` executes one of these
    transactions or none (`Effects`).
  - `NoMarketInBetween`. A batch needs all accounts it writes on one layer; with a
    delegated one among them, its result would have to be delegated, hence to
    exist, and then `init` fails (`NoBatch`). Cancels need the two queues only.
  - `RestartDoesNotHelp`. The first transaction of a restart meets an account that
    is delegated, and no other transaction in the network can delegate one. What
    others delegate leaves the accounts split as before, or brings them together.
  - `DemoPrintsItsOwnBatch`. The result at an address up to the counter has the number
    of its address, and any other account is still empty (`LedgerOK`): this needs
    that no transaction in the network, late ones included, asks for a batch
    beyond the next (`BatchTxsOK`). So the batch the demo waits for (`DemoOK`) either
    is executed with its id, or fails.

Only model-checked: the liveness properties, `BatchesContinue`,
`QuotesComeToRest`, `AllServicesStart`, `BookCatchesUp`, `RestWithoutViewers`,
`ResultsCatchUp` and `ClientsComeBack`. Proofs of liveness under fairness and of
ENABLED are outside the prover's reach. `Claims` is refuted by TLC's
counterexamples and has nothing to prove.

## 6. Plan

In this order; the important and the hard first.

1. *(done)* `VecOps`, `State`, `Auction`, `Program`, their properties, claims
   and first theorems.
2. *(done)* `BatchLog`, the abstract promise to those who read results.
3. *(done)* `Crank`, composed with the program, its liveness, and the proof that
   it implements `BatchLog`.
4. *(done)* `Services`: the maker's and taker's overlapping ticks, and the start.
5. *(done)* `OrderBook` and `AuctionResults`: what a reader may and may not see.
6. *(done)* `Interface` and `Deployment`: the two layers, the scripts, the panel, and
   the proofs about `delegate.ts` and the panel of results.
7. *(done)* Proofs: the auction's price, shares and shortfall; the program's
   action properties; the services; the readers of the queues; the demo.
8. Left: theorems that each composition takes only steps of `Program` or leaves
   its accounts alone where the modules share this argument, stated once rather
   than in each proof module; shorter proofs of the long lemmas about the
   auction.

## 7. Not modelled

- Account sizes, rents, fees, compute and heap limits, and signatures: a
  transaction that the runtime refuses changes nothing.
- Token transfers: the program has none.
- The rollup's own blocks, the commits of delegated accounts to the base layer,
  and `processUndelegation`, the one entry of the IDL without an action: it is the
  delegation program that calls it, when an account comes back.
- The place-order route of the API, which keeps and changes nothing.
- Key pairs, the connection, environment variables, formatting, layout, the React
  and Express glue, statistics and logs.
- The sections of the IDL that declare types, accounts and errors: `State` has
  them from the program. `frontend/src/idl.json` and `backend/src/idl/toy_dfba.json`
  are copies of the same IDL.
- The tests: three sequential calls of the instructions, read for how they are
  meant to be used.
