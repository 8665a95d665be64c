----------------------------- MODULE Deployment -----------------------------
(***************************************************************************)
(* The program on two layers, and the clients that set it up and try it:   *)
(* the scripts initialize.ts, delegate.ts and demo.ts and the trading      *)
(* panel of the frontend.  A client waits for one transaction at a time.   *)
(*                                                                         *)
(* External, after the delegation program and the router of the rollup:    *)
(* delegating an account takes it from the base layer to the rollup; the   *)
(* accounts an instruction writes must all be on one layer, those it       *)
(* creates are on the base layer; nothing comes back.                      *)
(***************************************************************************)
EXTENDS ProgramProperties, Interface

CONSTANTS
    wallet,         \* the key pair of the scripts and of the panel
    BasePrice,      \* the demo's mid price
    DemoLevels,     \* its quotes on each side, 5 in the code
    PanelOrders,    \* what the user may fill the form of the panel with
    MaxLate         \* bound on the transactions nobody waits for any more

ASSUME DeploymentAssumption ==
    /\ wallet \in Owner
    /\ DemoLevels \in Nat \ {0} /\ DemoLevels < BasePrice /\ 3 < BasePrice
    /\ BasePrice + 3 + DemoLevels \in U64
    /\ PanelOrders \subseteq {p \in PlaceOrderParams : p.order_type = "Taker"}
    /\ MaxLate \in Nat

VARIABLES
    delegated,  \* the addresses of the delegated accounts
    waiting,    \* the transaction each client waits for, or NoTx
    late,       \* the transactions under way that nobody waits for
    demo,       \* where the demo is, and the id of its batch
    loading     \* the trading panel's form is disabled

clients == <<waiting, late, demo, loading>>
system == <<vars, delegated, clients>>

Client == {"delegate", "demo", "panel"}
NoTx == << >>

DeploymentInit ==
    /\ Init
    /\ delegated = {}
    /\ waiting = [c \in Client |-> NoTx]
    /\ late = {}
    /\ demo = [at |-> "off", batch_id |-> 0]
    /\ loading = FALSE

-----------------------------------------------------------------------------
(* Where instructions run.                                                 *)

Runs(written) == written \cap delegated = {} \/ written \subseteq delegated

Exists(pda) ==
    IF pda \in Singletons THEN initialized ELSE pda[2] \in DOMAIN results

(* A mistake: an account that is delegated is delegated again.             *)
DelegateAgain(pda, written) ==
    /\ Exists(pda)
    /\ delegated' = delegated \cup {pda}
    /\ UNCHANGED vars

(* The record of a delegated account exists, so that it is not made again. *)
Delegate(pda, written) ==
    /\ Exists(pda)
    /\ written \cap delegated = {}
    /\ delegated' = delegated \cup {pda}
    /\ UNCHANGED vars

(* An order that meets a full queue is dropped, and the instruction is     *)
(* reported as a success.                                                  *)
PlaceOrderOrDrop(owner, p) ==
    \/ PlaceOrder(owner, p)
    \/ /\ initialized /\ ~ auction_state.is_paused
       /\ ValidParams(p)
       /\ Len(queue[Route(p)]) >= MaxOrders
       /\ UNCHANGED vars

(* The transactions of the clients.                                        *)
DelegateTx(pda) == <<"delegate", pda>>
BatchTx(batch_id) == <<"batch", batch_id>>
PostTx(ps) == <<"post", ps>>
PlaceTx(p) == <<"place", p>>

DelegateAccounts(pda) ==
    CASE pda = AuctionStatePDA -> delegateAuctionStateAccounts
      [] pda = BidQueuePDA -> delegateBidQueueAccounts
      [] pda = AskQueuePDA -> delegateAskQueueAccounts

Execute(tx) ==
    \/ /\ tx[1] = "delegate"
       /\ Delegate(tx[2], DelegateAccounts(tx[2]))
    \/ /\ \/ /\ tx[1] = "batch"
             /\ Runs(executeBatchAccounts(tx[2]))
             /\ ExecuteBatch(tx[2])
          \/ /\ tx[1] = "post"
             /\ Runs(placeMultipleOrdersAccounts)
             /\ PlaceMultipleOrders(wallet, tx[2])
          \/ /\ tx[1] = "place"
             /\ Runs(placeOrderAccounts)
             /\ PlaceOrderOrDrop(wallet, tx[2])
       /\ UNCHANGED delegated

Waits(c, tx) == waiting' = [waiting EXCEPT ![c] = tx]

(* What rpc() makes of a client's transaction: it is executed and          *)
(* confirmed; or rpc() throws, because it was not sent, is refused, or is  *)
(* not confirmed in time, in which case it may be executed later.          *)
Outcome(c, confirmed) ==
    /\ waiting[c] # NoTx
    /\ \/ /\ confirmed
          /\ Execute(waiting[c])
          /\ UNCHANGED late
       \/ /\ ~ confirmed
          /\ late' \in {late} \cup
                 {l \in {late \cup {waiting[c]}} : Cardinality(l) <= MaxLate}
          /\ UNCHANGED <<vars, delegated>>

Late ==
    \E tx \in late :
        /\ Execute(tx) \/ UNCHANGED <<vars, delegated>>
        /\ late' = late \ {tx}
        /\ UNCHANGED <<waiting, demo, loading>>

-----------------------------------------------------------------------------
(* initialize.ts leaves an auction that exists alone.  It looks before it  *)
(* sends its transaction, and Anchor's init looks again: that one counts.  *)

InitializeScript ==
    /\ Runs(initializeAccounts)
    /\ Initialize(1)
    /\ UNCHANGED <<delegated, clients>>

-----------------------------------------------------------------------------
(* delegate.ts: three transactions, one after the other; an error ends it, *)
(* and running it again starts over.                                       *)

DelegationOrder == <<AuctionStatePDA, BidQueuePDA, AskQueuePDA>>

AfterDelegation(tx) ==
    IF tx = DelegateTx(DelegationOrder[1]) THEN DelegateTx(DelegationOrder[2])
    ELSE IF tx = DelegateTx(DelegationOrder[2]) THEN DelegateTx(DelegationOrder[3])
    ELSE NoTx

DelegateScript ==
    /\ waiting["delegate"] = NoTx
    /\ Waits("delegate", DelegateTx(DelegationOrder[1]))
    /\ UNCHANGED <<vars, delegated, late, demo, loading>>

(* A mistake: an error is caught for each transaction.                     *)
DelegateAnsweredRegardless(confirmed) ==
    /\ Outcome("delegate", confirmed)
    /\ Waits("delegate", AfterDelegation(waiting["delegate"]))
    /\ UNCHANGED <<demo, loading>>

DelegateAnswered(confirmed) ==
    /\ Outcome("delegate", confirmed)
    /\ Waits("delegate",
             IF confirmed THEN AfterDelegation(waiting["delegate"]) ELSE NoTx)
    /\ UNCHANGED <<demo, loading>>

-----------------------------------------------------------------------------
(* demo.ts: quotes, takes that cross them, a batch, its result.  In units  *)
(* of a dollar and of 50.                                                  *)

DemoMakers ==
    [j \in 1..(2 * DemoLevels) |->
        LET i == IF j <= DemoLevels THEN j ELSE j - DemoLevels
        IN  [order_type |-> "Maker",
             side |-> IF j <= DemoLevels THEN "Buy" ELSE "Sell",
             price |-> IF j <= DemoLevels THEN BasePrice - i ELSE BasePrice + i,
             quantity |-> i + 1]]

DemoTakers ==
    <<[order_type |-> "Taker", side |-> "Buy", price |-> BasePrice + 2, quantity |-> 3],
      [order_type |-> "Taker", side |-> "Sell", price |-> BasePrice - 2, quantity |-> 3],
      [order_type |-> "Taker", side |-> "Buy", price |-> BasePrice + 3, quantity |-> 2]>>

DemoAt(at, batch_id, tx) ==
    /\ demo' = [at |-> at, batch_id |-> batch_id]
    /\ Waits("demo", tx)
    /\ UNCHANGED loading

DemoScript ==
    /\ demo.at = "off"
    /\ DemoAt("makers", 0, PostTx(DemoMakers))
    /\ UNCHANGED <<vars, delegated, late>>

(* An error skips what is left of the orders, not the batch.               *)
DemoPosted(confirmed) ==
    /\ demo.at \in {"makers", "takers"}
    /\ Outcome("demo", confirmed)
    /\ IF demo.at = "makers" /\ confirmed
       THEN DemoAt("takers", 0, PostTx(DemoTakers))
       ELSE DemoAt("counter", 0, NoTx)

(* A mistake: the id is that of the last batch.                            *)
DemoFetchOfLast ==
    /\ demo.at = "counter"
    /\ UNCHANGED <<vars, delegated, late>>
    /\ \/ /\ initialized /\ auction_state.batch_counter + 1 \in BatchIds
          /\ DemoAt("batch", auction_state.batch_counter,
                    BatchTx(auction_state.batch_counter))
       \/ DemoAt("off", 0, NoTx)

(* Without the account, or with a failing fetch, the script ends.  (Ids    *)
(* outside BatchIds are the bound of the exploration.)                     *)
DemoFetch ==
    /\ demo.at = "counter"
    /\ UNCHANGED <<vars, delegated, late>>
    /\ \/ /\ initialized /\ auction_state.batch_counter + 1 \in BatchIds
          /\ DemoAt("batch", auction_state.batch_counter + 1,
                    BatchTx(auction_state.batch_counter + 1))
       \/ DemoAt("off", 0, NoTx)

DemoExecuted(confirmed) ==
    /\ demo.at = "batch"
    /\ Outcome("demo", confirmed)
    /\ IF confirmed THEN DemoAt("result", demo.batch_id, NoTx) ELSE DemoAt("off", 0, NoTx)

(* The result at demo.batch_id is fetched and printed.                     *)
DemoReport ==
    /\ demo.at = "result"
    /\ DemoAt("off", 0, NoTx)
    /\ UNCHANGED <<vars, delegated, late>>

-----------------------------------------------------------------------------
(* The trading panel.  What is typed and chosen in its form matters when   *)
(* it is submitted, with a wallet connected, and the button that does it   *)
(* is disabled while the panel is loading.                                 *)

SubmitOrder ==
    /\ ~ loading
    /\ loading' = TRUE
    /\ \E p \in PanelOrders : Waits("panel", PlaceTx(p))
    /\ UNCHANGED <<vars, delegated, late, demo>>

(* A mistake: only a success ends the loading.                             *)
OrderAnsweredUnlessError(confirmed) ==
    /\ Outcome("panel", confirmed)
    /\ Waits("panel", NoTx)
    /\ loading' = ~ confirmed
    /\ UNCHANGED demo

OrderAnswered(confirmed) ==
    /\ Outcome("panel", confirmed)
    /\ Waits("panel", NoTx)
    /\ loading' = FALSE
    /\ UNCHANGED demo

-----------------------------------------------------------------------------
(* The services, other traders, the clock, and whoever else signs an       *)
(* instruction: nothing in delegate_* asks who its payer is.  Batches are  *)
(* the crank's, with the id after the counter, as in module Crank: one     *)
(* with another id, which execute_batch accepts, is left out here.         *)
Others ==
    /\ \/ /\ \/ /\ Runs(cancelAllOrdersAccounts)
                /\ \E owner \in Owner : CancelAllOrders(owner)
             \/ /\ Runs(placeOrderAccounts)
                /\ \E owner \in Owner, p \in Params : PlaceOrder(owner, p)
             \/ /\ Runs(placeMultipleOrdersAccounts)
                /\ \E owner \in Owner, ps \in ParamLists :
                      PlaceMultipleOrders(owner, ps)
             \/ /\ Runs(cancelAllAndPostNewOrdersAccounts)
                /\ \E owner \in Owner, ps \in ParamLists :
                      CancelAllAndPostNewOrders(owner, ps)
             \/ LET batch_id == auction_state.batch_counter + 1
                IN  /\ batch_id \in BatchIds
                    /\ Runs(executeBatchAccounts(batch_id))
                    /\ ExecuteBatch(batch_id)
             \/ \E batch_id \in BatchIds :
                   /\ Runs(initializeResultAccounts(batch_id))
                   /\ InitializeResult(batch_id)
             \/ Tick
          /\ UNCHANGED delegated
       \/ \E pda \in Singletons : Delegate(pda, DelegateAccounts(pda))
       \/ \E batch_id \in BatchIds :
             Delegate(ResultPDA(batch_id), delegateResultAccounts(batch_id))
    /\ UNCHANGED clients

Answers(c) ==
    \E confirmed \in BOOLEAN :
        \/ c = "delegate" /\ DelegateAnswered(confirmed)
        \/ c = "demo" /\ (DemoPosted(confirmed) \/ DemoExecuted(confirmed))
        \/ c = "panel" /\ OrderAnswered(confirmed)

DeploymentNext ==
    \/ InitializeScript \/ DelegateScript
    \/ DemoScript \/ DemoFetch \/ DemoReport
    \/ SubmitOrder
    \/ \E c \in Client : Answers(c)
    \/ Late
    \/ Others

(* rpc() and fetch() return or throw in the end.                           *)
Fairness ==
    /\ \A c \in Client : WF_system(Answers(c))
    /\ WF_system(DemoFetch \/ DemoReport)

DeploymentSpec == DeploymentInit /\ [][DeploymentNext]_system
FairDeploymentSpec == DeploymentSpec /\ Fairness
=============================================================================
