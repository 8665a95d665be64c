-------------------------- MODULE DeploymentProofs --------------------------
(***************************************************************************)
(* What delegate.ts can and cannot do, for every set of traders, requests  *)
(* and ids, however many of its transactions are executed late, and        *)
(* whatever others delegate.  The invariant speaks of the transactions in  *)
(* the network: one that delegates an account is only sent once those      *)
(* before it are delegated.                                                *)
(***************************************************************************)
EXTENDS DeploymentProperties, FiniteSetTheorems, TLAPS

OtherTxs == DemoTxs \cup PanelTxs

-----------------------------------------------------------------------------
(* Addresses and transactions are told apart.                              *)

LEMMA Addresses ==
    /\ AuctionStatePDA # BidQueuePDA /\ AuctionStatePDA # AskQueuePDA
    /\ BidQueuePDA # AskQueuePDA
    /\ \A b : ResultPDA(b) \notin Singletons
BY DEF AuctionStatePDA, BidQueuePDA, AskQueuePDA, ResultPDA, Singletons

LEMMA Transactions ==
    /\ Txs = DelegateTxs \cup OtherTxs
    /\ NoTx \notin Txs
    /\ \A tx \in OtherTxs : tx[1] # "delegate"
    /\ \A pda : /\ DelegateTx(pda)[1] = "delegate"
                /\ DelegateTx(pda)[2] = pda
<1>1. Txs = DelegateTxs \cup OtherTxs
    BY DEF Txs, OtherTxs
<1>2. \A pda : /\ DelegateTx(pda)[1] = "delegate"
               /\ DelegateTx(pda)[2] = pda
               /\ DelegateTx(pda) # NoTx
    BY DEF DelegateTx, NoTx
<1>3. \A tx \in OtherTxs : tx[1] # "delegate" /\ tx # NoTx
    BY DEF OtherTxs, DemoTxs, PanelTxs, PostTx, BatchTx, PlaceTx, NoTx
<1> QED BY <1>1, <1>2, <1>3 DEF DelegateTxs

LEMMA DelegateTxsAreDistinct ==
    /\ \A pda, other : DelegateTx(pda) = DelegateTx(other) => pda = other
    /\ \A pda : DelegateTx(pda) \notin OtherTxs
    /\ \A pda \in Singletons : DelegateTx(pda) \in DelegateTxs
BY Transactions DEF DelegateTxs

LEMMA Order3 ==
    /\ DelegationOrder[1] = AuctionStatePDA
    /\ DelegationOrder[2] = BidQueuePDA
    /\ DelegationOrder[3] = AskQueuePDA
BY DEF DelegationOrder

-----------------------------------------------------------------------------
(* What a step does to the accounts: it delegates one that is not, or it   *)
(* leaves the delegated accounts alone.                                    *)

Grown ==
    /\ DOMAIN results \subseteq DOMAIN results'
    /\ initialized => initialized'
Delegates(pda) == /\ pda \notin delegated
                  /\ delegated' = delegated \cup {pda}
                  /\ UNCHANGED vars

LEMMA DelegateEffect ==
    ASSUME NEW pda, NEW written, pda \in written, Delegate(pda, written)
    PROVE  Delegates(pda) /\ Exists(pda)
BY DEF Delegate, Delegates

LEMMA SingletonAccounts ==
    ASSUME NEW pda \in Singletons
    PROVE  pda \in DelegateAccounts(pda)
BY Addresses DEF DelegateAccounts, delegateAuctionStateAccounts,
   delegateBidQueueAccounts, delegateAskQueueAccounts, Delegation, Singletons

LEMMA ResultsGrow ==
    ASSUME NEW b, InitializeResult(b) \/ ExecuteBatch(b)
    PROVE  Grown
BY DEF InitializeResult, ExecuteBatch, Executable, WithResult, Grown

LEMMA ExecuteEffect ==
    ASSUME NEW tx \in Txs, Execute(tx)
    PROVE  \/ \E pda \in Singletons :
                 tx = DelegateTx(pda) /\ Delegates(pda) /\ Exists(pda)
           \/ /\ tx \in OtherTxs
              /\ UNCHANGED delegated /\ Grown
              /\ ~ Split
<1>1. ASSUME tx[1] = "delegate"
      PROVE  \E pda \in Singletons :
                tx = DelegateTx(pda) /\ Delegates(pda) /\ Exists(pda)
    <2>1. PICK pda \in Singletons : tx = DelegateTx(pda)
        BY <1>1, Transactions DEF DelegateTxs
    <2>2. tx[2] = pda
        BY <2>1, Transactions
    <2>3. Delegate(pda, DelegateAccounts(pda))
        BY <1>1, <2>2 DEF Execute
    <2> QED BY <2>1, <2>3, SingletonAccounts, DelegateEffect
<1>2. ASSUME tx[1] # "delegate"
      PROVE  tx \in OtherTxs /\ UNCHANGED delegated /\ Grown /\ ~ Split
    <2>1. tx \in OtherTxs
        BY <1>2, Transactions DEF DelegateTxs
    <2>2. UNCHANGED delegated
        BY <1>2 DEF Execute
    <2>3. CASE Runs(executeBatchAccounts(tx[2])) /\ ExecuteBatch(tx[2])
        <3>1. ~ Split
            BY <2>3 DEF Runs, executeBatchAccounts, Split
        <3> QED BY <2>1, <2>2, <2>3, <3>1, ResultsGrow
    <2>4. CASE Runs(placeMultipleOrdersAccounts) /\ PlaceMultipleOrders(wallet, tx[2])
        BY <2>1, <2>2, <2>4
           DEF Runs, placeMultipleOrdersAccounts, Split, PlaceMultipleOrders, Grown
    <2>5. CASE Runs(placeOrderAccounts) /\ PlaceOrderOrDrop(wallet, tx[2])
        BY <2>1, <2>2, <2>5
           DEF Runs, placeOrderAccounts, Split, PlaceOrderOrDrop, PlaceOrder, Grown, vars
    <2> QED BY <1>2, <2>3, <2>4, <2>5 DEF Execute
<1> QED BY <1>1, <1>2

LEMMA OthersEffect ==
    ASSUME Others
    PROVE  /\ UNCHANGED clients
           /\ \/ \E pda \in Singletons : Delegates(pda) /\ Exists(pda)
              \/ \E b \in BatchIds : Delegates(ResultPDA(b)) /\ Exists(ResultPDA(b))
              \/ UNCHANGED delegated /\ Grown
<1>1. ASSUME NEW b \in BatchIds, Delegate(ResultPDA(b), delegateResultAccounts(b))
      PROVE  Delegates(ResultPDA(b)) /\ Exists(ResultPDA(b))
    <2>1. ResultPDA(b) \in delegateResultAccounts(b)
        BY DEF delegateResultAccounts, Delegation
    <2> QED BY <1>1, <2>1, DelegateEffect
<1>2. ASSUME NEW pda \in Singletons, Delegate(pda, DelegateAccounts(pda))
      PROVE  Delegates(pda) /\ Exists(pda)
    BY <1>2, SingletonAccounts, DelegateEffect
<1>3. ASSUME NEW owner \in Owner,
             \/ CancelAllOrders(owner)
             \/ \E p \in Params : PlaceOrder(owner, p)
             \/ \E ps \in ParamLists : \/ PlaceMultipleOrders(owner, ps)
                                      \/ CancelAllAndPostNewOrders(owner, ps)
      PROVE  Grown
    BY <1>3 DEF CancelAllOrders, PlaceOrder, PlaceMultipleOrders,
                CancelAllAndPostNewOrders, Grown
<1>4. Tick => Grown
    BY DEF Tick, accounts, Grown
<1> QED BY <1>1, <1>2, <1>3, <1>4, ResultsGrow DEF Others

-----------------------------------------------------------------------------
(* The invariant.                                                          *)

(* A transaction of delegate.ts has been waited for.                       *)
InOrder(tx) ==
    \A i \in 1..2 :
        tx = DelegateTx(DelegationOrder[i + 1]) => DelegationOrder[i] \in delegated

ClientTxs ==
    /\ waiting["delegate"] \in DelegateTxs \cup {NoTx}
    /\ waiting["demo"] \in OtherTxs \cup {NoTx}
    /\ waiting["panel"] \in OtherTxs \cup {NoTx}

NetworkOK ==
    /\ waiting \in [Client -> Txs \cup {NoTx}]
    /\ ClientTxs
    /\ late \subseteq Txs
    /\ IsFiniteSet(late) /\ Cardinality(late) <= MaxLate
Sequential ==
    /\ \A c \in Client : InOrder(waiting[c])
    /\ \A tx \in late : InOrder(tx)
AccountsOK ==
    /\ delegated \subseteq Singletons \cup {ResultPDA(b) : b \in BatchIds}
    /\ \A pda \in delegated : Exists(pda)
PhasesOK ==
    /\ demo.at \in {"off", "makers", "takers", "counter", "batch", "result"}
    /\ demo.batch_id \in BatchIds \cup {0}
    /\ waiting["demo"] = DemoTx
    /\ waiting["panel"] \in IF loading THEN PanelTxs ELSE {NoTx}

DeploymentInv == NetworkOK /\ Sequential /\ AccountsOK /\ PhasesOK

LEMMA DeploymentInvImplies == DeploymentInv => DeploymentTypeOK
BY DEF DeploymentInv, NetworkOK, ClientTxs, AccountsOK, PhasesOK, DeploymentTypeOK

LEMMA DeploymentInitInv == DeploymentInit => DeploymentInv
<1> SUFFICES ASSUME DeploymentInit PROVE DeploymentInv
    OBVIOUS
<1>1. waiting = [c \in Client |-> NoTx] /\ late = {} /\ delegated = {}
    BY DEF DeploymentInit
<1>2. NetworkOK
    BY <1>1, FS_EmptySet, DeploymentAssumption DEF NetworkOK, ClientTxs, Client
<1>3. Sequential
    BY <1>1, Transactions, DelegateTxsAreDistinct, Order3
       DEF Sequential, InOrder, Singletons, DelegateTxs
<1>4. AccountsOK
    BY <1>1 DEF AccountsOK
<1>5. PhasesOK
    BY <1>1 DEF PhasesOK, DemoTx, DeploymentInit, Client
<1> QED BY <1>2, <1>3, <1>4, <1>5 DEF DeploymentInv

(* What is in order stays so when more accounts are delegated.             *)
LEMMA InOrderForEver ==
    ASSUME NEW tx, InOrder(tx), delegated \subseteq delegated'
    PROVE  InOrder(tx)'
BY DEF InOrder, DelegationOrder, AuctionStatePDA, BidQueuePDA, AskQueuePDA, DelegateTx

(* The accounts after a step: those that are delegated stay delegated, and *)
(* those that exist go on existing.                                        *)
LEMMA AccountsStep ==
    ASSUME AccountsOK,
           \/ \E tx \in Txs : Execute(tx)
           \/ Others
           \/ UNCHANGED delegated /\ Grown
    PROVE  AccountsOK' /\ delegated \subseteq delegated'
<1>1. ASSUME Grown, NEW pda, Exists(pda) PROVE Exists(pda)'
    BY <1>1 DEF Exists, Grown, Singletons, AuctionStatePDA, BidQueuePDA, AskQueuePDA
<1>2. (Singletons \cup {ResultPDA(b) : b \in BatchIds})'
          = Singletons \cup {ResultPDA(b) : b \in BatchIds}
    BY DEF Singletons, AuctionStatePDA, BidQueuePDA, AskQueuePDA, ResultPDA
<1>3. ASSUME NEW pda \in Singletons \cup {ResultPDA(b) : b \in BatchIds},
             Delegates(pda), Exists(pda)
      PROVE  AccountsOK' /\ delegated \subseteq delegated'
    <2>1. delegated' = delegated \cup {pda} /\ Grown
        BY <1>3 DEF Delegates, Grown, vars
    <2> QED BY <1>1, <1>2, <1>3, <2>1 DEF AccountsOK
<1>4. ASSUME UNCHANGED delegated, Grown
      PROVE  AccountsOK' /\ delegated \subseteq delegated'
    BY <1>1, <1>2, <1>4 DEF AccountsOK
<1>5. ASSUME NEW tx \in Txs, Execute(tx)
      PROVE  AccountsOK' /\ delegated \subseteq delegated'
    BY <1>3, <1>4, <1>5, ExecuteEffect
<1> QED BY <1>3, <1>4, <1>5, OthersEffect

(* Transactions are the same in every state.                               *)
LEMMA SameTxs ==
    /\ DelegateTxs' = DelegateTxs /\ DemoTxs' = DemoTxs /\ PanelTxs' = PanelTxs
    /\ OtherTxs' = OtherTxs /\ Txs' = Txs /\ NoTx' = NoTx
    /\ PostTx(DemoMakers)' = PostTx(DemoMakers) /\ PostTx(DemoTakers)' = PostTx(DemoTakers)
    /\ \A b : BatchTx(b)' = BatchTx(b)
BY DEF DelegateTxs, DemoTxs, PanelTxs, OtherTxs, Txs, NoTx, DelegateTx, Singletons,
   AuctionStatePDA, BidQueuePDA, AskQueuePDA, BatchTx, PostTx, PlaceTx,
   DemoMakers, DemoTakers

(* The network after a client moves on to next.                            *)
LEMMA NetworkStep ==
    ASSUME NetworkOK, NEW c \in Client, NEW next,
           waiting' = [waiting EXCEPT ![c] = next],
           next \in (IF c = "delegate" THEN DelegateTxs ELSE OtherTxs) \cup {NoTx},
           \/ UNCHANGED late
           \/ \E confirmed \in BOOLEAN : Outcome(c, confirmed)
    PROVE  NetworkOK'
<1>1. waiting' \in [Client -> Txs \cup {NoTx}]
    BY Transactions DEF NetworkOK
<1>2. ClientTxs'
    BY SameTxs DEF NetworkOK, ClientTxs, Client
<1>3. late' \subseteq Txs /\ IsFiniteSet(late') /\ Cardinality(late') <= MaxLate
    <2>1. CASE UNCHANGED late
        BY <2>1 DEF NetworkOK
    <2>2. CASE \E confirmed \in BOOLEAN : Outcome(c, confirmed)
        <3>1. waiting[c] \in Txs
            BY <2>2 DEF Outcome, NetworkOK
        <3>2. IsFiniteSet(late \cup {waiting[c]})
            BY FS_AddElement DEF NetworkOK
        <3>3. \/ late' = late
              \/ late' = late \cup {waiting[c]} /\ Cardinality(late') <= MaxLate
            BY <2>2 DEF Outcome
        <3> QED BY <3>1, <3>2, <3>3 DEF NetworkOK
    <2> QED BY <2>1, <2>2
<1> QED BY <1>1, <1>2, <1>3, SameTxs DEF NetworkOK

NextTxOf(c, next) ==
    /\ waiting' = [waiting EXCEPT ![c] = next]
    /\ next \in (IF c = "delegate" THEN DelegateTxs ELSE OtherTxs) \cup {NoTx}

(* A client gets its answer, and sends the transaction after it.           *)
LEMMA AnswerStep ==
    ASSUME NetworkOK, Sequential, AccountsOK,
           NEW c \in Client, NEW next, NextTxOf(c, next),
           NEW confirmed \in BOOLEAN, Outcome(c, confirmed),
           InOrder(next)'
    PROVE  NetworkOK' /\ Sequential' /\ AccountsOK'
<1>1. NetworkOK'
    BY NetworkStep DEF NextTxOf
<1>2. waiting[c] \in Txs /\ InOrder(waiting[c])
    BY DEF Outcome, NetworkOK, Sequential
<1>3. Execute(waiting[c]) \/ (UNCHANGED delegated /\ Grown)
    <2>1. UNCHANGED vars => Grown
        BY DEF Grown, vars
    <2> QED BY <2>1 DEF Outcome
<1>4. AccountsOK' /\ delegated \subseteq delegated'
    BY <1>2, <1>3, AccountsStep
<1>5. ASSUME NEW d \in Client PROVE InOrder(waiting[d])'
    <2>1. CASE d = c
        BY <2>1 DEF NextTxOf, NetworkOK
    <2>2. CASE d # c
        <3>1. waiting'[d] = waiting[d] /\ InOrder(waiting[d])
            BY <2>2 DEF NextTxOf, NetworkOK, Sequential
        <3> DEFINE tx == waiting[d]
        <3>2. InOrder(tx)
            BY <3>1
        <3> HIDE DEF tx
        <3>3. \A i \in 1..2 : tx = DelegateTx(DelegationOrder[i + 1])
                                => DelegationOrder[i] \in delegated'
            BY <1>4, <3>2 DEF InOrder
        <3> QED BY <3>1, <3>3 DEF tx, InOrder, DelegateTx, DelegationOrder,
                   AuctionStatePDA, BidQueuePDA, AskQueuePDA
    <2> QED BY <2>1, <2>2
<1>6. ASSUME NEW tx \in late' PROVE InOrder(tx)'
    <2>1. InOrder(tx)
        BY <1>2, <1>6 DEF Outcome, Sequential
    <2> QED BY <1>4, <2>1, InOrderForEver
<1> QED BY <1>1, <1>4, <1>5, <1>6 DEF Sequential

(* A client sends a transaction, or does without.                          *)
LEMMA SendStep ==
    ASSUME NetworkOK, Sequential, AccountsOK,
           NEW c \in Client, NEW next, NextTxOf(c, next), InOrder(next),
           UNCHANGED <<vars, delegated, late>>
    PROVE  NetworkOK' /\ Sequential' /\ AccountsOK'
<1>1. NetworkOK'
    BY NetworkStep DEF NextTxOf
<1>2. AccountsOK'
    BY AccountsStep DEF Grown, vars
<1>3. ASSUME NEW d \in Client PROVE InOrder(waiting'[d])
    BY DEF NextTxOf, NetworkOK, Sequential
<1>4. \A d \in Client : InOrder(waiting[d])'
    BY <1>3 DEF InOrder, DelegateTx, DelegationOrder,
       AuctionStatePDA, BidQueuePDA, AskQueuePDA
<1>5. ASSUME NEW tx \in late' PROVE InOrder(tx)'
    BY <1>5, InOrderForEver DEF Sequential
<1> QED BY <1>1, <1>2, <1>4, <1>5 DEF Sequential

LEMMA OtherTxsAreInOrder ==
    ASSUME NEW tx \in OtherTxs \cup {NoTx}
    PROVE  InOrder(tx) /\ InOrder(tx)'
<1>1. \A pda : tx # DelegateTx(pda)
    <2>1. CASE tx = NoTx
        BY <2>1 DEF NoTx, DelegateTx
    <2>2. CASE tx \in OtherTxs
        BY <2>2, DelegateTxsAreDistinct
    <2> QED BY <2>1, <2>2
<1>2. InOrder(tx)
    BY <1>1 DEF InOrder
<1>3. InOrder(tx)'
    BY <1>1 DEF InOrder, DelegateTx
<1> QED BY <1>2, <1>3

LEMMA DelegationGoesOn ==
    ASSUME NetworkOK, NEW confirmed \in BOOLEAN, DelegateAnswered(confirmed)
    PROVE  \E next : /\ NextTxOf("delegate", next)
                     /\ InOrder(next)'
<1>1. PICK tx : tx = waiting["delegate"]
    OBVIOUS
<1>2. PICK next : next = IF confirmed THEN AfterDelegation(tx) ELSE NoTx
    OBVIOUS
<1>3. tx \in DelegateTxs
    BY <1>1 DEF DelegateAnswered, Outcome, NetworkOK, ClientTxs
<1>4. waiting' = [waiting EXCEPT !["delegate"] = next]
    BY <1>1, <1>2 DEF DelegateAnswered, Waits
<1>5. next \in DelegateTxs \cup {NoTx}
    BY <1>2, Order3 DEF AfterDelegation, DelegateTxs, Singletons
<1>6. InOrder(next)'
    <2>1. CASE next = NoTx
        BY <2>1, OtherTxsAreInOrder
    <2>2. CASE next # NoTx
        <3>1. confirmed /\ Execute(tx)
            BY <1>1, <1>2, <2>2 DEF DelegateAnswered, Outcome
        <3>2. PICK pda \in Singletons : tx = DelegateTx(pda)
            BY <1>3 DEF DelegateTxs
        <3>3. tx \in Txs /\ tx \notin OtherTxs
            BY <1>3, <3>2, Transactions, DelegateTxsAreDistinct
        <3>4. pda \in delegated'
            BY <3>1, <3>2, <3>3, ExecuteEffect, DelegateTxsAreDistinct DEF Delegates
        <3>5. \E i \in 1..2 : pda = DelegationOrder[i] /\ next = DelegateTx(DelegationOrder[i + 1])
            BY <1>2, <2>2, <3>1, <3>2, DelegateTxsAreDistinct DEF AfterDelegation
        <3> QED
            BY <3>4, <3>5, DelegateTxsAreDistinct, Addresses, Order3
               DEF InOrder, DelegationOrder, AuctionStatePDA, BidQueuePDA, AskQueuePDA,
                   DelegateTx
    <2> QED BY <2>1, <2>2
<1> QED BY <1>4, <1>5, <1>6 DEF NextTxOf

(* What the demo waits for at a place, whatever the state.                 *)
TxAt(at, batch_id) ==
    CASE at = "makers" -> PostTx(DemoMakers)
      [] at = "takers" -> PostTx(DemoTakers)
      [] at = "batch" -> BatchTx(batch_id)
      [] OTHER -> NoTx

LEMMA DemoTxIs ==
    /\ DemoTx = TxAt(demo.at, demo.batch_id)
    /\ DemoTx' = TxAt(demo'.at, demo'.batch_id)
<1>1. DemoTx = TxAt(demo.at, demo.batch_id)
    BY DEF DemoTx, TxAt
<1>2. DemoTx' = TxAt(demo'.at, demo'.batch_id)
    BY SameTxs DEF DemoTx, TxAt
<1> QED BY <1>1, <1>2

(* A step of neither the demo nor the panel.                               *)
LEMMA SamePhases ==
    ASSUME PhasesOK, UNCHANGED <<demo, loading>>,
           waiting'["demo"] = waiting["demo"], waiting'["panel"] = waiting["panel"]
    PROVE  PhasesOK'
BY SameTxs, DemoTxIs DEF PhasesOK

LEMMA DemoGoesOn ==
    ASSUME NetworkOK, PhasesOK,
           \/ DemoScript \/ DemoFetch \/ DemoReport
           \/ \E confirmed \in BOOLEAN : DemoPosted(confirmed) \/ DemoExecuted(confirmed)
    PROVE  /\ \E next \in OtherTxs \cup {NoTx} : NextTxOf("demo", next)
           /\ PhasesOK'
<1> DEFINE Phase == {"off", "makers", "takers", "counter", "batch", "result"}
<1>1. PICK at \in Phase, b \in BatchIds \cup {0} :
          /\ DemoAt(at, b, TxAt(at, b))
          /\ at = "batch" => b \in BatchIds
    <2>1. CASE DemoScript
        BY <2>1 DEF DemoScript, TxAt
    <2>2. CASE DemoFetch
        BY <2>2 DEF DemoFetch, TxAt
    <2>3. CASE DemoReport
        BY <2>3 DEF DemoReport, TxAt
    <2>4. CASE \E confirmed \in BOOLEAN : DemoPosted(confirmed)
        BY <2>4 DEF DemoPosted, TxAt
    <2>5. CASE \E confirmed \in BOOLEAN : DemoExecuted(confirmed)
        BY <2>5 DEF DemoExecuted, TxAt, PhasesOK
    <2> QED BY <2>1, <2>2, <2>3, <2>4, <2>5
<1>2. PICK next : next = TxAt(at, b)
    OBVIOUS
<1>3. next \in OtherTxs \cup {NoTx}
    BY <1>1, <1>2 DEF TxAt, OtherTxs, DemoTxs
<1>4. /\ waiting' = [waiting EXCEPT !["demo"] = next]
      /\ demo' = [at |-> at, batch_id |-> b] /\ loading' = loading
    BY <1>1, <1>2 DEF DemoAt, Waits
<1>5. waiting'["demo"] = next /\ waiting'["panel"] = waiting["panel"]
    BY <1>4 DEF NetworkOK, Client
<1>6. demo'.at = at /\ demo'.batch_id = b
    BY <1>4
<1>7. waiting'["demo"] = DemoTx'
    BY <1>2, <1>5, <1>6, DemoTxIs
<1>8. PhasesOK'
    BY <1>4, <1>5, <1>6, <1>7, SameTxs DEF PhasesOK
<1> QED BY <1>3, <1>4, <1>8 DEF NextTxOf

LEMMA PanelGoesOn ==
    ASSUME NetworkOK, PhasesOK,
           SubmitOrder \/ \E confirmed \in BOOLEAN : OrderAnswered(confirmed)
    PROVE  /\ \E next \in OtherTxs \cup {NoTx} : NextTxOf("panel", next)
           /\ PhasesOK'
<1>1. PICK next \in PanelTxs \cup {NoTx} :
          /\ waiting' = [waiting EXCEPT !["panel"] = next]
          /\ next \in IF loading' THEN PanelTxs ELSE {NoTx}
          /\ demo' = demo
    <2>1. CASE SubmitOrder
        BY <2>1 DEF SubmitOrder, Waits, PanelTxs
    <2>2. CASE \E confirmed \in BOOLEAN : OrderAnswered(confirmed)
        BY <2>2 DEF OrderAnswered, Waits
    <2> QED BY <2>1, <2>2
<1>2. NextTxOf("panel", next)
    BY <1>1 DEF NextTxOf, OtherTxs
<1>3. waiting'["panel"] = next /\ waiting'["demo"] = waiting["demo"]
    BY <1>1 DEF NetworkOK, Client
<1>4. PhasesOK'
    BY <1>1, <1>3, SameTxs, DemoTxIs DEF PhasesOK
<1> QED BY <1>2, <1>4 DEF OtherTxs

LEMMA LateStep ==
    ASSUME NetworkOK, Sequential, AccountsOK, PhasesOK, Late
    PROVE  NetworkOK' /\ Sequential' /\ AccountsOK' /\ PhasesOK'
<1>1. PICK tx \in late :
          /\ Execute(tx) \/ UNCHANGED <<vars, delegated>>
          /\ late' = late \ {tx}
          /\ UNCHANGED <<waiting, demo, loading>>
    BY DEF Late
<1>2. tx \in Txs /\ InOrder(tx)
    BY DEF NetworkOK, Sequential
<1>3. AccountsOK' /\ delegated \subseteq delegated'
    BY <1>1, <1>2, AccountsStep DEF Grown, vars
<1>4. IsFiniteSet(late') /\ Cardinality(late') <= MaxLate
    <2>1. /\ IsFiniteSet(late \ {tx})
          /\ Cardinality(late \ {tx}) = Cardinality(late) - 1
        BY FS_RemoveElement DEF NetworkOK
    <2>2. Cardinality(late) \in Nat
        BY FS_CardinalityType DEF NetworkOK
    <2> QED BY <1>1, <2>1, <2>2, DeploymentAssumption DEF NetworkOK
<1>5. NetworkOK'
    BY <1>1, <1>4, SameTxs DEF NetworkOK, ClientTxs
<1>6. Sequential'
    <2>1. \A any \in late' : InOrder(any)'
        BY <1>1, <1>3, InOrderForEver DEF Sequential
    <2>2. ASSUME NEW c \in Client PROVE InOrder(waiting[c])'
        <3>1. PICK own : own = waiting[c]
            OBVIOUS
        <3>2. InOrder(own)'
            BY <1>3, <3>1, InOrderForEver DEF Sequential
        <3> QED BY <1>1, <3>1, <3>2 DEF InOrder
    <2> QED BY <1>3, <2>1, <2>2 DEF Sequential
<1>7. PhasesOK'
    BY <1>1, SamePhases
<1> QED BY <1>3, <1>5, <1>6, <1>7

(* A step that leaves the clients alone.                                   *)
LEMMA QuietStep ==
    ASSUME NetworkOK, Sequential, AccountsOK, PhasesOK, UNCHANGED clients,
           Others \/ (UNCHANGED delegated /\ Grown)
    PROVE  NetworkOK' /\ Sequential' /\ AccountsOK' /\ PhasesOK'
<1>1. AccountsOK' /\ delegated \subseteq delegated'
    BY AccountsStep
<1>2. UNCHANGED <<waiting, late, demo, loading>>
    BY DEF clients
<1>3. NetworkOK'
    BY <1>2, SameTxs DEF NetworkOK, ClientTxs
<1>4. Sequential'
    <2>1. \A any \in late' : InOrder(any)'
        BY <1>1, <1>2, InOrderForEver DEF Sequential
    <2>2. ASSUME NEW c \in Client PROVE InOrder(waiting[c])'
        <3>1. PICK own : own = waiting[c]
            OBVIOUS
        <3>2. InOrder(own)'
            BY <1>1, <3>1, InOrderForEver DEF Sequential
        <3> QED BY <1>2, <3>1, <3>2 DEF InOrder
    <2> QED BY <1>1, <2>1, <2>2 DEF Sequential
<1>5. PhasesOK'
    BY <1>2, SamePhases
<1> QED BY <1>1, <1>3, <1>4, <1>5

LEMMA DeploymentStepInv ==
    DeploymentInv /\ [DeploymentNext]_system => DeploymentInv'
<1> SUFFICES ASSUME NetworkOK, Sequential, AccountsOK, PhasesOK, [DeploymentNext]_system
             PROVE  NetworkOK' /\ Sequential' /\ AccountsOK' /\ PhasesOK'
    BY DEF DeploymentInv
<1>1. CASE InitializeScript
    <2>1. UNCHANGED clients /\ UNCHANGED delegated /\ Grown
        BY <1>1 DEF InitializeScript, Initialize, Grown
    <2> QED BY <2>1, QuietStep
<1>2. CASE DelegateScript
    <2>1. PICK next : next = DelegateTx(AuctionStatePDA)
        OBVIOUS
    <2>2. NextTxOf("delegate", next)
        BY <1>2, <2>1, Order3 DEF DelegateScript, Waits, NextTxOf, DelegateTxs, Singletons
    <2>3. InOrder(next)
        BY <2>1, DelegateTxsAreDistinct, Addresses, Order3
           DEF InOrder, DelegationOrder, AuctionStatePDA, BidQueuePDA, AskQueuePDA, DelegateTx
    <2>4. UNCHANGED <<vars, delegated, late, demo, loading>>
        BY <1>2 DEF DelegateScript
    <2>5. NetworkOK' /\ Sequential' /\ AccountsOK'
        BY <2>2, <2>3, <2>4, SendStep DEF Client
    <2>6. PhasesOK'
        BY <2>2, <2>4, SamePhases DEF NextTxOf, NetworkOK, Client
    <2> QED BY <2>5, <2>6
<1>3. CASE \E confirmed \in BOOLEAN : DelegateAnswered(confirmed)
    <2>1. PICK confirmed \in BOOLEAN : DelegateAnswered(confirmed)
        BY <1>3
    <2>2. PICK next : NextTxOf("delegate", next) /\ InOrder(next)'
        BY <2>1, DelegationGoesOn
    <2>3. Outcome("delegate", confirmed) /\ UNCHANGED <<demo, loading>>
        BY <2>1 DEF DelegateAnswered
    <2>4. NetworkOK' /\ Sequential' /\ AccountsOK'
        BY <2>2, <2>3, AnswerStep DEF Client
    <2>5. PhasesOK'
        BY <2>2, <2>3, SamePhases DEF NextTxOf, NetworkOK, Client
    <2> QED BY <2>4, <2>5
<1>4. CASE \/ DemoScript \/ DemoFetch \/ DemoReport
           \/ \E confirmed \in BOOLEAN : DemoPosted(confirmed) \/ DemoExecuted(confirmed)
    <2>1. PICK next \in OtherTxs \cup {NoTx} : NextTxOf("demo", next)
        BY <1>4, DemoGoesOn
    <2>2. InOrder(next) /\ InOrder(next)'
        BY OtherTxsAreInOrder
    <2>3. \/ UNCHANGED <<vars, delegated, late>>
          \/ \E confirmed \in BOOLEAN : Outcome("demo", confirmed)
        BY <1>4 DEF DemoScript, DemoFetch, DemoReport, DemoPosted, DemoExecuted
    <2>4. NetworkOK' /\ Sequential' /\ AccountsOK'
        BY <2>1, <2>2, <2>3, SendStep, AnswerStep DEF Client
    <2> QED BY <1>4, <2>4, DemoGoesOn
<1>5. CASE SubmitOrder \/ \E confirmed \in BOOLEAN : OrderAnswered(confirmed)
    <2>1. PICK next \in OtherTxs \cup {NoTx} : NextTxOf("panel", next)
        BY <1>5, PanelGoesOn
    <2>2. InOrder(next) /\ InOrder(next)'
        BY OtherTxsAreInOrder
    <2>3. \/ UNCHANGED <<vars, delegated, late>>
          \/ \E confirmed \in BOOLEAN : Outcome("panel", confirmed)
        BY <1>5 DEF SubmitOrder, OrderAnswered
    <2>4. NetworkOK' /\ Sequential' /\ AccountsOK'
        BY <2>1, <2>2, <2>3, SendStep, AnswerStep DEF Client
    <2> QED BY <1>5, <2>4, PanelGoesOn
<1>6. CASE Late
    BY <1>6, LateStep
<1>7. CASE Others
    <2>1. UNCHANGED clients
        BY <1>7, OthersEffect
    <2> QED BY <1>7, <2>1, QuietStep
<1>8. CASE UNCHANGED system
    BY <1>8, QuietStep DEF system, vars, Grown
<1> QED BY <1>1, <1>2, <1>3, <1>4, <1>5, <1>6, <1>7, <1>8 DEF DeploymentNext, Answers

LEMMA DeploymentInvariant == DeploymentSpec => []DeploymentInv
BY DeploymentInitInv, DeploymentStepInv, PTL DEF DeploymentSpec

(* A client waits for a transaction of its own, of the step it is at,      *)
(* exactly while it is busy, and only accounts that exist are delegated    *)
(* (delegate.ts, demo.ts, TradingPanel.tsx).                               *)
THEOREM ClientsWaitInTurn == DeploymentSpec => []DeploymentTypeOK
BY DeploymentInvariant, DeploymentInvImplies, PTL

-----------------------------------------------------------------------------
(* What a step is to the program: a transaction in order is executed, or   *)
(* others or initialize.ts act, or nothing happens.                        *)
LEMMA Effects ==
    ASSUME DeploymentInv, [DeploymentNext]_system
    PROVE  \/ \E tx \in Txs : InOrder(tx) /\ Execute(tx)
           \/ Others
           \/ InitializeScript
           \/ UNCHANGED <<vars, delegated>>
<1>1. ASSUME NEW c \in Client, NEW confirmed \in BOOLEAN, Outcome(c, confirmed)
      PROVE  \/ \E tx \in Txs : InOrder(tx) /\ Execute(tx)
             \/ UNCHANGED <<vars, delegated>>
    <2>1. PICK tx : tx = waiting[c]
        OBVIOUS
    <2>2. tx \in Txs /\ InOrder(tx)
        BY <1>1, <2>1 DEF Outcome, DeploymentInv, NetworkOK, Sequential
    <2> QED BY <1>1, <2>1, <2>2 DEF Outcome
<1>2. CASE Late
    BY <1>2 DEF Late, DeploymentInv, NetworkOK, Sequential
<1>3. CASE DelegateScript \/ DemoScript \/ DemoFetch \/ DemoReport \/ SubmitOrder
    BY <1>3 DEF DelegateScript, DemoScript, DemoFetch, DemoReport, SubmitOrder
<1>4. CASE \E c \in Client : Answers(c)
    <2>1. \E c \in Client, confirmed \in BOOLEAN : Outcome(c, confirmed)
        BY <1>4 DEF Answers, DelegateAnswered, DemoPosted, DemoExecuted, OrderAnswered,
                    Client
    <2> QED BY <1>1, <2>1
<1>5. CASE UNCHANGED system
    BY <1>5 DEF system
<1> QED BY <1>2, <1>3, <1>4, <1>5 DEF DeploymentNext

(* Whatever fails, is restarted, or is executed late: an account delegated *)
(* ahead of the one before it in delegate.ts is delegated by others.       *)
THEOREM ScriptDelegatesInOrder == DeploymentSpec => DelegatedInOrder
<1>1. ASSUME DeploymentInv, [DeploymentNext]_system, NEW i \in 1..2,
             DelegationOrder[i + 1] \in delegated' \ delegated
      PROVE  DelegationOrder[i] \in delegated \/ UNCHANGED clients
    <2>1. CASE \E tx \in Txs : InOrder(tx) /\ Execute(tx)
        <3>1. PICK tx \in Txs : InOrder(tx) /\ Execute(tx)
            BY <2>1
        <3>2. PICK pda \in Singletons : tx = DelegateTx(pda) /\ Delegates(pda)
            BY <1>1, <3>1, ExecuteEffect
        <3>3. pda = DelegationOrder[i + 1]
            BY <1>1, <3>2 DEF Delegates
        <3> QED BY <3>1, <3>2, <3>3 DEF InOrder
    <2>2. CASE Others
        BY <2>2, OthersEffect
    <2>3. CASE InitializeScript
        BY <1>1, <2>3 DEF InitializeScript
    <2> QED BY <1>1, <2>1, <2>2, <2>3, Effects
<1>2. DeploymentInv /\ [DeploymentNext]_system =>
          [\A i \in 1..2 :
              DelegationOrder[i + 1] \in delegated' \ delegated =>
                  DelegationOrder[i] \in delegated \/ UNCHANGED clients]_system
    BY <1>1
<1> QED BY <1>2, DeploymentInvariant, PTL DEF DeploymentSpec, DelegatedInOrder

-----------------------------------------------------------------------------
(* With accounts delegated.                                                *)

(* A batch creates its result on the base layer, where its singletons must *)
(* be, or is of an account delegated before, which exists.                 *)
LEMMA NoBatch ==
    ASSUME AccountsOK, delegated \cap Singletons # {},
           NEW b, Runs(executeBatchAccounts(b)), ExecuteBatch(b)
    PROVE  FALSE
<1>1. Exists(ResultPDA(b))
    BY DEF Runs, executeBatchAccounts, AccountsOK
<1>2. ResultPDA(b)[2] = b
    BY DEF ResultPDA
<1> QED BY <1>1, <1>2, Addresses DEF Exists, ExecuteBatch, Executable

LEMMA DelegatedIsInitialized ==
    ASSUME AccountsOK, delegated \cap Singletons # {}
    PROVE  initialized
BY DEF AccountsOK, Exists

LEMMA NoBatchStep ==
    ASSUME DeploymentInv, [DeploymentNext]_system, delegated \cap Singletons # {}
    PROVE  ~ BatchStep
<1> SUFFICES UNCHANGED auction_state
    BY DEF BatchStep
<1>1. AccountsOK
    BY DEF DeploymentInv
<1>2. ASSUME NEW tx \in Txs, Execute(tx) PROVE UNCHANGED auction_state
    BY <1>1, <1>2, NoBatch
       DEF Execute, Delegate, PlaceMultipleOrders, PlaceOrderOrDrop, PlaceOrder, vars
<1>3. CASE Others
    <2>1. ASSUME NEW owner \in Owner,
                 \/ CancelAllOrders(owner)
                 \/ \E p \in Params : PlaceOrder(owner, p)
                 \/ \E ps \in ParamLists : \/ PlaceMultipleOrders(owner, ps)
                                          \/ CancelAllAndPostNewOrders(owner, ps)
          PROVE  UNCHANGED auction_state
        BY <2>1 DEF CancelAllOrders, PlaceOrder, PlaceMultipleOrders,
                    CancelAllAndPostNewOrders
    <2>2. ASSUME NEW b, InitializeResult(b) \/ Tick PROVE UNCHANGED auction_state
        BY <2>2 DEF InitializeResult, Tick, accounts
    <2>3. ASSUME NEW pda, NEW written, Delegate(pda, written)
          PROVE  UNCHANGED auction_state
        BY <2>3 DEF Delegate, vars
    <2> QED BY <1>1, <1>3, <2>1, <2>2, <2>3, NoBatch DEF Others
<1>4. CASE InitializeScript
    BY <1>1, <1>4, DelegatedIsInitialized DEF InitializeScript, Initialize
<1> QED BY <1>2, <1>3, <1>4, Effects DEF vars

LEMMA SplitStep ==
    ASSUME DeploymentInv, [DeploymentNext]_system, Split
    PROVE  \/ UNCHANGED queue
           \/ /\ BidQueuePDA \in delegated <=> AskQueuePDA \in delegated
              /\ \E owner \in Owner : queue' = WithoutOwner(queue, owner)
<1>1. ASSUME NEW tx \in Txs, Execute(tx) PROVE UNCHANGED queue
    BY <1>1, ExecuteEffect DEF Delegates, vars
<1>2. ~ Runs(Singletons)
    BY DEF Runs, Split
<1>3. CASE Others
    <2>1. /\ ~ Runs(placeOrderAccounts) /\ ~ Runs(placeMultipleOrdersAccounts)
          /\ ~ Runs(cancelAllAndPostNewOrdersAccounts)
        BY <1>2 DEF placeOrderAccounts, placeMultipleOrdersAccounts,
                    cancelAllAndPostNewOrdersAccounts
    <2>2. \A b : ~ Runs(executeBatchAccounts(b))
        BY DEF Runs, executeBatchAccounts, Split
    <2>3. ASSUME Runs(cancelAllOrdersAccounts), NEW owner \in Owner, CancelAllOrders(owner)
          PROVE  /\ BidQueuePDA \in delegated <=> AskQueuePDA \in delegated
                 /\ queue' = WithoutOwner(queue, owner)
        BY <2>3 DEF Runs, cancelAllOrdersAccounts, Queues, CancelAllOrders
    <2>4. ASSUME NEW b, InitializeResult(b) \/ Tick PROVE UNCHANGED queue
        BY <2>4 DEF InitializeResult, Tick, accounts
    <2>5. ASSUME NEW pda, NEW written, Delegate(pda, written) PROVE UNCHANGED queue
        BY <2>5 DEF Delegate, vars
    <2> QED BY <1>3, <2>1, <2>2, <2>3, <2>4, <2>5 DEF Others
<1>4. CASE InitializeScript
    BY <1>2, <1>4 DEF InitializeScript, initializeAccounts
<1> QED BY <1>1, <1>3, <1>4, Effects DEF vars

(* From the first delegated account on no batch is executed, and while     *)
(* some are delegated and some are not no order is posted either           *)
(* (execute_batch.rs:74, delegate.ts:42-77, lib.rs).                       *)
THEOREM NoMarketInBetween == DeploymentSpec => DelegationEndsBatches
<1>1. DeploymentInv /\ [DeploymentNext]_system =>
          [/\ delegated \cap Singletons # {} => ~ BatchStep
           /\ Split =>
                 \/ UNCHANGED queue
                 \/ /\ BidQueuePDA \in delegated <=> AskQueuePDA \in delegated
                    /\ \E owner \in Owner : queue' = WithoutOwner(queue, owner)]_system
    BY NoBatchStep, SplitStep
<1> QED BY <1>1, DeploymentInvariant, PTL DEF DeploymentSpec, DelegationEndsBatches

(* A script that starts over meets an account that is delegated.           *)
LEMMA StuckStep ==
    ASSUME DeploymentInv, [DeploymentNext]_system, Stuck
    PROVE  Stuck' \/ (Singletons \subseteq delegated' /\ UNCHANGED clients)
<1>1. AuctionStatePDA \in delegated /\ Split
    BY DEF Stuck
<1>2. ASSUME NEW tx \in Txs, Execute(tx),
             \A pda \in Singletons : tx = DelegateTx(pda) => pda \in delegated
      PROVE  FALSE
    BY <1>2, ExecuteEffect DEF Delegates, Stuck
<1>3. ASSUME NEW c \in Client, NEW confirmed \in BOOLEAN, Outcome(c, confirmed)
      PROVE  /\ ~ confirmed /\ UNCHANGED <<vars, delegated>>
             /\ late' \subseteq late \cup {waiting[c]}
    <2>1. waiting[c] \in Txs
        BY <1>3 DEF Outcome, DeploymentInv, NetworkOK
    <2>2. \A pda \in Singletons : waiting[c] = DelegateTx(pda) => pda \in delegated
        <3>1. CASE c = "delegate"
            BY <1>1, <2>1, <3>1, DelegateTxsAreDistinct, Transactions DEF Stuck
        <3>2. CASE c # "delegate"
            BY <2>1, <3>2, DelegateTxsAreDistinct, Transactions
               DEF DeploymentInv, NetworkOK, ClientTxs, Client
        <3> QED BY <3>1, <3>2
    <2> QED BY <1>2, <1>3, <2>1, <2>2 DEF Outcome
<1>4. ASSUME delegated \subseteq delegated', ~ (Singletons \subseteq delegated'),
             waiting'["delegate"] \in {NoTx, DelegateTx(AuctionStatePDA)},
             \A pda \in Singletons :
                 DelegateTx(pda) \in late' => pda \in delegated
      PROVE  Stuck'
    <2>1. Singletons' = Singletons /\ AuctionStatePDA \in Singletons
        BY DEF Singletons, AuctionStatePDA, BidQueuePDA, AskQueuePDA
    <2>2. Split'
        BY <1>1, <1>4, <2>1 DEF Split
    <2> QED BY <1>1, <1>4, <2>1, <2>2, SameTxs DEF Stuck, DelegateTx, AuctionStatePDA
<1>same. ASSUME UNCHANGED delegated
      PROVE  delegated \subseteq delegated' /\ ~ (Singletons \subseteq delegated')
    BY <1>same, <1>1 DEF Split
<1>5. CASE \E confirmed \in BOOLEAN : DelegateAnswered(confirmed)
    <2>1. PICK confirmed \in BOOLEAN : DelegateAnswered(confirmed)
        BY <1>5
    <2>2. /\ ~ confirmed /\ delegated' = delegated
          /\ late' \subseteq late \cup {waiting["delegate"]}
        BY <1>3, <2>1 DEF DelegateAnswered, Client
    <2>3. waiting'["delegate"] = NoTx
        BY <2>1, <2>2 DEF DelegateAnswered, Waits, DeploymentInv, NetworkOK, Client
    <2>4. \A pda \in Singletons : DelegateTx(pda) \in late' => pda \in delegated
        BY <1>1, <2>2, DelegateTxsAreDistinct, Transactions DEF Stuck, Txs
    <2> QED BY <1>same, <1>4, <2>2, <2>3, <2>4
<1>6. CASE \E c \in {"demo", "panel"}, confirmed \in BOOLEAN :
               /\ Outcome(c, confirmed)
               /\ waiting'["delegate"] = waiting["delegate"]
    <2>1. PICK c \in {"demo", "panel"}, confirmed \in BOOLEAN :
               /\ Outcome(c, confirmed)
               /\ waiting'["delegate"] = waiting["delegate"]
        BY <1>6
    <2>2. delegated' = delegated /\ late' \subseteq late \cup {waiting[c]}
        BY <1>3, <2>1 DEF Client
    <2>3. waiting[c] \in OtherTxs
        BY <2>1 DEF Outcome, DeploymentInv, NetworkOK, ClientTxs
    <2>4. \A pda \in Singletons : DelegateTx(pda) \in late' => pda \in delegated
        BY <2>2, <2>3, DelegateTxsAreDistinct DEF Stuck
    <2> QED BY <1>same, <1>4, <2>1, <2>2, <2>4 DEF Stuck
<1>7. CASE Late
    <2>1. PICK tx \in late :
              /\ Execute(tx) \/ UNCHANGED <<vars, delegated>>
              /\ late' = late \ {tx}
              /\ UNCHANGED waiting
        BY <1>7 DEF Late
    <2>2. delegated' = delegated
        <3>1. CASE \E pda \in Singletons : tx = DelegateTx(pda)
            BY <1>2, <2>1, <3>1, DelegateTxsAreDistinct
               DEF Stuck, DeploymentInv, NetworkOK
        <3>2. CASE ~ \E pda \in Singletons : tx = DelegateTx(pda)
            BY <2>1, <3>2, ExecuteEffect DEF DeploymentInv, NetworkOK
        <3> QED BY <3>1, <3>2
    <2> QED BY <1>same, <1>4, <2>1, <2>2 DEF Stuck
<1>8. CASE Others
    <2>1. UNCHANGED <<waiting, late>>
        BY <1>8, OthersEffect DEF clients
    <2>2. delegated \subseteq delegated'
        BY <1>8, AccountsStep DEF DeploymentInv
    <2>3. CASE Singletons \subseteq delegated'
        BY <1>8, <2>3, OthersEffect
    <2>4. CASE ~ (Singletons \subseteq delegated')
        BY <1>4, <2>1, <2>2, <2>4 DEF Stuck
    <2> QED BY <2>3, <2>4
<1>9. CASE DelegateScript
    <2>1. waiting'["delegate"] = DelegateTx(AuctionStatePDA) /\ UNCHANGED <<delegated, late>>
        BY <1>9, Order3 DEF DelegateScript, Waits, DeploymentInv, NetworkOK, Client
    <2> QED BY <1>same, <1>4, <2>1 DEF Stuck
<1>10. CASE UNCHANGED <<delegated, late>> /\ waiting'["delegate"] = waiting["delegate"]
    BY <1>same, <1>4, <1>10 DEF Stuck
<1>11. CASE \/ InitializeScript \/ DemoScript \/ DemoFetch \/ DemoReport \/ SubmitOrder
            \/ UNCHANGED system
    <2>1. UNCHANGED <<delegated, late>> /\ waiting'["delegate"] = waiting["delegate"]
        BY <1>11 DEF InitializeScript, DemoScript, DemoFetch, DemoReport, SubmitOrder,
           DemoAt, Waits, clients, system, DeploymentInv, NetworkOK, Client
    <2> QED BY <1>10, <2>1
<1>12. CASE \E confirmed \in BOOLEAN :
               DemoPosted(confirmed) \/ DemoExecuted(confirmed) \/ OrderAnswered(confirmed)
    <2>1. \E c \in {"demo", "panel"}, confirmed \in BOOLEAN :
              /\ Outcome(c, confirmed)
              /\ waiting'["delegate"] = waiting["delegate"]
        BY <1>12 DEF DemoPosted, DemoExecuted, OrderAnswered, DemoAt, Waits,
           DeploymentInv, NetworkOK, Client
    <2> QED BY <1>6, <2>1
<1> QED BY <1>5, <1>7, <1>8, <1>9, <1>11, <1>12 DEF DeploymentNext, Answers

(* Accounts that are split, with none of the missing transactions under    *)
(* way, are not brought together by delegate.ts, however often it is run   *)
(* again: only a transaction signed by others does that.                   *)
THEOREM RestartDoesNotHelp == DeploymentSpec => RestartedScriptIsStuck
<1>1. DeploymentInv /\ [DeploymentNext]_system =>
          [Stuck => Stuck' \/ (Singletons \subseteq delegated' /\ UNCHANGED clients)]_system
    BY StuckStep
<1> QED BY <1>1, DeploymentInvariant, PTL DEF DeploymentSpec, RestartedScriptIsStuck

-----------------------------------------------------------------------------
(* The batch of the demo.                                                  *)

(* A result at an address up to the counter has the number of its address, *)
(* and any other has none yet.                                             *)
LedgerOK ==
    /\ auction_state \in [batch_interval : Nat, last_batch_slot : Nat,
                          batch_counter : Nat, is_paused : BOOLEAN]
    /\ slot \in Nat
    /\ DOMAIN results \subseteq BatchIds
    /\ \A b \in DOMAIN results :
          results[b].batch_id = IF b <= auction_state.batch_counter THEN b ELSE 0
    /\ 1..auction_state.batch_counter \subseteq DOMAIN results
    /\ ~ initialized => auction_state.batch_counter = 0

(* No transaction in the network is for a batch beyond the next one.       *)
Timely(tx) ==
    \A b \in BatchIds : tx = BatchTx(b) => b \in 1..(auction_state.batch_counter + 1)
BatchTxsOK ==
    /\ \A c \in Client : Timely(waiting[c])
    /\ \A tx \in late : Timely(tx)

(* The demo waits for the batch of its id, or has had it.                  *)
DemoOK ==
    /\ demo.at = "batch" =>
          demo.batch_id \in BatchIds /\ waiting["demo"] = BatchTx(demo.batch_id)
    /\ demo.at = "result" => demo.batch_id \in 1..auction_state.batch_counter

LEMMA IdsAreNumbers == BatchIds \subseteq Nat /\ MaxU64 \in Nat
BY ProgramAssumption, WidthAssumption DEF U64

LEMMA BatchTxsAreDistinct ==
    /\ \A b, d : BatchTx(b) = BatchTx(d) => b = d
    /\ \A b : /\ BatchTx(b) # NoTx /\ BatchTx(b)[1] = "batch" /\ BatchTx(b)[2] = b
              /\ \A any : /\ BatchTx(b) # PostTx(any)
                          /\ BatchTx(b) # PlaceTx(any)
                          /\ BatchTx(b) # DelegateTx(any)
BY DEF BatchTx, PostTx, PlaceTx, DelegateTx, NoTx

LEMMA BatchMoves ==
    ASSUME LedgerOK, NEW b \in BatchIds, b \in 1..(auction_state.batch_counter + 1),
           ExecuteBatch(b)
    PROVE  /\ LedgerOK'
           /\ b = auction_state.batch_counter + 1
           /\ auction_state'.batch_counter = auction_state.batch_counter + 1
<1>1. PICK c \in Nat : c = auction_state.batch_counter
    BY DEF LedgerOK
<1>2. /\ BatchIds \subseteq Nat /\ DOMAIN results \subseteq BatchIds
      /\ b \notin DOMAIN results /\ initialized /\ initialized' = initialized
    BY IdsAreNumbers DEF ExecuteBatch, Executable, LedgerOK
<1>3. b = c + 1
    BY <1>1, <1>2 DEF LedgerOK
<1>4. /\ auction_state' \in [batch_interval : Nat, last_batch_slot : Nat,
                             batch_counter : Nat, is_paused : BOOLEAN]
      /\ auction_state'.batch_counter = c + 1 /\ slot' \in Nat
    <2>1. PICK s \in [batch_interval : Nat, last_batch_slot : Nat,
                      batch_counter : Nat, is_paused : BOOLEAN] : s = auction_state
        BY DEF LedgerOK
    <2>2. auction_state' = [s EXCEPT !.last_batch_slot = slot, !.batch_counter = c + 1]
        BY <1>1, <2>1 DEF ExecuteBatch
    <2>3. slot \in Nat /\ slot' = slot /\ c + 1 \in Nat
        BY <1>1 DEF LedgerOK, ExecuteBatch, clock
    <2> QED BY <2>2, <2>3
<1>5. /\ DOMAIN results' = DOMAIN results \cup {b}
      /\ results'[b].batch_id = c + 1
      /\ \A d \in DOMAIN results : results'[d] = results[d]
    BY <1>1, <1>2 DEF ExecuteBatch, WithResult, BatchResult
<1>6. ASSUME NEW d \in DOMAIN results'
      PROVE  results'[d].batch_id = IF d <= c + 1 THEN d ELSE 0
    <2>1. CASE d = b
        BY <1>3, <1>5, <2>1
    <2>2. CASE d # b
        <3>1. d \in DOMAIN results /\ d \in Nat /\ d # c + 1
            BY <1>2, <1>3, <1>5, <1>6, <2>2
        <3>2. d <= c + 1 <=> d <= c
            BY <3>1
        <3>3. results'[d].batch_id = IF d <= c THEN d ELSE 0
            BY <1>1, <1>5, <3>1 DEF LedgerOK
        <3> QED BY <3>2, <3>3
    <2> QED BY <2>1, <2>2
<1>7. 1..(c + 1) \subseteq DOMAIN results'
    BY <1>1, <1>3, <1>5 DEF LedgerOK
<1>8. DOMAIN results' \subseteq BatchIds
    BY <1>2, <1>5
<1> QED BY <1>1, <1>2, <1>3, <1>4, <1>6, <1>7, <1>8 DEF LedgerOK

LEMMA QuietMoves ==
    ASSUME LedgerOK,
           \/ Initialize(1)
           \/ \E b \in BatchIds : InitializeResult(b)
           \/ Tick
           \/ UNCHANGED <<initialized, auction_state, results, clock>>
    PROVE  LedgerOK' /\ auction_state'.batch_counter = auction_state.batch_counter
<1>1. PICK c \in Nat : c = auction_state.batch_counter
    BY DEF LedgerOK
<1>2. CASE Initialize(1)
    BY <1>2 DEF Initialize, LedgerOK, clock
<1>3. ASSUME NEW b \in BatchIds, InitializeResult(b)
      PROVE  LedgerOK' /\ auction_state'.batch_counter = c
    <2>1. /\ b \notin DOMAIN results
          /\ DOMAIN results' = DOMAIN results \cup {b}
          /\ results'[b].batch_id = 0
          /\ \A d \in DOMAIN results : results'[d] = results[d]
          /\ UNCHANGED <<auction_state, initialized, slot>>
        BY <1>3 DEF InitializeResult, WithResult, clock
    <2>2. b \in Nat /\ ~ (b \in 1..c)
        BY <1>1, <2>1, IdsAreNumbers DEF LedgerOK
    <2>3. b <= c => b = 0
        BY <2>2
    <2>4. \A d \in DOMAIN results' :
             results'[d].batch_id = IF d <= c THEN d ELSE 0
        BY <1>1, <2>1, <2>3 DEF LedgerOK
    <2>5. DOMAIN results' \subseteq BatchIds /\ 1..c \subseteq DOMAIN results'
        BY <1>1, <2>1 DEF LedgerOK
    <2> QED BY <1>1, <2>1, <2>4, <2>5 DEF LedgerOK
<1>4. CASE Tick
    BY <1>4 DEF Tick, accounts, LedgerOK
<1>5. CASE UNCHANGED <<initialized, auction_state, results, clock>>
    BY <1>5 DEF LedgerOK, clock
<1> QED BY <1>1, <1>2, <1>3, <1>4, <1>5

(* The counter moves on by a batch or stays.                               *)
Moves ==
    /\ LedgerOK'
    /\ \/ auction_state'.batch_counter = auction_state.batch_counter
       \/ auction_state'.batch_counter = auction_state.batch_counter + 1

LEMMA ExecuteMoves ==
    ASSUME LedgerOK, NEW tx \in Txs, Timely(tx), Execute(tx)
    PROVE  /\ Moves
           /\ \A b \in BatchIds : tx = BatchTx(b) => b \in 1..auction_state'.batch_counter
<1>1. CASE tx[1] = "delegate"
    <2>1. UNCHANGED vars
        BY <1>1 DEF Execute, Delegate
    <2>2. UNCHANGED <<initialized, auction_state, results, clock>>
        BY <2>1 DEF vars, clock
    <2> QED BY <1>1, <2>2, QuietMoves, BatchTxsAreDistinct DEF Moves
<1>2. CASE \E b \in BatchIds : tx = BatchTx(b)
    <2>1. PICK b \in BatchIds : tx = BatchTx(b)
        BY <1>2
    <2>2. tx[1] = "batch" /\ tx[2] = b /\ b \in 1..(auction_state.batch_counter + 1)
        BY <2>1, BatchTxsAreDistinct DEF Timely
    <2>3. ExecuteBatch(b)
        BY <2>2 DEF Execute
    <2>4. /\ Moves
          /\ b = auction_state.batch_counter + 1
          /\ auction_state'.batch_counter = auction_state.batch_counter + 1
        BY <2>2, <2>3, BatchMoves DEF Moves
    <2>5. b \in 1..auction_state'.batch_counter
        BY <2>4, IdsAreNumbers DEF LedgerOK
    <2> QED BY <2>1, <2>4, <2>5, BatchTxsAreDistinct
<1>3. CASE tx[1] # "delegate" /\ ~ \E b \in BatchIds : tx = BatchTx(b)
    <2>1. tx[1] # "batch"
        BY <1>3 DEF Txs, DelegateTxs, DemoTxs, PanelTxs, DelegateTx, PostTx, PlaceTx
    <2>2. \/ PlaceMultipleOrders(wallet, tx[2]) \/ PlaceOrderOrDrop(wallet, tx[2])
        BY <1>3, <2>1 DEF Execute
    <2>3. UNCHANGED <<initialized, auction_state, results, clock>>
        BY <2>2 DEF PlaceMultipleOrders, PlaceOrderOrDrop, PlaceOrder, vars, clock
    <2> QED BY <1>3, <2>3, QuietMoves DEF Moves
<1> QED BY <1>1, <1>2, <1>3

LEMMA OthersMove ==
    ASSUME LedgerOK, Others
    PROVE  Moves
<1>1. ASSUME NEW b \in BatchIds, b = auction_state.batch_counter + 1, ExecuteBatch(b)
      PROVE  Moves
    <2>1. b \in 1..(auction_state.batch_counter + 1)
        BY <1>1 DEF LedgerOK
    <2> QED BY <1>1, <2>1, BatchMoves DEF Moves
<1>2. ASSUME NEW owner \in Owner,
             \/ CancelAllOrders(owner)
             \/ \E p \in Params : PlaceOrder(owner, p)
             \/ \E ps \in ParamLists : \/ PlaceMultipleOrders(owner, ps)
                                      \/ CancelAllAndPostNewOrders(owner, ps)
      PROVE  UNCHANGED <<initialized, auction_state, results, clock>>
    BY <1>2 DEF CancelAllOrders, PlaceOrder, PlaceMultipleOrders,
                CancelAllAndPostNewOrders, clock
<1>3. ASSUME NEW pda, NEW written, Delegate(pda, written)
      PROVE  UNCHANGED <<initialized, auction_state, results, clock>>
    BY <1>3 DEF Delegate, vars, clock
<1> QED BY <1>1, <1>2, <1>3, QuietMoves DEF Others, Moves

(* What the clients wait for after a step: what they have waited for, no   *)
(* batch, or the next one.                                                 *)
LEMMA WaitingStep ==
    ASSUME NetworkOK, LedgerOK, [DeploymentNext]_system
    PROVE  /\ \A d \in Client :
                 \/ waiting'[d] = waiting[d]
                 \/ \A b : waiting'[d] # BatchTx(b)
                 \/ /\ waiting'[d] = BatchTx(auction_state.batch_counter + 1)
                    /\ UNCHANGED vars
           /\ \A tx \in late' : tx \in late \/ \E c \in Client : tx = waiting[c]
<1> DEFINE Fresh(d, next) ==
        \/ next = waiting[d]
        \/ \A b : next # BatchTx(b)
        \/ /\ next = BatchTx(auction_state.batch_counter + 1)
           /\ UNCHANGED vars
<1>1. ASSUME NEW c \in Client, NEW next, Waits(c, next), Fresh(c, next)
      PROVE  \A d \in Client : Fresh(d, waiting'[d])
    <2>1. \A d \in Client : waiting'[d] = IF d = c THEN next ELSE waiting[d]
        BY <1>1 DEF Waits, NetworkOK
    <2> QED BY <1>1, <2>1
<1>2. ASSUME UNCHANGED waiting PROVE \A d \in Client : Fresh(d, waiting'[d])
    BY <1>2
<1>3. ASSUME NEW c \in Client, NEW confirmed, Outcome(c, confirmed)
      PROVE  \A tx \in late' : tx \in late \/ \E d \in Client : tx = waiting[d]
    BY <1>3 DEF Outcome
<1>4. /\ "delegate" \in Client /\ "demo" \in Client /\ "panel" \in Client
      /\ \A c : Fresh(c, NoTx)
      /\ \A c, any : /\ Fresh(c, PostTx(any)) /\ Fresh(c, PlaceTx(any))
                     /\ Fresh(c, DelegateTx(any))
    BY BatchTxsAreDistinct DEF Client
<1> HIDE DEF Fresh
<1> DEFINE Goal ==
        /\ \A d \in Client : Fresh(d, waiting'[d])
        /\ \A tx \in late' : tx \in late \/ \E d \in Client : tx = waiting[d]
<1>5. ASSUME DelegateScript PROVE Goal
    BY <1>1, <1>4, <1>5 DEF DelegateScript
<1>6. ASSUME NEW confirmed, DelegateAnswered(confirmed) PROVE Goal
    <2>1. PICK next : /\ Waits("delegate", next)
                      /\ next = IF confirmed THEN AfterDelegation(waiting["delegate"]) ELSE NoTx
        BY <1>6 DEF DelegateAnswered
    <2>2. Fresh("delegate", next)
        BY <1>4, <2>1 DEF AfterDelegation
    <2>3. Outcome("delegate", confirmed)
        BY <1>6 DEF DelegateAnswered
    <2> QED BY <1>1, <1>3, <1>4, <2>1, <2>2, <2>3
<1>7. ASSUME DemoScript PROVE Goal
    BY <1>1, <1>4, <1>7 DEF DemoScript, DemoAt
<1>8. ASSUME NEW confirmed, DemoPosted(confirmed) PROVE Goal
    <2>1. Outcome("demo", confirmed)
        BY <1>8 DEF DemoPosted
    <2>2. Waits("demo", PostTx(DemoTakers)) \/ Waits("demo", NoTx)
        BY <1>8 DEF DemoPosted, DemoAt
    <2> QED BY <1>1, <1>3, <1>4, <2>1, <2>2
<1>9. ASSUME DemoFetch PROVE Goal
    <2>1. UNCHANGED <<vars, late>>
        BY <1>9 DEF DemoFetch
    <2>2. Waits("demo", BatchTx(auction_state.batch_counter + 1)) \/ Waits("demo", NoTx)
        BY <1>9 DEF DemoFetch, DemoAt
    <2>3. Fresh("demo", BatchTx(auction_state.batch_counter + 1))
        BY <2>1 DEF Fresh
    <2> QED BY <1>1, <1>4, <2>1, <2>2, <2>3
<1>10. ASSUME NEW confirmed, DemoExecuted(confirmed) PROVE Goal
    <2>1. Outcome("demo", confirmed) /\ Waits("demo", NoTx)
        BY <1>10 DEF DemoExecuted, DemoAt
    <2> QED BY <1>1, <1>3, <1>4, <2>1
<1>11. ASSUME DemoReport PROVE Goal
    BY <1>1, <1>4, <1>11 DEF DemoReport, DemoAt
<1>12. ASSUME SubmitOrder PROVE Goal
    BY <1>1, <1>4, <1>12 DEF SubmitOrder
<1>13. ASSUME NEW confirmed, OrderAnswered(confirmed) PROVE Goal
    <2>1. Outcome("panel", confirmed) /\ Waits("panel", NoTx)
        BY <1>13 DEF OrderAnswered
    <2> QED BY <1>1, <1>3, <1>4, <2>1
<1>14. ASSUME Late PROVE Goal
    BY <1>2, <1>14 DEF Late
<1>15. ASSUME InitializeScript \/ Others \/ UNCHANGED system PROVE Goal
    <2>1. UNCHANGED <<waiting, late>>
        BY <1>15 DEF InitializeScript, Others, clients, system
    <2> QED BY <1>2, <2>1
<1>16. (\E c \in Client : Answers(c)) => Goal
    BY <1>6, <1>8, <1>10, <1>13 DEF Answers
<1> HIDE DEF Goal
<1>17. Goal
    BY <1>5, <1>7, <1>9, <1>11, <1>12, <1>14, <1>15, <1>16 DEF DeploymentNext
<1> QED BY <1>17 DEF Goal, Fresh

LEMMA LedgerStep ==
    ASSUME NetworkOK, LedgerOK, BatchTxsOK, [DeploymentNext]_system
    PROVE  Moves
<1>1. ASSUME NEW tx \in Txs, Timely(tx), Execute(tx) PROVE Moves
    BY <1>1, ExecuteMoves
<1>2. ASSUME UNCHANGED vars PROVE Moves
    <2>1. UNCHANGED <<initialized, auction_state, results, clock>>
        BY <1>2 DEF vars, clock
    <2> QED BY <2>1, QuietMoves DEF Moves
<1>3. ASSUME NEW c \in Client, NEW confirmed, Outcome(c, confirmed) PROVE Moves
    <2>1. waiting[c] \in Txs /\ Timely(waiting[c])
        BY <1>3 DEF Outcome, NetworkOK, BatchTxsOK
    <2>2. Execute(waiting[c]) \/ UNCHANGED vars
        BY <1>3 DEF Outcome
    <2> QED BY <1>1, <1>2, <2>1, <2>2
<1>4. ASSUME Late PROVE Moves
    BY <1>1, <1>2, <1>4 DEF Late, NetworkOK, BatchTxsOK
<1>5. ASSUME InitializeScript PROVE Moves
    BY <1>5, QuietMoves DEF InitializeScript, Moves
<1>6. ASSUME DelegateScript \/ DemoScript \/ DemoFetch \/ DemoReport \/ SubmitOrder
                \/ UNCHANGED system
      PROVE  UNCHANGED vars
    BY <1>6 DEF DelegateScript, DemoScript, DemoFetch, DemoReport, SubmitOrder, system
<1>7. ASSUME \E c \in Client : Answers(c)
      PROVE  \E c \in Client : \E confirmed \in BOOLEAN : Outcome(c, confirmed)
    BY <1>7 DEF Answers, DelegateAnswered, DemoPosted, DemoExecuted, OrderAnswered, Client
<1> QED BY <1>2, <1>3, <1>4, <1>5, <1>6, <1>7, OthersMove DEF DeploymentNext

LEMMA BatchTxsStep ==
    ASSUME NetworkOK, LedgerOK, BatchTxsOK, [DeploymentNext]_system
    PROVE  BatchTxsOK'
<1>1. PICK c \in Nat : c = auction_state.batch_counter
    BY DEF LedgerOK
<1>2. PICK d \in Nat : d = auction_state'.batch_counter /\ d \in {c, c + 1}
    BY <1>1, LedgerStep DEF Moves
<1>3. \A tx : Timely(tx) => \A b \in BatchIds : tx = BatchTx(b) => b \in 1..(d + 1)
    BY <1>1, <1>2, IdsAreNumbers DEF Timely
<1>4. \A b \in BatchIds : BatchTx(c + 1) = BatchTx(b) => b \in 1..(d + 1)
    BY <1>2, BatchTxsAreDistinct
<1>5. ASSUME NEW any \in Client, NEW b \in BatchIds, waiting'[any] = BatchTx(b)
      PROVE  b \in 1..(d + 1)
    BY <1>1, <1>3, <1>4, <1>5, WaitingStep DEF BatchTxsOK
<1>6. ASSUME NEW tx \in late', NEW b \in BatchIds, tx = BatchTx(b)
      PROVE  b \in 1..(d + 1)
    BY <1>3, <1>6, WaitingStep DEF BatchTxsOK
<1> QED BY <1>2, <1>5, <1>6 DEF BatchTxsOK, Timely, BatchTx, Client

LEMMA DemoStep ==
    ASSUME NetworkOK, LedgerOK, BatchTxsOK, DemoOK, [DeploymentNext]_system
    PROVE  DemoOK'
<1>1. PICK c \in Nat : c = auction_state.batch_counter
    BY DEF LedgerOK
<1>2. PICK d \in Nat : d = auction_state'.batch_counter /\ d \in {c, c + 1}
    BY <1>1, LedgerStep DEF Moves
<1>3. ASSUME UNCHANGED demo, waiting'["demo"] = waiting["demo"] PROVE DemoOK'
    <2>1. demo'.at = "result" => demo'.batch_id \in 1..d
        BY <1>1, <1>2, <1>3 DEF DemoOK
    <2> QED BY <1>2, <1>3, <2>1 DEF DemoOK, BatchTx
<1>4. ASSUME demo'.at \notin {"batch", "result"} PROVE DemoOK'
    BY <1>4 DEF DemoOK
<1>5. ASSUME NEW at, NEW b, NEW tx, DemoAt(at, b, tx)
      PROVE  demo'.at = at /\ demo'.batch_id = b /\ waiting'["demo"] = tx
    BY <1>5 DEF DemoAt, Waits, NetworkOK, Client
<1>6. ASSUME DemoScript \/ DemoReport \/ \E confirmed \in BOOLEAN : DemoPosted(confirmed)
      PROVE  DemoOK'
    <2>1. \E at \in {"off", "makers", "takers", "counter"} : \E b, tx : DemoAt(at, b, tx)
        BY <1>6 DEF DemoScript, DemoReport, DemoPosted
    <2> QED BY <1>4, <1>5, <2>1
<1>7. ASSUME DemoFetch PROVE DemoOK'
    <2>1. CASE /\ auction_state.batch_counter + 1 \in BatchIds
               /\ DemoAt("batch", auction_state.batch_counter + 1,
                         BatchTx(auction_state.batch_counter + 1))
        <3>1. PICK b \in BatchIds : b = auction_state.batch_counter + 1
            BY <2>1
        <3>2. demo'.at = "batch" /\ demo'.batch_id = b /\ waiting'["demo"] = BatchTx(b)
            BY <1>5, <2>1, <3>1
        <3> QED BY <3>2 DEF DemoOK, BatchTx
    <2>2. CASE DemoAt("off", 0, NoTx)
        BY <1>4, <1>5, <2>2
    <2> QED BY <1>7, <2>1, <2>2 DEF DemoFetch
<1>8. ASSUME NEW confirmed \in BOOLEAN, DemoExecuted(confirmed) PROVE DemoOK'
    <2>1. CASE confirmed
        <3>0. PICK b \in BatchIds : b = demo.batch_id /\ waiting["demo"] = BatchTx(b)
            BY <1>8 DEF DemoExecuted, DemoOK
        <3>1. PICK tx : tx = waiting["demo"] /\ tx = BatchTx(b)
            BY <3>0
        <3>2. tx \in Txs /\ Timely(tx) /\ Execute(tx)
            BY <1>8, <2>1, <3>1
               DEF DemoExecuted, Outcome, NetworkOK, BatchTxsOK, Client
        <3>3. b \in 1..d
            BY <1>2, <3>1, <3>2, ExecuteMoves
        <3>4. demo'.at = "result" /\ demo'.batch_id = b
            BY <1>5, <1>8, <2>1, <3>0 DEF DemoExecuted
        <3> QED BY <1>2, <3>3, <3>4 DEF DemoOK
    <2>2. CASE ~ confirmed
        BY <1>4, <1>5, <1>8, <2>2 DEF DemoExecuted
    <2> QED BY <2>1, <2>2
<1>9. ASSUME \/ InitializeScript \/ DelegateScript \/ SubmitOrder \/ Late \/ Others
             \/ \E confirmed \in BOOLEAN :
                   DelegateAnswered(confirmed) \/ OrderAnswered(confirmed)
             \/ UNCHANGED system
      PROVE  UNCHANGED demo /\ waiting'["demo"] = waiting["demo"]
    BY <1>9 DEF InitializeScript, DelegateScript, SubmitOrder, Late, Others,
       DelegateAnswered, OrderAnswered, Waits, clients, system, NetworkOK, Client
<1> QED BY <1>3, <1>6, <1>7, <1>8, <1>9 DEF DeploymentNext, Answers

LEMMA BatchesOfClients ==
    DeploymentSpec => [](DeploymentInv /\ LedgerOK /\ BatchTxsOK /\ DemoOK)
<1>1. DeploymentInit => LedgerOK /\ BatchTxsOK /\ DemoOK
    BY BatchTxsAreDistinct
       DEF DeploymentInit, Init, LedgerOK, BatchTxsOK, Timely, DemoOK
<1>2. DeploymentInv /\ LedgerOK /\ BatchTxsOK /\ DemoOK /\ [DeploymentNext]_system
          => LedgerOK' /\ BatchTxsOK' /\ DemoOK'
    BY LedgerStep, BatchTxsStep, DemoStep DEF DeploymentInv, Moves
<1> QED BY <1>1, <1>2, DeploymentInitInv, DeploymentStepInv, PTL DEF DeploymentSpec

(* demo.ts:112-149: whatever the crank and earlier runs of the demo have   *)
(* in the network, a batch confirmed to the demo is the one it counted,    *)
(* and the result it prints has that number.                               *)
THEOREM DemoPrintsItsOwnBatch == DeploymentSpec => []DemoReportsItsBatch
<1>1. LedgerOK /\ DemoOK => DemoReportsItsBatch
    <2> SUFFICES ASSUME LedgerOK, DemoOK, demo.at = "result"
                 PROVE  /\ demo.batch_id \in DOMAIN results
                        /\ results[demo.batch_id].batch_id = demo.batch_id
        BY DEF DemoReportsItsBatch
    <2>1. PICK c \in Nat : c = auction_state.batch_counter
        BY DEF LedgerOK
    <2>2. PICK b : b = demo.batch_id /\ b \in 1..c
        BY <2>1 DEF DemoOK
    <2>3. b \in DOMAIN results
        BY <2>1, <2>2 DEF LedgerOK
    <2>4. results[b].batch_id = IF b <= c THEN b ELSE 0
        BY <2>1, <2>3 DEF LedgerOK
    <2> QED BY <2>2, <2>3, <2>4
<1> QED BY <1>1, BatchesOfClients, PTL
=============================================================================
