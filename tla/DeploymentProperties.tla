------------------------ MODULE DeploymentProperties ------------------------
(***************************************************************************)
(* What the scripts and the panel do to the program and to each other, and *)
(* what is left of the market between the transactions of delegate.ts.     *)
(***************************************************************************)
EXTENDS Deployment

(* The transactions of delegate.ts, demo.ts and the panel.                 *)
DelegateTxs == {DelegateTx(pda) : pda \in Singletons}
DemoTxs ==
    {PostTx(DemoMakers), PostTx(DemoTakers)}
        \cup {BatchTx(batch_id) : batch_id \in BatchIds}
PanelTxs == {PlaceTx(p) : p \in PanelOrders}
Txs == DelegateTxs \cup DemoTxs \cup PanelTxs

(* What the demo waits for where it is.                                    *)
DemoTx ==
    CASE demo.at = "makers" -> PostTx(DemoMakers)
      [] demo.at = "takers" -> PostTx(DemoTakers)
      [] demo.at = "batch" -> BatchTx(demo.batch_id)
      [] OTHER -> NoTx

(* Only accounts that exist are delegated, and every client waits for a    *)
(* transaction of its own, of the step it is at, exactly while it is busy. *)
DeploymentTypeOK ==
    /\ delegated \subseteq Singletons \cup {ResultPDA(b) : b \in BatchIds}
    /\ \A pda \in delegated : Exists(pda)
    /\ waiting \in [Client -> Txs \cup {NoTx}]
    /\ waiting["delegate"] \in DelegateTxs \cup {NoTx}
    /\ demo.at \in {"off", "makers", "takers", "counter", "batch", "result"}
    /\ demo.batch_id \in BatchIds \cup {0}
    /\ waiting["demo"] = DemoTx
    /\ waiting["panel"] \in IF loading THEN PanelTxs ELSE {NoTx}
    /\ late \subseteq Txs /\ Cardinality(late) <= MaxLate

(* delegate.ts:42-95: however often it fails, is restarted, or has a       *)
(* transaction executed late, whatever others have delegated meanwhile: if *)
(* an account is delegated ahead of the one before it, others have done it,*)
(* in a step that leaves all clients where they are.                       *)
DelegatedInOrder ==
    [][\A i \in 1..2 :
          DelegationOrder[i + 1] \in delegated' \ delegated =>
              DelegationOrder[i] \in delegated \/ UNCHANGED clients]_system

(* execute_batch.rs:74: with the first of the three accounts delegated, by *)
(* whomever, the batches end, as a result is created on the base layer.    *)
(* As long as not all of them are, no order is posted either, and orders   *)
(* are cancelled only while the two queues are together.                   *)
Split == delegated \cap Singletons \notin {{}, Singletons}
DelegationEndsBatches ==
    [][/\ delegated \cap Singletons # {} => ~ BatchStep
       /\ Split =>
             \/ UNCHANGED queue
             \/ /\ BidQueuePDA \in delegated <=> AskQueuePDA \in delegated
                /\ \E owner \in Owner : queue' = WithoutOwner(queue, owner)]_system

(* A restarted script starts with an account that is delegated, fails, and *)
(* exits.  Once the accounts are split there, and no transaction of the    *)
(* failed run can be executed late any more, no client ends the split, now *)
(* or later: it takes others that sign the missing instructions.           *)
Stuck ==
    /\ Split /\ AuctionStatePDA \in delegated
    /\ waiting["delegate"] \in {NoTx, DelegateTx(AuctionStatePDA)}
    /\ \A pda \in Singletons : DelegateTx(pda) \in late => pda \in delegated
RestartedScriptIsStuck ==
    [][Stuck => Stuck' \/ (Singletons \subseteq delegated' /\ UNCHANGED clients)]_system

(* demo.ts:112-149: the demo computes the id of its batch from a counter   *)
(* that the crank and its own earlier runs move on; what it prints as its  *)
(* result is the result of a batch, and of the one with that id.           *)
DemoReportsItsBatch ==
    demo.at = "result" =>
        /\ demo.batch_id \in DOMAIN results
        /\ results[demo.batch_id].batch_id = demo.batch_id

(* Whatever becomes of its transactions, every script ends and the panel   *)
(* stops loading.                                                          *)
Busy(c) ==
    \/ waiting[c] # NoTx
    \/ c = "demo" /\ demo.at # "off"
    \/ c = "panel" /\ loading
ClientsComeBack == \A c \in Client : Busy(c) ~> ~ Busy(c)
=============================================================================
