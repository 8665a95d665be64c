----------------------------- MODULE Interface -----------------------------
(***************************************************************************)
(* The program's interface as its clients see it: the addresses of its     *)
(* accounts, and for every instruction the accounts it writes, those that  *)
(* its Accounts struct marks as mut or init.  A transaction runs where all *)
(* of these are, which is why they matter (module Deployment).  An address *)
(* is the tuple of its seeds; signers, who only pay, are left out.         *)
(***************************************************************************)
EXTENDS Naturals

AuctionStatePDA == <<"auction_state">>
BidQueuePDA == <<"bid_queue">>
AskQueuePDA == <<"ask_queue">>
ResultPDA(batch_id) == <<"result", batch_id>>

Singletons == {AuctionStatePDA, BidQueuePDA, AskQueuePDA}
Queues == {BidQueuePDA, AskQueuePDA}

-----------------------------------------------------------------------------
initializeAccounts == Singletons

(* A mistake: the auction's state, which is only read, is not writable.    *)
accountsOfQueuesOnly == Queues

placeOrderAccounts == Singletons
placeMultipleOrdersAccounts == Singletons
cancelAllAndPostNewOrdersAccounts == Singletons

(* The one instruction on orders that does without the auction's state.    *)
cancelAllOrdersAccounts == Queues

executeBatchAccounts(batch_id) == Singletons \cup {ResultPDA(batch_id)}
initializeResultAccounts(batch_id) == {ResultPDA(batch_id)}

(* Delegating an account writes it and three accounts that #[delegate]     *)
(* adds (types/toy_dfba.ts has them): a buffer of this program, a record   *)
(* and metadata of the delegation program.                                 *)
Delegation(pda) ==
    {<<"buffer", pda>>, <<"delegation", pda>>, <<"delegation-metadata", pda>>, pda}

delegateAuctionStateAccounts == Delegation(AuctionStatePDA)
delegateBidQueueAccounts == Delegation(BidQueuePDA)
delegateAskQueueAccounts == Delegation(AskQueuePDA)
delegateResultAccounts(batch_id) == Delegation(ResultPDA(batch_id))
=============================================================================
