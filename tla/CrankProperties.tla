-------------------------- MODULE CrankProperties --------------------------
(***************************************************************************)
(* What the crank service achieves, with ticks that overlap, time out and  *)
(* act on counters that are no longer the counter.                         *)
(***************************************************************************)
EXTENDS Crank

(* No tick is ahead of the program: the ids under way are at most the next *)
(* one, although the counter has moved since they were computed.           *)
CrankTypeOK ==
    /\ timers \subseteq {"held", "lost"}
    /\ tick \in [Ticks -> Phase]
    /\ wanted \in [Ticks -> 0..(auction_state.batch_counter + 1)]
    /\ unconfirmed \subseteq 1..(auction_state.batch_counter + 1)

(* crank.service.ts:47-58 logs "Batch n executed" and the result it finds  *)
(* at n as that of the batch it executed: no tick is confirmed for a batch *)
(* that another one executed, and a tick acting on an old counter never    *)
(* executes a batch under an id that was meant for an earlier one.         *)
ConfirmedTicksExecutedTheirBatch ==
    /\ \A t \in Ticks :
          tick[t] = "confirmed" =>
              /\ wanted[t] \in Executed
              /\ results[wanted[t]].batch_id = wanted[t]
    /\ \A t, u \in Ticks :
          t # u /\ tick[t] = "confirmed" /\ tick[u] = "confirmed"
              => wanted[t] # wanted[u]

(* Read by the ids 1, 2, ... up to the counter, as api.service.ts:75 does, *)
(* the result accounts are a log of the batches that is only ever appended *)
(* to.                                                                     *)
Entries == [n \in 1..auction_state.batch_counter |-> results[n]]
Log == INSTANCE BatchLog WITH
    open <- initialized,
    batch_interval <- auction_state.batch_interval,
    log <- Entries,
    last_slot <- auction_state.last_batch_slot,
    now <- slot
ReadersSeeALog == Log!Spec

(* Once the address of the next result is taken by initialize_result, the  *)
(* crank never executes a batch again, whatever its ticks have under way.  *)
Taken == auction_state.batch_counter + 1 \in DOMAIN results
TakenAddressStopsTheCrank ==
    [][Taken => UNCHANGED auction_state \/ ~ initialized]_system

(* Otherwise, as long as an interval is set and no queue makes the auction *)
(* overflow, the next batch is eventually executed: no combination of      *)
(* refusals, timeouts and collisions stops the batches.                    *)
(* (A batch that is due only after MaxSlot, or numbered beyond BatchIds,   *)
(* is outside the exploration.)                                            *)
Jammed == Taken \/ \E at \in AuctionType : Panics(queue[at], at)
CanBeDue ==
    auction_state.last_batch_slot + auction_state.batch_interval <= MaxSlot
BatchesContinue ==
    \A n \in {b \in 0..MaxU64 : b + 1 \in BatchIds} :
        (initialized /\ timers # {} /\ CanBeDue /\ auction_state.batch_counter = n)
            ~> (auction_state.batch_counter > n \/ Jammed \/ timers = {})
=============================================================================
