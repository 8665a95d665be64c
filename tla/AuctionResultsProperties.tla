---------------------- MODULE AuctionResultsProperties ----------------------
(***************************************************************************)
(* What the panel of results shows, while batches go on under its polls.   *)
(***************************************************************************)
EXTENDS AuctionResults

(* No counter fetched or shown is ahead of the program, however late, and  *)
(* every row is a whole result.                                            *)
Counters == 0..auction_state.batch_counter
AuctionResultsTypeOK ==
    /\ mounted \in BOOLEAN
    /\ \A t \in Polls :
          /\ poll[t].at \in {"idle", "counter", "rows"}
          /\ poll[t].last \in Counters
          /\ poll[t].state \subseteq Counters
          /\ poll[t].rows \in Seq(AuctionResult)
    /\ shown.rows \in Seq(AuctionResult)
    /\ shown.state \subseteq Counters /\ Cardinality(shown.state) <= 1

(* api.service.ts:75-90: polls read the results one by one while batches   *)
(* are executed and addresses are taken by initialize_result, lose some,   *)
(* and overtake each other.  Still what is listed are results of the log,  *)
(* final, in order, and of Count successive batches.                       *)
ListedResultsAreTheLog ==
    /\ \A i \in 1..Len(shown.rows) :
          LET row == shown.rows[i]
          IN  /\ row.batch_id \in DOMAIN results \ {0}
              /\ row = results[row.batch_id]
    /\ \A i, j \in 1..Len(shown.rows) :
          i < j => /\ shown.rows[i].batch_id < shown.rows[j].batch_id
                   /\ shown.rows[j].batch_id - shown.rows[i].batch_id < Count

(* AuctionResults.tsx:20-35: once there are no more batches, the panel     *)
(* shows the last results and the counter that goes with them, and goes on *)
(* showing them, unless it is closed or requests fail again and again.     *)
Latest ==
    LET counter == auction_state.batch_counter
        oldest == Oldest(counter)
    IN  [rows |-> [i \in 1..(counter - oldest + 1) |-> results[oldest + i - 1]],
         state |-> {counter}]
ResultsCatchUp ==
    \/ []<>(~ initialized \/ ~ mounted)
    \/ []<><<BatchStep>>_auction_state
    \/ []<><<\E t \in Polls : PollFails(t) \/ MissRow(t)>>_poll
    \/ <>[](shown = Latest)
=============================================================================
