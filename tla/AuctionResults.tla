--------------------------- MODULE AuctionResults ---------------------------
(***************************************************************************)
(* The readers of the results: the panel of AuctionResults.tsx, which polls*)
(* GET /api/results/:count and GET /api/auction-state at once, and what    *)
(* api.service.ts makes of these: the results below a counter, fetched one *)
(* by one after it.  As in module Crank, batches are executed by the crank *)
(* only, each with the id after the counter.                               *)
(***************************************************************************)
EXTENDS ProgramProperties

CONSTANTS
    Count,      \* as many results as the panel asks for, 10 in the code
    Polls       \* as many polls as may be under way

ASSUME AuctionResultsAssumption == Count \in Nat \ {0}

VARIABLES
    mounted,    \* the panel is open, and its interval fires
    poll,       \* how far the two requests of each poll are
    shown       \* the results and the counter the panel shows

readers == <<mounted, poll, shown>>
system == <<vars, readers>>

(* The request for results fetches those from next to last; the state,     *)
(* once the other request has it, is a set of one counter.                 *)
IdlePoll == [at |-> "idle", next |-> 1, last |-> 0, rows |-> << >>, state |-> {}]

AuctionResultsInit ==
    /\ Init
    /\ mounted = FALSE
    /\ poll = [t \in Polls |-> IdlePoll]
    /\ shown = [rows |-> << >>, state |-> {}]

Becomes(t, p) == poll' = [poll EXCEPT ![t] = p]

-----------------------------------------------------------------------------
(* Polls that are under way when the panel is closed have no effect.       *)

Mount ==
    /\ ~ mounted
    /\ mounted' = TRUE
    /\ \E t \in Polls : Becomes(t, [IdlePoll EXCEPT !.at = "counter"])
    /\ shown' = [rows |-> << >>, state |-> {}]
    /\ UNCHANGED vars

Unmount ==
    /\ mounted
    /\ mounted' = FALSE
    /\ poll' = [t \in Polls |-> IdlePoll]
    /\ UNCHANGED <<vars, shown>>

StartPoll(t) ==
    /\ mounted
    /\ poll[t] = IdlePoll
    /\ Becomes(t, [IdlePoll EXCEPT !.at = "counter"])
    /\ UNCHANGED <<vars, mounted, shown>>

(* The oldest result asked for, when counter is the newest.                *)
Oldest(counter) == IF counter < Count THEN 1 ELSE counter - Count + 1

(* Two mistakes: the loop ends before the counter, or after it.            *)
FetchCounterShort(t) ==
    /\ poll[t].at = "counter"
    /\ initialized
    /\ Becomes(t, [poll[t] EXCEPT !.at = "rows",
                      !.next = Oldest(auction_state.batch_counter),
                      !.last = IF auction_state.batch_counter = 0 THEN 0
                               ELSE auction_state.batch_counter - 1])
    /\ UNCHANGED <<vars, mounted, shown>>
FetchCounterAhead(t) ==
    /\ poll[t].at = "counter"
    /\ initialized
    /\ Becomes(t, [poll[t] EXCEPT !.at = "rows",
                      !.next = Oldest(auction_state.batch_counter),
                      !.last = auction_state.batch_counter + 1])
    /\ UNCHANGED <<vars, mounted, shown>>

FetchCounter(t) ==
    /\ poll[t].at = "counter"
    /\ initialized
    /\ Becomes(t, [poll[t] EXCEPT !.at = "rows",
                      !.next = Oldest(auction_state.batch_counter),
                      !.last = auction_state.batch_counter])
    /\ UNCHANGED <<vars, mounted, shown>>

FetchRow(t) ==
    LET p == poll[t]
    IN  /\ p.at = "rows" /\ p.next <= p.last
        /\ p.next \in DOMAIN results
        /\ Becomes(t, [p EXCEPT !.next = @ + 1, !.rows = Append(@, results[p.next])])
        /\ UNCHANGED <<vars, mounted, shown>>

(* A result that cannot be fetched is passed over in silence.              *)
MissRow(t) ==
    LET p == poll[t]
    IN  /\ p.at = "rows" /\ p.next <= p.last
        /\ Becomes(t, [p EXCEPT !.next = @ + 1])
        /\ UNCHANGED <<vars, mounted, shown>>

(* The other request, at any time meanwhile.                               *)
FetchState(t) ==
    /\ poll[t].at # "idle" /\ poll[t].state = {}
    /\ initialized
    /\ Becomes(t, [poll[t] EXCEPT !.state = {auction_state.batch_counter}])
    /\ UNCHANGED <<vars, mounted, shown>>

(* Both requests are answered.                                             *)
Complete(p) == p.at = "rows" /\ p.next > p.last /\ p.state # {}

(* One of the two requests fails, and with it the poll.                    *)
PollFails(t) ==
    /\ poll[t].at # "idle" /\ ~ Complete(poll[t])
    /\ Becomes(t, IdlePoll)
    /\ UNCHANGED <<vars, mounted, shown>>

(* The last answer to arrive is shown, be it the oldest.                   *)
Show(t) ==
    /\ Complete(poll[t])
    /\ shown' = [rows |-> poll[t].rows, state |-> poll[t].state]
    /\ Becomes(t, IdlePoll)
    /\ UNCHANGED <<vars, mounted>>

-----------------------------------------------------------------------------
Others ==
    /\ \/ \E interval \in Intervals : Initialize(interval)
       \/ Trade
       \/ \E batch_id \in BatchIds : InitializeResult(batch_id)
       \/ /\ auction_state.batch_counter + 1 \in BatchIds
          /\ ExecuteBatch(auction_state.batch_counter + 1)
       \/ Tick
    /\ UNCHANGED readers

AuctionResultsNext ==
    \/ Mount \/ Unmount
    \/ \E t \in Polls :
          \/ StartPoll(t)
          \/ FetchCounter(t) \/ FetchRow(t) \/ MissRow(t) \/ FetchState(t)
          \/ PollFails(t) \/ Show(t)
    \/ Others

(* The interval fires again and again, and requests are answered.          *)
Fairness ==
    \A t \in Polls :
        /\ WF_system(StartPoll(t))
        /\ WF_system(FetchCounter(t) \/ FetchRow(t) \/ MissRow(t) \/ Show(t))
        /\ WF_system(FetchState(t))

AuctionResultsSpec == AuctionResultsInit /\ [][AuctionResultsNext]_system
FairAuctionResultsSpec == AuctionResultsSpec /\ Fairness
=============================================================================
