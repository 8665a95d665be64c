----------------------------- MODULE OrderBook -----------------------------
(***************************************************************************)
(* The readers of the order queues: GET /api/orders, polled by the page    *)
(* (OrderBook.tsx), and the subscriptions of WebSocket connections         *)
(* (api.service.ts).  Either is a timer that starts a poll again and again,*)
(* whatever became of the last one; a poll fetches the two queues one after*)
(* the other, and answers.                                                 *)
(***************************************************************************)
EXTENDS ProgramProperties

CONSTANTS
    Connections,    \* the WebSocket connections
    Polls,          \* as many polls as may be under way
    MaxSafe,        \* the largest number JavaScript can tell from the next
    MaxTimers       \* bound on the subscriptions of one connection

Viewer == Connections \cup {"page"}
Nobody == "nobody"

ASSUME OrderBookAssumption ==
    /\ "page" \notin Connections /\ Nobody \notin Viewer
    /\ MaxSafe \in U64 /\ MaxTimers \in Nat \ {0}

VARIABLES
    viewers,    \* the page, if it is open, and the connections that are
    timers,     \* the number of intervals that fire for each viewer
    poll,       \* how far each poll is, for whom, and what it has fetched
    book        \* the orders the page shows

readers == <<viewers, timers, poll, book>>
system == <<vars, readers>>

IdlePoll == [at |-> "idle", for |-> Nobody, bids |-> << >>, asks |-> << >>]
PollFor(v) == [IdlePoll EXCEPT !.at = "bids", !.for = v]

OrderBookInit ==
    /\ Init
    /\ viewers = {}
    /\ timers = [v \in Viewer |-> 0]
    /\ poll = [t \in Polls |-> IdlePoll]
    /\ book = EmptyQueues

-----------------------------------------------------------------------------
(* The page.                                                               *)

(* A page that opens polls at once.                                        *)
Mount ==
    /\ "page" \notin viewers
    /\ viewers' = viewers \cup {"page"}
    /\ timers' = [timers EXCEPT !["page"] = 1]
    /\ \E t \in Polls :
          /\ poll[t] = IdlePoll
          /\ poll' = [poll EXCEPT ![t] = PollFor("page")]
    /\ book' = EmptyQueues
    /\ UNCHANGED vars

(* Whose polls are under way now are answered to a component that is gone. *)
Unmount ==
    /\ "page" \in viewers
    /\ viewers' = viewers \ {"page"}
    /\ timers' = [timers EXCEPT !["page"] = 0]
    /\ poll' = [t \in Polls |-> IF poll[t].for = "page"
                                THEN [poll[t] EXCEPT !.for = Nobody] ELSE poll[t]]
    /\ UNCHANGED <<vars, book>>

-----------------------------------------------------------------------------
(* The connections.                                                        *)

Connect(c) ==
    /\ c \notin viewers
    /\ viewers' = viewers \cup {c}
    /\ UNCHANGED <<vars, timers, poll, book>>

(* Each subscribe message sets another interval.                           *)
Subscribe(c) ==
    /\ c \in viewers
    /\ timers[c] < MaxTimers
    /\ timers' = [timers EXCEPT ![c] = @ + 1]
    /\ UNCHANGED <<vars, viewers, poll, book>>

(* A mistake: one handle is kept for a connection.                         *)
CloseLast(c) ==
    /\ c \in viewers
    /\ viewers' = viewers \ {c}
    /\ timers' = [timers EXCEPT ![c] = IF @ = 0 THEN 0 ELSE @ - 1]
    /\ UNCHANGED <<vars, poll, book>>

(* Each interval has a listener of its own that clears it.                 *)
Close(c) ==
    /\ c \in viewers
    /\ viewers' = viewers \ {c}
    /\ timers' = [timers EXCEPT ![c] = 0]
    /\ UNCHANGED <<vars, poll, book>>

-----------------------------------------------------------------------------
(* One poll.                                                               *)

Active(orders) == Retain(orders, {i \in 1..Len(orders) : orders[i].is_active})

(* toNumber() throws beyond MaxSafe.  The page gets no order when one of   *)
(* them throws; the connections get the orders as they are.                *)
Formattable(orders) ==
    \A i \in 1..Len(orders) :
        orders[i].price <= MaxSafe /\ orders[i].quantity <= MaxSafe
Answerable(p) == p.for \in Connections \/ Formattable(p.bids \o p.asks)

Becomes(t, p) == poll' = [poll EXCEPT ![t] = p]

StartPoll(t, v) ==
    /\ timers[v] > 0
    /\ poll[t] = IdlePoll
    /\ Becomes(t, PollFor(v))
    /\ UNCHANGED <<vars, viewers, timers, book>>

FetchBids(t) ==
    /\ poll[t].at = "bids"
    /\ initialized
    /\ Becomes(t, [poll[t] EXCEPT !.at = "asks", !.bids = Active(queue["Bid"])])
    /\ UNCHANGED <<vars, viewers, timers, book>>

(* Two mistakes: the address of the first fetch is used again; and what is *)
(* on the page is taken for what is in the account.                        *)
FetchBidsAgain(t) ==
    /\ poll[t].at = "asks"
    /\ Becomes(t, [poll[t] EXCEPT !.at = "answer", !.asks = Active(queue["Bid"])])
    /\ UNCHANGED <<vars, viewers, timers, book>>
FetchAsksOnce(t) ==
    /\ poll[t].at = "asks"
    /\ Becomes(t, [poll[t] EXCEPT !.at = "answer",
                      !.asks = IF book["Ask"] = << >> THEN Active(queue["Ask"])
                               ELSE book["Ask"]])
    /\ UNCHANGED <<vars, viewers, timers, book>>

(* The queue may have changed since the bids were fetched.                 *)
FetchAsks(t) ==
    LET p == [poll[t] EXCEPT !.at = "answer", !.asks = Active(queue["Ask"])]
    IN  /\ poll[t].at = "asks"
        /\ Answerable(p)
        /\ Becomes(t, p)
        /\ UNCHANGED <<vars, viewers, timers, book>>

(* A fetch or a conversion throws, or the answer does not arrive: caught   *)
(* and logged.                                                             *)
PollFails(t) ==
    /\ poll[t].at # "idle"
    /\ Becomes(t, IdlePoll)
    /\ UNCHANGED <<vars, viewers, timers, book>>

(* The last answer to arrive is shown, be it the oldest.                   *)
Answer(t) ==
    /\ poll[t].at = "answer"
    /\ book' = IF poll[t].for = "page"
               THEN [Bid |-> poll[t].bids, Ask |-> poll[t].asks] ELSE book
    /\ Becomes(t, IdlePoll)
    /\ UNCHANGED <<vars, viewers, timers>>

-----------------------------------------------------------------------------
OrderBookNext ==
    \/ Mount \/ Unmount
    \/ \E c \in Connections : Connect(c) \/ Subscribe(c) \/ Close(c)
    \/ \E t \in Polls :
          \/ \E v \in Viewer : StartPoll(t, v)
          \/ FetchBids(t) \/ FetchAsks(t) \/ PollFails(t) \/ Answer(t)
    \/ Next /\ UNCHANGED readers

(* The page's interval fires again and again.  A poll ends, one way or     *)
(* another, and of those of the page one after another does not fail.      *)
OfPage(t) == poll[t].for = "page"
Fairness ==
    /\ \A t \in Polls :
          WF_system(FetchBids(t) \/ FetchAsks(t) \/ PollFails(t) \/ Answer(t))
    /\ SF_system(\E t \in Polls : StartPoll(t, "page"))
    /\ SF_system(\E t \in Polls : OfPage(t) /\ FetchBids(t))
    /\ SF_system(\E t \in Polls : OfPage(t) /\ FetchAsks(t))
    /\ SF_system(\E t \in Polls : OfPage(t) /\ Answer(t))

OrderBookSpec == OrderBookInit /\ [][OrderBookNext]_system
FairOrderBookSpec == OrderBookSpec /\ Fairness
=============================================================================
