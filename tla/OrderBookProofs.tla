-------------------------- MODULE OrderBookProofs --------------------------
(***************************************************************************)
(* The readers of the order queues for every number of connections, polls  *)
(* and subscriptions: what they fetch and show are open orders of the      *)
(* program, each on its side, and no timer outlives its viewer.            *)
(***************************************************************************)
EXTENDS OrderBookProperties, ProgramProofs

(* The orders that can be fetched from a queue.                            *)
Shown(at) == {o \in Order : Live(o) /\ Route(o) = at}

Poll ==
    [at : {"idle", "bids", "asks", "answer"}, for : Viewer \cup {Nobody},
     bids : Seq(Shown("Bid")), asks : Seq(Shown("Ask"))]

ReadersOK ==
    /\ viewers \subseteq Viewer
    /\ timers \in [Viewer -> 0..MaxTimers]
    /\ \A v \in Viewer : timers[v] > 0 => v \in viewers
    /\ poll \in [Polls -> Poll]
    /\ book["Bid"] \in Seq(Shown("Bid")) /\ book["Ask"] \in Seq(Shown("Ask"))

(* The inductive invariant: what is fetched is well-formed because what    *)
(* is in the queues is, whichever instruction came before.                 *)
OrderBookInv == Inv /\ ReadersOK

LEMMA ReadersTyped == ReadersOK => OrderBookTypeOK
<1> SUFFICES ASSUME ReadersOK PROVE OrderBookTypeOK
    OBVIOUS
<1>1. ASSUME NEW at, NEW orders \in Seq(Shown(at)) PROVE OfSide(orders, at)
    <2>1. \A i \in 1..Len(orders) : orders[i] \in Shown(at)
        BY ElementOfSeq
    <2> QED BY <2>1 DEF OfSide, Shown
<1>2. ASSUME NEW t \in Polls
      PROVE  /\ poll[t].at \in {"idle", "bids", "asks", "answer"}
             /\ poll[t].for \in Viewer \cup {Nobody}
             /\ OfSide(poll[t].bids, "Bid") /\ OfSide(poll[t].asks, "Ask")
    <2>1. PICK p \in Poll : p = poll[t]
        BY DEF ReadersOK
    <2>2. p.bids \in Seq(Shown("Bid")) /\ p.asks \in Seq(Shown("Ask"))
        BY DEF Poll
    <2>3. OfSide(p.bids, "Bid") /\ OfSide(p.asks, "Ask")
        BY <1>1, <2>2
    <2> QED BY <2>1, <2>3 DEF Poll
<1>3. OfSide(book["Bid"], "Bid") /\ OfSide(book["Ask"], "Ask")
    BY <1>1 DEF ReadersOK
<1> QED BY <1>2, <1>3 DEF OrderBookTypeOK, ReadersOK, AuctionType

LEMMA ActiveOrders ==
    ASSUME Inv, NEW at \in AuctionType
    PROVE  Active(queue[at]) \in Seq(Shown(at))
<1>1. PICK v : v = queue[at] /\ v \in Seq(Queued(at))
    BY InvParts DEF WellFormed
<1>2. Queued(at) \subseteq Shown(at)
    BY DEF Queued, Shown
<1>3. v \in Seq(Shown(at))
    BY <1>1, <1>2
<1> QED BY <1>1, <1>3, RetainProperties DEF Active

LEMMA PollTypes ==
    /\ IdlePoll \in Poll
    /\ \A v \in Viewer : PollFor(v) \in Poll
    /\ << >> \in Seq(Shown("Bid")) /\ << >> \in Seq(Shown("Ask"))
<1>1. \A S : << >> \in Seq(S)
    OBVIOUS
<1>2. IdlePoll \in Poll
    BY <1>1 DEF IdlePoll, Poll
<1>3. ASSUME NEW v \in Viewer PROVE PollFor(v) \in Poll
    <2>1. PICK p \in Poll : p = IdlePoll
        BY <1>2
    <2>2. [p EXCEPT !.at = "bids", !.for = v] \in Poll
        BY DEF Poll
    <2> QED BY <2>1, <2>2 DEF PollFor
<1> QED BY <1>1, <1>2, <1>3

(* A step of the page or of a connection.                                  *)
LEMMA ViewersStep ==
    ASSUME ReadersOK, \/ Mount \/ Unmount
                      \/ \E c \in Connections : Connect(c) \/ Subscribe(c) \/ Close(c)
    PROVE  ReadersOK'
<1>1. MaxTimers \in Nat \ {0} /\ "page" \in Viewer /\ Connections \subseteq Viewer
    BY OrderBookAssumption DEF Viewer
<1>2. CASE Mount
    <2>1. PICK t \in Polls : poll' = [poll EXCEPT ![t] = PollFor("page")]
        BY <1>2 DEF Mount
    <2>2. poll' \in [Polls -> Poll]
        BY <1>1, <2>1, PollTypes DEF ReadersOK
    <2>3. book'["Bid"] = << >> /\ book'["Ask"] = << >>
        BY <1>2 DEF Mount, EmptyQueues, AuctionType
    <2>4. /\ timers' \in [Viewer -> 0..MaxTimers] /\ viewers' \subseteq Viewer
          /\ \A v \in Viewer : timers'[v] > 0 => v \in viewers'
        BY <1>1, <1>2 DEF Mount, ReadersOK
    <2> QED BY <2>2, <2>3, <2>4, PollTypes DEF ReadersOK, Poll, Shown
<1>3. CASE Unmount
    <2>1. ASSUME NEW t \in Polls PROVE poll'[t] \in Poll
        <3>1. PICK p \in Poll : p = poll[t]
            BY DEF ReadersOK
        <3>2. [p EXCEPT !.for = Nobody] \in Poll
            BY DEF Poll
        <3> QED BY <1>3, <3>1, <3>2 DEF Unmount
    <2>2. poll' \in [Polls -> Poll]
        BY <1>3, <2>1 DEF Unmount
    <2>3. /\ timers' \in [Viewer -> 0..MaxTimers] /\ viewers' \subseteq Viewer
          /\ \A v \in Viewer : timers'[v] > 0 => v \in viewers'
        BY <1>1, <1>3 DEF Unmount, ReadersOK
    <2> QED BY <1>3, <2>2, <2>3 DEF ReadersOK, Unmount
<1>4. ASSUME NEW c \in Connections, Connect(c) \/ Subscribe(c) \/ Close(c)
      PROVE  ReadersOK'
    <2>1. /\ timers' \in [Viewer -> 0..MaxTimers] /\ viewers' \subseteq Viewer
          /\ \A v \in Viewer : timers'[v] > 0 => v \in viewers'
        <3>1. c \in Viewer
            BY <1>1
        <3>2. CASE Connect(c)
            BY <3>1, <3>2 DEF Connect, ReadersOK
        <3>3. CASE Subscribe(c)
            <4>1. timers[c] + 1 \in 0..MaxTimers
                BY <1>1, <3>1, <3>3 DEF Subscribe, ReadersOK
            <4>2. timers' \in [Viewer -> 0..MaxTimers]
                BY <3>3, <4>1 DEF Subscribe, ReadersOK
            <4> QED BY <3>1, <3>3, <4>2 DEF Subscribe, ReadersOK
        <3>4. CASE Close(c)
            <4>1. timers' \in [Viewer -> 0..MaxTimers]
                BY <1>1, <3>4 DEF Close, ReadersOK
            <4>2. \A v \in Viewer : timers'[v] = IF v = c THEN 0 ELSE timers[v]
                BY <3>4 DEF Close, ReadersOK
            <4>3. viewers' \subseteq Viewer /\ viewers' = viewers \ {c}
                BY <3>4 DEF Close, ReadersOK
            <4> QED BY <4>1, <4>2, <4>3 DEF ReadersOK
        <3> QED BY <1>4, <3>2, <3>3, <3>4
    <2>2. UNCHANGED <<poll, book>>
        BY <1>4 DEF Connect, Subscribe, Close
    <2> QED BY <2>1, <2>2 DEF ReadersOK
<1> QED BY <1>2, <1>3, <1>4

(* A step of a poll.                                                       *)
LEMMA PollStep ==
    ASSUME Inv, ReadersOK, NEW t \in Polls,
           \/ \E v \in Viewer : StartPoll(t, v)
           \/ FetchBids(t) \/ FetchAsks(t) \/ PollFails(t) \/ Answer(t)
    PROVE  ReadersOK'
<1>1. PICK p \in Poll : p = poll[t]
    BY DEF ReadersOK
<1>2. ASSUME NEW q \in Poll, Becomes(t, q) PROVE poll' \in [Polls -> Poll]
    BY <1>2 DEF Becomes, ReadersOK
<1>3. ASSUME NEW q \in Poll, Becomes(t, q), UNCHANGED <<viewers, timers, book>>
      PROVE  ReadersOK'
    BY <1>2, <1>3 DEF ReadersOK
<1>4. ASSUME NEW v \in Viewer, StartPoll(t, v) PROVE ReadersOK'
    BY <1>3, <1>4, PollTypes DEF StartPoll
<1>5. CASE FetchBids(t)
    <2>1. PICK fetched \in Seq(Shown("Bid")) : fetched = Active(queue["Bid"])
        BY ActiveOrders DEF AuctionType
    <2>2. [p EXCEPT !.at = "asks", !.bids = fetched] \in Poll
        BY DEF Poll
    <2> QED BY <1>1, <1>3, <1>5, <2>1, <2>2 DEF FetchBids
<1>6. CASE FetchAsks(t)
    <2>1. PICK fetched \in Seq(Shown("Ask")) : fetched = Active(queue["Ask"])
        BY ActiveOrders DEF AuctionType
    <2>2. [p EXCEPT !.at = "answer", !.asks = fetched] \in Poll
        BY DEF Poll
    <2> QED BY <1>1, <1>3, <1>6, <2>1, <2>2 DEF FetchAsks
<1>7. CASE PollFails(t)
    BY <1>3, <1>7, PollTypes DEF PollFails
<1>8. CASE Answer(t)
    <2>1. p.bids \in Seq(Shown("Bid")) /\ p.asks \in Seq(Shown("Ask"))
        BY DEF Poll
    <2>2. book'["Bid"] \in Seq(Shown("Bid")) /\ book'["Ask"] \in Seq(Shown("Ask"))
        BY <1>1, <1>8, <2>1 DEF Answer, ReadersOK
    <2>3. poll' \in [Polls -> Poll]
        BY <1>2, <1>8, PollTypes DEF Answer
    <2> QED BY <1>8, <2>2, <2>3 DEF Answer, ReadersOK
<1> QED BY <1>4, <1>5, <1>6, <1>7, <1>8

LEMMA OrderBookStep ==
    OrderBookInv /\ [OrderBookNext]_system => OrderBookInv'
<1> SUFFICES ASSUME Inv, ReadersOK, [OrderBookNext]_system
             PROVE  Inv' /\ ReadersOK'
    BY DEF OrderBookInv
<1> DEFINE Page == \/ Mount \/ Unmount
                   \/ \E c \in Connections : Connect(c) \/ Subscribe(c) \/ Close(c)
           PollsOn == \E t \in Polls :
                         \/ \E v \in Viewer : StartPoll(t, v)
                         \/ FetchBids(t) \/ FetchAsks(t) \/ PollFails(t) \/ Answer(t)
<1>1. ASSUME Page PROVE UNCHANGED vars /\ ReadersOK'
    BY <1>1, ViewersStep DEF Mount, Unmount, Connect, Subscribe, Close
<1>2. ASSUME PollsOn PROVE UNCHANGED vars /\ ReadersOK'
    BY <1>2, PollStep DEF StartPoll, FetchBids, FetchAsks, PollFails, Answer
<1>3. ASSUME (Next /\ UNCHANGED readers) \/ UNCHANGED system
      PROVE  [Next]_vars /\ UNCHANGED readers
    BY <1>3 DEF system
<1>4. UNCHANGED readers => ReadersOK'
    BY DEF readers, ReadersOK
<1>5. [Next]_vars => Inv'
    BY StepInv
<1>6. Page \/ PollsOn \/ (Next /\ UNCHANGED readers) \/ UNCHANGED system
    BY DEF OrderBookNext
<1> HIDE DEF Page, PollsOn
<1> QED BY <1>1, <1>2, <1>3, <1>4, <1>5, <1>6

LEMMA OrderBookStart == OrderBookInit => OrderBookInv
<1> SUFFICES ASSUME OrderBookInit PROVE Inv /\ ReadersOK
    BY DEF OrderBookInv
<1>1. Inv
    BY InitInv DEF OrderBookInit
<1>2. book["Bid"] = << >> /\ book["Ask"] = << >>
    BY DEF OrderBookInit, EmptyQueues, AuctionType
<1>3. poll \in [Polls -> Poll]
    BY PollTypes DEF OrderBookInit
<1>4. timers \in [Viewer -> 0..MaxTimers] /\ \A v \in Viewer : timers[v] = 0
    BY OrderBookAssumption DEF OrderBookInit
<1> QED BY <1>1, <1>2, <1>3, <1>4, PollTypes DEF OrderBookInit, ReadersOK

(* Whatever polls overlap, and whoever leaves while one is under way: what *)
(* is fetched and shown are open orders of the program in their places     *)
(* (OrderBook.tsx), and a closed connection has no timer (api.service.ts). *)
THEOREM ViewersSeeOrders == OrderBookSpec => []OrderBookTypeOK
<1>1. OrderBookInv => OrderBookTypeOK
    BY ReadersTyped DEF OrderBookInv
<1>2. OrderBookInv /\ [OrderBookNext]_system => OrderBookInv'
    BY OrderBookStep
<1> QED BY <1>1, <1>2, OrderBookStart, PTL DEF OrderBookSpec
=============================================================================
