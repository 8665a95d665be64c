------------------------ MODULE AuctionResultsProofs ------------------------
(***************************************************************************)
(* What the panel of results lists, for any number of polls under way, any *)
(* Count, any traders and requests, and with addresses taken at any time.  *)
(***************************************************************************)
EXTENDS AuctionResultsProperties, ProgramProofs, FiniteSetTheorems

-----------------------------------------------------------------------------
(* The inductive invariant: what a poll has fetched lies in the window of  *)
(* Count ids that its counter opened, and is what is still there.          *)

Listed(rows, low, high) ==
    /\ rows \in Seq(AuctionResult)
    /\ \A i \in 1..Len(rows) :
          /\ rows[i].batch_id \in DOMAIN results
          /\ rows[i].batch_id \in low..high
          /\ rows[i] = results[rows[i].batch_id]
    /\ \A i, j \in 1..Len(rows) : i < j => rows[i].batch_id < rows[j].batch_id

StateFetched(state) == state = {} \/ \E c \in Counters : state = {c}

Poll == [at : {"idle", "counter", "rows"}, next : Nat \ {0}, last : Nat,
         rows : Seq(AuctionResult), state : SUBSET Nat]

PollOK(p) ==
    /\ p \in Poll
    /\ p.last \in Counters
    /\ Oldest(p.last) <= p.next /\ p.next <= p.last + 1
    /\ Listed(p.rows, Oldest(p.last), p.next - 1)
    /\ p.at # "rows" => p.rows = << >>
    /\ StateFetched(p.state)

Shown(s) ==
    /\ s.rows \in Seq(AuctionResult)
    /\ \E last \in Counters : Listed(s.rows, Oldest(last), last)
    /\ StateFetched(s.state)

ReadersInv ==
    /\ Inv /\ ResultsInPlace
    /\ mounted \in BOOLEAN
    /\ poll \in [Polls -> Poll]
    /\ \A t \in Polls : PollOK(poll[t])
    /\ Shown(shown)

LEMMA OldestBounds ==
    ASSUME NEW c \in Nat
    PROVE  /\ Oldest(c) \in Nat \ {0}
           /\ Oldest(c) <= c + 1
           /\ c - Oldest(c) < Count
BY AuctionResultsAssumption DEF Oldest

LEMMA NothingListed ==
    ASSUME NEW low, NEW high
    PROVE  Listed(<< >>, low, high)
BY DEF Listed

LEMMA ReadersInvImplies ==
    ReadersInv => AuctionResultsTypeOK /\ ListedResultsAreTheLog
<1> SUFFICES ASSUME ReadersInv PROVE AuctionResultsTypeOK /\ ListedResultsAreTheLog
    OBVIOUS
<1>1. auction_state.batch_counter \in Nat
    BY BatchTypes DEF ReadersInv
<1>2. \A state : StateFetched(state) => state \subseteq Counters /\ Cardinality(state) <= 1
    BY FS_EmptySet, FS_Singleton DEF StateFetched
<1>3. AuctionResultsTypeOK
    BY <1>2 DEF AuctionResultsTypeOK, ReadersInv, PollOK, Poll, Shown
<1>4. PICK last \in Counters : Listed(shown.rows, Oldest(last), last)
    BY DEF ReadersInv, Shown
<1>5. last \in Nat /\ Oldest(last) \in Nat \ {0} /\ last - Oldest(last) < Count
    BY <1>1, OldestBounds DEF Counters
<1>6. ListedResultsAreTheLog
    <2>1. ASSUME NEW i \in 1..Len(shown.rows)
          PROVE  /\ shown.rows[i].batch_id \in DOMAIN results \ {0}
                 /\ shown.rows[i] = results[shown.rows[i].batch_id]
        BY <1>4, <1>5 DEF Listed
    <2>2. ASSUME NEW i \in 1..Len(shown.rows), NEW j \in 1..Len(shown.rows), i < j
          PROVE  /\ shown.rows[i].batch_id < shown.rows[j].batch_id
                 /\ shown.rows[j].batch_id - shown.rows[i].batch_id < Count
        <3> DEFINE a == shown.rows[i].batch_id
                   b == shown.rows[j].batch_id
        <3>1. a \in Oldest(last)..last /\ b \in Oldest(last)..last /\ a < b
            BY <1>4, <2>2 DEF Listed
        <3> HIDE DEF a, b
        <3>2. b - a < Count
            BY <1>5, <3>1, AuctionResultsAssumption
        <3> QED BY <3>1, <3>2 DEF a, b
    <2> QED BY <2>1, <2>2 DEF ListedResultsAreTheLog
<1> QED BY <1>3, <1>6

LEMMA IdlePollOK ==
    ASSUME Inv
    PROVE  PollOK(IdlePoll) /\ PollOK([IdlePoll EXCEPT !.at = "counter"])
<1>1. 0 \in Counters
    BY BatchTypes DEF Counters
<1>2. Oldest(0) = 1
    BY AuctionResultsAssumption DEF Oldest
<1>3. << >> \in Seq(AuctionResult)
    OBVIOUS
<1>4. StateFetched({})
    BY DEF StateFetched
<1>5. {} \in SUBSET Nat /\ 0 \in Nat /\ 1 \in Nat \ {0}
    OBVIOUS
<1>6. /\ IdlePoll = [at |-> "idle", next |-> 1, last |-> 0, rows |-> << >>, state |-> {}]
      /\ [IdlePoll EXCEPT !.at = "counter"] =
            [at |-> "counter", next |-> 1, last |-> 0, rows |-> << >>, state |-> {}]
    BY DEF IdlePoll
<1>7. \A at \in {"idle", "counter", "rows"} :
          [at |-> at, next |-> 1, last |-> 0, rows |-> << >>, state |-> {}] \in Poll
    BY <1>3, <1>5 DEF Poll
<1>8. ASSUME NEW p \in {IdlePoll, [IdlePoll EXCEPT !.at = "counter"]} PROVE PollOK(p)
    <2>1. p.next = 1 /\ p.last = 0 /\ p.rows = << >> /\ p.state = {} /\ p \in Poll
        BY <1>6, <1>7
    <2>2. Listed(p.rows, Oldest(p.last), p.next - 1)
        BY <2>1, NothingListed
    <2> QED BY <1>1, <1>2, <1>4, <2>1, <2>2 DEF PollOK
<1> QED BY <1>8

LEMMA AuctionResultsInitInv == AuctionResultsInit => ReadersInv
<1> SUFFICES ASSUME AuctionResultsInit PROVE ReadersInv
    OBVIOUS
<1>1. Inv /\ ResultsInPlace
    BY InitInv, InitInPlace DEF AuctionResultsInit
<1>2. poll \in [Polls -> Poll] /\ \A t \in Polls : PollOK(poll[t])
    BY <1>1, IdlePollOK DEF AuctionResultsInit, PollOK
<1>3. Shown(shown)
    <2>1. 0 \in Counters
        BY <1>1, BatchTypes DEF Counters
    <2> QED BY <2>1, NothingListed DEF AuctionResultsInit, Shown, StateFetched
<1> QED BY <1>1, <1>2, <1>3 DEF ReadersInv, AuctionResultsInit

-----------------------------------------------------------------------------
(* What one step preserves.                                                *)

(* While the program goes on, what was fetched stays right.                *)
LEMMA ListedForEver ==
    ASSUME NEW rows, NEW low, NEW high, Listed(rows, low, high), [Next]_vars
    PROVE  Listed(rows, low, high)'
<1>1. \A b \in DOMAIN results : b \in DOMAIN results' /\ results'[b] = results[b]
    BY ResultsAreFinal
<1> QED BY <1>1 DEF Listed, AuctionResult, U64, Timestamp

LEMMA OthersStep ==
    ASSUME ReadersInv, UNCHANGED readers, Others \/ UNCHANGED vars
    PROVE  ReadersInv'
<1>1. [Next]_vars
    BY DEF Others, Next
<1>2. Inv'
    BY <1>1, StepInv DEF ReadersInv
<1>3. /\ ResultsInPlace'
      /\ auction_state'.batch_counter >= auction_state.batch_counter
    <2>1. CASE /\ auction_state.batch_counter + 1 \in BatchIds
               /\ ExecuteBatch(auction_state.batch_counter + 1)
        <3>1. PICK b \in BatchIds : b = auction_state.batch_counter + 1
            BY <2>1
        <3>2. b \in 1..(auction_state.batch_counter + 1) /\ ExecuteBatch(b)
            BY <2>1, <3>1, BatchTypes DEF ReadersInv
        <3> QED BY <3>2, ExecutesTheNext, BatchTypes DEF ReadersInv
    <2>2. CASE \/ \E interval \in Intervals : Initialize(interval)
               \/ \E b \in BatchIds : InitializeResult(b)
               \/ Trade \/ Tick \/ UNCHANGED vars
        <3>1. /\ ResultsInPlace'
              /\ auction_state'.batch_counter = auction_state.batch_counter
            BY <2>2, QuietStepsKeepPlaces DEF ReadersInv
        <3> QED BY <3>1, BatchTypes DEF ReadersInv
    <2> QED BY <2>1, <2>2 DEF Others
<1>4. Counters \subseteq Counters'
    BY <1>2, <1>3, BatchTypes DEF Counters, ReadersInv, Inv, TypeOK, AuctionState, U64
<1>5. \A state : StateFetched(state) => StateFetched(state)'
    BY <1>4 DEF StateFetched
<1>6. UNCHANGED <<mounted, poll, shown>>
    BY DEF readers
<1>7. Poll' = Poll /\ \A c : Oldest(c)' = Oldest(c)
    BY DEF Poll, Oldest, AuctionResult, U64, Timestamp
<1>8. ASSUME NEW p, PollOK(p) PROVE PollOK(p)'
    <2>1. Listed(p.rows, Oldest(p.last), p.next - 1)'
        BY <1>1, <1>8, ListedForEver DEF PollOK, Oldest
    <2> QED BY <1>4, <1>5, <1>7, <1>8, <2>1 DEF PollOK
<1>9. ASSUME NEW s, Shown(s) PROVE Shown(s)'
    <2>1. PICK last \in Counters : Listed(s.rows, Oldest(last), last)
        BY <1>9 DEF Shown
    <2>2. Listed(s.rows, Oldest(last), last)'
        BY <1>1, <2>1, ListedForEver DEF Oldest
    <2>3. last \in Counters'
        BY <1>4
    <2>4. s.rows \in Seq(AuctionResult)' /\ StateFetched(s.state)'
        BY <1>5, <1>9 DEF Shown, AuctionResult, U64, Timestamp
    <2> QED BY <2>2, <2>3, <2>4 DEF Shown
<1>10. \A t \in Polls : PollOK(poll[t])'
    <2> SUFFICES ASSUME NEW t \in Polls PROVE PollOK(poll[t])'
        OBVIOUS
    <2>1. PICK p : p = poll[t]
        OBVIOUS
    <2>2. PollOK(p)'
        BY <1>8, <2>1 DEF ReadersInv
    <2> QED BY <1>6, <2>1, <2>2
<1>11. Shown(shown)'
    <2>1. PICK s : s = shown
        OBVIOUS
    <2>2. Shown(s)'
        BY <1>9, <2>1 DEF ReadersInv
    <2> QED BY <1>6, <2>1, <2>2
<1> QED BY <1>2, <1>3, <1>6, <1>7, <1>10, <1>11 DEF ReadersInv

(* The readers go on, and the program does not.                            *)
LEMMA PollsStep ==
    ASSUME ReadersInv, UNCHANGED vars,
           NEW next \in [Polls -> Poll], \A t \in Polls : PollOK(next[t]), poll' = next,
           mounted' \in BOOLEAN, \E s : Shown(s) /\ shown' = s
    PROVE  ReadersInv'
<1>1. /\ Inv' <=> Inv
      /\ ResultsInPlace' <=> ResultsInPlace
      /\ UNCHANGED <<auction_state, results>>
    BY DEF vars, Inv, TypeOK, QueuesHoldOpenOrders, ResultsInPlace, AuctionState,
           Order, AuctionResult, U64, Timestamp, Live, Route, ValidParams
<1>2. ASSUME NEW p, PollOK(p) PROVE PollOK(p)'
    BY <1>1, <1>2 DEF PollOK, Listed, StateFetched, Counters, Poll, Oldest,
                      AuctionResult, U64, Timestamp
<1>3. ASSUME NEW t \in Polls PROVE PollOK(poll[t])'
    <2>1. PICK p : p = next[t]
        OBVIOUS
    <2> QED BY <1>2, <2>1
<1>4. Shown(shown)'
    <2>1. PICK s : Shown(s) /\ shown' = s
        OBVIOUS
    <2> QED BY <1>1, <2>1 DEF Shown, Listed, StateFetched, Counters, Oldest,
                              AuctionResult, U64, Timestamp
<1> QED BY <1>1, <1>3, <1>4 DEF ReadersInv, Poll, AuctionResult, U64, Timestamp

LEMMA PollStep ==
    ASSUME ReadersInv, UNCHANGED vars, NEW t \in Polls, NEW p, PollOK(p), Becomes(t, p),
           mounted' \in BOOLEAN, \E s : Shown(s) /\ shown' = s
    PROVE  ReadersInv'
<1>1. PICK next : next = [poll EXCEPT ![t] = p]
    OBVIOUS
<1>2. next \in [Polls -> Poll] /\ \A u \in Polls : PollOK(next[u])
    BY <1>1 DEF PollOK, ReadersInv
<1>3. poll' = next
    BY <1>1 DEF Becomes
<1> QED BY <1>2, <1>3, PollsStep

(* One more row, or one less.                                              *)
LEMMA PollBounds ==
    ASSUME ReadersInv, NEW p, PollOK(p)
    PROVE  /\ auction_state.batch_counter \in Nat
           /\ p.last \in Nat /\ p.next \in Nat \ {0}
           /\ p.last <= auction_state.batch_counter
           /\ Oldest(p.last) \in Nat \ {0} /\ Oldest(p.last) <= p.next
<1>1. auction_state.batch_counter \in Nat
    BY BatchTypes DEF ReadersInv
<1>2. p \in Poll /\ p.last \in Counters /\ Oldest(p.last) <= p.next
    BY DEF PollOK
<1>3. p.last \in Nat /\ p.next \in Nat \ {0}
    BY <1>2 DEF Poll
<1>4. p.last <= auction_state.batch_counter
    BY <1>1, <1>2 DEF Counters
<1> QED BY <1>1, <1>2, <1>3, <1>4, OldestBounds

LEMMA RowFetched ==
    ASSUME ReadersInv, NEW p, PollOK(p), p.next <= p.last, p.next \in DOMAIN results
    PROVE  Listed(Append(p.rows, results[p.next]), Oldest(p.last), p.next)
<1> DEFINE row == results[p.next]
           rows == Append(p.rows, row)
           n == Len(p.rows)
<1>1. /\ auction_state.batch_counter \in Nat /\ p.last \in Nat /\ p.next \in Nat \ {0}
      /\ p.last <= auction_state.batch_counter
      /\ Oldest(p.last) \in Nat /\ Oldest(p.last) <= p.next
    BY PollBounds
<1>2. row \in AuctionResult /\ row.batch_id = p.next
    BY <1>1 DEF ReadersInv, Inv, TypeOK, ResultsInPlace
<1>3. p.rows \in Seq(AuctionResult) /\ Listed(p.rows, Oldest(p.last), p.next - 1)
    BY DEF PollOK, Listed
<1>4. /\ rows \in Seq(AuctionResult) /\ n \in Nat /\ Len(rows) = n + 1
      /\ rows[n + 1] = row
      /\ \A i \in 1..n : rows[i] = p.rows[i]
    BY <1>2, <1>3
<1> HIDE DEF rows, n, row
<1>5. \A i \in 1..n : /\ rows[i].batch_id \in DOMAIN results
                      /\ rows[i].batch_id \in Oldest(p.last)..(p.next - 1)
                      /\ rows[i] = results[rows[i].batch_id]
    BY <1>3, <1>4 DEF Listed, n
<1>6. ASSUME NEW i \in 1..Len(rows)
      PROVE  /\ rows[i].batch_id \in DOMAIN results
             /\ rows[i].batch_id \in Oldest(p.last)..p.next
             /\ rows[i] = results[rows[i].batch_id]
    <2>1. CASE i \in 1..n
        BY <1>1, <1>5, <2>1
    <2>2. CASE i = n + 1
        BY <1>1, <1>2, <1>4, <2>2 DEF row
    <2> QED BY <1>4, <2>1, <2>2
<1>7. ASSUME NEW i \in 1..Len(rows), NEW j \in 1..Len(rows), i < j
      PROVE  rows[i].batch_id < rows[j].batch_id
    <2>1. CASE j \in 1..n
        <3>1. i \in 1..n
            BY <1>4, <1>7, <2>1
        <3> QED BY <1>3, <1>4, <1>7, <2>1, <3>1 DEF Listed, n
    <2>2. CASE j = n + 1
        <3>1. i \in 1..n
            BY <1>4, <1>7, <2>2
        <3>2. rows[i].batch_id \in Oldest(p.last)..(p.next - 1)
            BY <1>5, <3>1
        <3>3. rows[j].batch_id = p.next
            BY <1>2, <1>4, <2>2
        <3> QED BY <1>1, <3>2, <3>3
    <2> QED BY <1>4, <2>1, <2>2
<1>8. Listed(rows, Oldest(p.last), p.next)
    BY <1>4, <1>6, <1>7 DEF Listed
<1> QED BY <1>8 DEF rows, row

LEMMA RowMissed ==
    ASSUME NEW rows, NEW low \in Int, NEW high \in Int, Listed(rows, low, high - 1)
    PROVE  Listed(rows, low, high)
BY DEF Listed

LEMMA PollMoves ==
    ASSUME ReadersInv, NEW t \in Polls,
           FetchCounter(t) \/ FetchRow(t) \/ MissRow(t) \/ FetchState(t)
    PROVE  /\ \E p : PollOK(p) /\ Becomes(t, p)
           /\ UNCHANGED <<vars, mounted, shown>>
<1>1. PICK q : q = poll[t]
    OBVIOUS
<1>2. PollOK(q) /\ q \in Poll
    BY <1>1 DEF ReadersInv, PollOK
<1>3. /\ auction_state.batch_counter \in Nat /\ auction_state.batch_counter \in Counters
      /\ q.last \in Nat /\ q.next \in Nat \ {0}
      /\ Oldest(q.last) \in Nat \ {0}
    BY <1>2, PollBounds DEF Counters
<1>4. CASE FetchCounter(t)
    <2>1. PICK c \in Counters : c = auction_state.batch_counter
        BY <1>3
    <2>2. PICK p : p = [q EXCEPT !.at = "rows", !.next = Oldest(c), !.last = c]
        OBVIOUS
    <2>3. c \in Nat /\ Oldest(c) \in Nat \ {0} /\ Oldest(c) <= c + 1
        BY <1>3, <2>1, OldestBounds
    <2>4. /\ p \in Poll /\ p.last = c /\ p.next = Oldest(c) /\ p.rows = << >>
          /\ p.at = "rows" /\ p.state = q.state
        BY <1>1, <1>2, <1>4, <2>2, <2>3 DEF FetchCounter, PollOK, Poll
    <2>5. PollOK(p)
        BY <1>2, <2>3, <2>4, NothingListed DEF PollOK
    <2>6. Becomes(t, p)
        BY <1>1, <1>4, <2>1, <2>2 DEF FetchCounter
    <2> QED BY <1>4, <2>5, <2>6 DEF FetchCounter
<1>5. CASE FetchRow(t)
    <2>1. /\ q.at = "rows" /\ q.next <= q.last /\ q.next \in DOMAIN results
          /\ UNCHANGED <<vars, mounted, shown>>
          /\ Becomes(t, [q EXCEPT !.next = q.next + 1,
                                  !.rows = Append(q.rows, results[q.next])])
        BY <1>1, <1>5 DEF FetchRow
    <2>2. PICK row : row = results[q.next]
        OBVIOUS
    <2>3. PICK p : p = [q EXCEPT !.next = q.next + 1, !.rows = Append(q.rows, row)]
        OBVIOUS
    <2>4. Listed(Append(q.rows, row), Oldest(q.last), q.next)
        BY <1>2, <2>1, <2>2, RowFetched
    <2>5. /\ p = [at |-> "rows", next |-> q.next + 1, last |-> q.last,
                  rows |-> Append(q.rows, row), state |-> q.state]
          /\ Append(q.rows, row) \in Seq(AuctionResult)
        BY <1>2, <2>1, <2>3, <2>4 DEF Poll, Listed
    <2>6. p.next = q.next + 1 /\ p.next - 1 = q.next /\ p.last = q.last
        BY <1>3, <2>5
    <2>7. p \in Poll
        BY <1>2, <1>3, <2>5 DEF Poll
    <2>8. PollOK(p)
        BY <1>2, <1>3, <2>1, <2>4, <2>5, <2>6, <2>7 DEF PollOK
    <2> QED BY <2>1, <2>2, <2>3, <2>8
<1>6. CASE MissRow(t)
    <2>1. /\ q.at = "rows" /\ q.next <= q.last
          /\ UNCHANGED <<vars, mounted, shown>>
          /\ Becomes(t, [q EXCEPT !.next = q.next + 1])
        BY <1>1, <1>6 DEF MissRow
    <2>2. PICK p : p = [q EXCEPT !.next = q.next + 1]
        OBVIOUS
    <2>3. /\ p \in Poll /\ p.next = q.next + 1 /\ p.next - 1 = q.next /\ p.last = q.last
          /\ p.rows = q.rows /\ p.state = q.state /\ p.at = "rows"
        BY <1>2, <1>3, <2>1, <2>2 DEF Poll
    <2>4. Listed(q.rows, Oldest(q.last), q.next)
        BY <1>2, <1>3, RowMissed DEF PollOK
    <2>5. PollOK(p)
        BY <1>2, <1>3, <2>1, <2>3, <2>4 DEF PollOK
    <2> QED BY <2>1, <2>2, <2>5
<1>7. CASE FetchState(t)
    <2>1. PICK c \in Counters : c = auction_state.batch_counter
        BY <1>3
    <2>2. PICK p : p = [q EXCEPT !.state = {c}]
        OBVIOUS
    <2>3. Becomes(t, p) /\ UNCHANGED <<vars, mounted, shown>>
        BY <1>1, <1>7, <2>1, <2>2 DEF FetchState
    <2>4. {c} \in SUBSET Nat /\ StateFetched({c})
        BY <1>3, <2>1 DEF StateFetched
    <2>5. /\ p \in Poll /\ p.next = q.next /\ p.last = q.last
          /\ p.rows = q.rows /\ p.state = {c} /\ p.at = q.at
        BY <1>2, <2>2, <2>4 DEF Poll
    <2>6. PollOK(p)
        BY <1>2, <2>4, <2>5 DEF PollOK
    <2> QED BY <2>3, <2>6
<1> QED BY <1>4, <1>5, <1>6, <1>7

LEMMA ReaderStep ==
    ASSUME ReadersInv, AuctionResultsNext
    PROVE  ReadersInv'
<1>1. /\ PollOK(IdlePoll) /\ PollOK([IdlePoll EXCEPT !.at = "counter"])
      /\ Shown([rows |-> << >>, state |-> {}]) /\ Shown(shown)
    <2>1. 0 \in Counters
        BY BatchTypes DEF Counters, ReadersInv
    <2>2. Shown([rows |-> << >>, state |-> {}])
        BY <2>1, NothingListed DEF Shown, StateFetched
    <2> QED BY <2>2, IdlePollOK DEF ReadersInv
<1>2. CASE Mount
    <2>1. PICK t \in Polls, p \in {[IdlePoll EXCEPT !.at = "counter"]} : Becomes(t, p)
        BY <1>2 DEF Mount
    <2>2. PICK s : s = [rows |-> << >>, state |-> {}]
        OBVIOUS
    <2>3. UNCHANGED vars /\ mounted' \in BOOLEAN /\ shown' = s
        BY <1>2, <2>2 DEF Mount
    <2> QED BY <1>1, <2>1, <2>2, <2>3, PollStep
<1>3. CASE Unmount
    <2>1. PICK next : next = [t \in Polls |-> IdlePoll]
        OBVIOUS
    <2>2. next \in [Polls -> Poll] /\ \A t \in Polls : PollOK(next[t])
        BY <1>1, <2>1 DEF PollOK
    <2>3. /\ UNCHANGED vars /\ poll' = next /\ mounted' \in BOOLEAN
          /\ \E s : Shown(s) /\ shown' = s
        BY <1>1, <1>3, <2>1 DEF Unmount
    <2> QED BY <2>2, <2>3, PollsStep
<1>4. CASE \E t \in Polls : StartPoll(t) \/ PollFails(t)
    <2>1. PICK t \in Polls, p \in {IdlePoll, [IdlePoll EXCEPT !.at = "counter"]} :
              Becomes(t, p) /\ UNCHANGED <<vars, mounted, shown>>
        BY <1>4 DEF StartPoll, PollFails
    <2>2. PollOK(p) /\ mounted' \in BOOLEAN /\ \E s : Shown(s) /\ shown' = s
        BY <1>1, <2>1 DEF ReadersInv
    <2> QED BY <2>1, <2>2, PollStep
<1>5. CASE \E t \in Polls :
               FetchCounter(t) \/ FetchRow(t) \/ MissRow(t) \/ FetchState(t)
    <2>1. PICK t \in Polls : \E p : PollOK(p) /\ Becomes(t, p)
        BY <1>5, PollMoves
    <2>2. UNCHANGED <<vars, mounted, shown>>
        BY <1>5, PollMoves
    <2>3. mounted' \in BOOLEAN /\ \E s : Shown(s) /\ shown' = s
        BY <1>1, <2>2 DEF ReadersInv
    <2> QED BY <2>1, <2>2, <2>3, PollStep
<1>6. CASE \E t \in Polls : Show(t)
    <2>1. PICK t \in Polls : Show(t)
        BY <1>6
    <2>2. PICK p, s : p = poll[t] /\ s = [rows |-> poll[t].rows, state |-> poll[t].state]
        OBVIOUS
    <2>3. PollOK(p) /\ Complete(p) /\ shown' = s /\ UNCHANGED <<vars, mounted>>
        BY <2>1, <2>2 DEF Show, ReadersInv
    <2>4. p.next - 1 = p.last
        BY <2>3, PollBounds DEF PollOK, Complete
    <2>5. Shown(s)
        BY <2>2, <2>3, <2>4 DEF Shown, PollOK, Listed
    <2>6. PICK idle : idle = IdlePoll
        OBVIOUS
    <2>7. Becomes(t, idle) /\ PollOK(idle) /\ mounted' \in BOOLEAN
        BY <1>1, <2>1, <2>6 DEF Show, ReadersInv
    <2> QED BY <2>3, <2>5, <2>7, PollStep
<1>7. CASE Others
    BY <1>7, OthersStep DEF Others
<1> QED BY <1>2, <1>3, <1>4, <1>5, <1>6, <1>7 DEF AuctionResultsNext

LEMMA ReadersInvariant == AuctionResultsSpec => []ReadersInv
<1>1. ReadersInv /\ [AuctionResultsNext]_system => ReadersInv'
    BY ReaderStep, OthersStep DEF system
<1> QED BY AuctionResultsInitInv, <1>1, PTL DEF AuctionResultsSpec

(* No counter and no id fetched is ahead of the program (api.service.ts).  *)
THEOREM NoReaderIsAhead == AuctionResultsSpec => []AuctionResultsTypeOK
BY ReadersInvariant, ReadersInvImplies, PTL

(* The panel lists final results, in order, of Count successive batches,   *)
(* whatever happens while they are fetched (api.service.ts:75-90).         *)
THEOREM ListedResultsAreFinal == AuctionResultsSpec => []ListedResultsAreTheLog
BY ReadersInvariant, ReadersInvImplies, PTL
=============================================================================
