---------------------------- MODULE CrankProofs ----------------------------
(***************************************************************************)
(* Theorems about the crank and the program together: however many ticks   *)
(* overlap, time out and collide, and whoever takes a result's address.    *)
(***************************************************************************)
EXTENDS CrankProperties, ProgramProofs

-----------------------------------------------------------------------------
(* The inductive invariant.                                                *)

IdsInRange ==
    /\ \A t \in Ticks : tick[t] = "sent" => wanted[t] \in BatchIds \ {0}
    /\ unconfirmed \subseteq BatchIds

OneTickPerBatch ==
    /\ \A t \in Ticks :
          tick[t] = "confirmed" => wanted[t] \in 1..auction_state.batch_counter
    /\ \A t, u \in Ticks :
          t # u /\ tick[t] = "confirmed" /\ tick[u] = "confirmed"
              => wanted[t] # wanted[u]

CrankInv ==
    Inv /\ CrankTypeOK /\ IdsInRange /\ ResultsInPlace /\ OneTickPerBatch

(* A step that executes no batch is one of the program, or leaves it alone.*)
LEMMA OtherStepsKeepPlaces ==
    ASSUME Inv, ResultsInPlace, [CrankNext]_system,
           \A t \in Ticks : ~ Land(t), \A b \in BatchIds : ~ LandLate(b)
    PROVE  /\ ResultsInPlace'
           /\ auction_state'.batch_counter = auction_state.batch_counter
<1>1. \/ \E interval \in Intervals : Initialize(interval)
      \/ \E b \in BatchIds : InitializeResult(b)
      \/ Trade \/ Tick \/ UNCHANGED vars
    BY DEF CrankNext, Start, Stop, StartTick, Fetch, FetchFails, Refuse, TimeOut,
           Report, Expire, Others, Clock, system
<1> QED BY <1>1, QuietStepsKeepPlaces

(* Whatever the crank does, it does to the program what Program allows.    *)
LEMMA CrankStepIsProgramStep ==
    ASSUME CrankInv, [CrankNext]_system
    PROVE  [Next]_vars
<1>1. ASSUME NEW t \in Ticks, Land(t) PROVE Next
    <2>1. wanted[t] \in BatchIds
        BY <1>1 DEF Land, CrankInv, IdsInRange
    <2> QED BY <1>1, <2>1 DEF Land, Next
<1>2. ASSUME NEW b \in BatchIds, LandLate(b) PROVE Next
    BY <1>2 DEF LandLate, Next
<1>3. Others \/ Clock => Next
    BY DEF Others, Clock, Next
<1> QED BY <1>1, <1>2, <1>3 DEF CrankNext, Start, Stop, StartTick, Fetch,
           FetchFails, Refuse, TimeOut, Report, Expire, system

-----------------------------------------------------------------------------
(* What one step preserves.                                                *)

TickTypes ==
    /\ timers \subseteq {"held", "lost"}
    /\ tick \in [Ticks -> Phase]
    /\ wanted \in [Ticks -> 0..(auction_state.batch_counter + 1)]
    /\ unconfirmed \subseteq 1..(auction_state.batch_counter + 1)
    /\ IdsInRange /\ OneTickPerBatch

(* Ids that are not ahead of a counter are not ahead of a larger one.      *)
LEMMA IdsStayBehind ==
    ASSUME Inv, TickTypes,
           auction_state'.batch_counter \in
               {auction_state.batch_counter, auction_state.batch_counter + 1}
    PROVE  /\ wanted \in [Ticks -> 0..(auction_state'.batch_counter + 1)]
           /\ unconfirmed \subseteq 1..(auction_state'.batch_counter + 1)
           /\ 1..auction_state.batch_counter \subseteq 1..auction_state'.batch_counter
<1> DEFINE c == auction_state.batch_counter
           d == auction_state'.batch_counter
<1>1. c \in Nat /\ d \in Nat /\ c <= d
    BY BatchTypes
<1>2. 0..(c + 1) \subseteq 0..(d + 1) /\ 1..(c + 1) \subseteq 1..(d + 1) /\ 1..c \subseteq 1..d
    BY <1>1
<1> QED BY <1>2 DEF TickTypes

(* The ticks' part of a step that leaves the counter alone, by what it     *)
(* does to one tick.                                                       *)
LEMMA OneTickMoves ==
    ASSUME Inv, TickTypes, NEW t \in Ticks, NEW phase \in Phase,
           Becomes(t, phase), timers' = timers,
           auction_state'.batch_counter = auction_state.batch_counter,
           wanted' = wanted, phase \notin {"sent", "confirmed"},
           unconfirmed' \subseteq unconfirmed \cup {wanted[t]},
           unconfirmed' # unconfirmed => tick[t] = "sent"
    PROVE  TickTypes'
<1>1. /\ tick' = [tick EXCEPT ![t] = phase] /\ tick \in [Ticks -> Phase]
      /\ wanted \in [Ticks -> 0..(auction_state.batch_counter + 1)]
      /\ auction_state.batch_counter \in Nat
    BY BatchTypes DEF Becomes, TickTypes
<1>2. \A u \in Ticks : tick'[u] \in {"sent", "confirmed"} => u # t /\ tick'[u] = tick[u]
    BY <1>1
<1>3. tick[t] = "sent" =>
          wanted[t] \in BatchIds /\ wanted[t] \in 1..(auction_state.batch_counter + 1)
    BY <1>1 DEF TickTypes, IdsInRange
<1>4. /\ unconfirmed' \subseteq 1..(auction_state.batch_counter + 1)
      /\ unconfirmed' \subseteq BatchIds
    BY <1>3 DEF TickTypes, IdsInRange
<1>5. IdsInRange'
    BY <1>2, <1>4 DEF TickTypes, IdsInRange
<1>6. OneTickPerBatch'
    BY <1>2 DEF TickTypes, OneTickPerBatch
<1> QED BY <1>1, <1>4, <1>5, <1>6 DEF TickTypes

LEMMA TickStep ==
    ASSUME CrankInv, [CrankNext]_system
    PROVE  ResultsInPlace' /\ TickTypes'
<1> DEFINE c == auction_state.batch_counter
<1>1. Inv /\ ResultsInPlace /\ TickTypes
    BY DEF CrankInv, CrankTypeOK, TickTypes
<1>2. c \in Nat /\ BatchIds \subseteq Nat
    BY <1>1, BatchTypes
<1>3. ASSUME NEW t \in Ticks, Land(t) PROVE ResultsInPlace' /\ TickTypes'
    <2>1. /\ tick[t] = "sent" /\ wanted[t] \in BatchIds /\ wanted[t] \in 1..(c + 1)
          /\ ExecuteBatch(wanted[t])
          /\ tick' = [tick EXCEPT ![t] = "confirmed"] /\ tick \in [Ticks -> Phase]
          /\ timers' = timers /\ wanted' = wanted /\ unconfirmed' = unconfirmed
        BY <1>1, <1>2, <1>3 DEF Land, Becomes, TickTypes, IdsInRange
    <2>2. wanted[t] = c + 1 /\ auction_state'.batch_counter = c + 1 /\ ResultsInPlace'
        BY <1>1, <2>1, ExecutesTheNext
    <2>3. /\ wanted \in [Ticks -> 0..(c + 2)] /\ unconfirmed \subseteq 1..(c + 2)
          /\ 1..c \subseteq 1..(c + 1)
        BY <1>1, <1>2, <2>2, IdsStayBehind
    <2>4. \A u \in Ticks \ {t} : tick'[u] = tick[u]
        BY <2>1
    <2>5. \A u \in Ticks \ {t} : tick[u] = "confirmed" => wanted[u] \in 1..c
        BY <1>1 DEF TickTypes, OneTickPerBatch
    <2>6. OneTickPerBatch'
        BY <1>1, <1>2, <2>1, <2>2, <2>3, <2>4, <2>5 DEF TickTypes, OneTickPerBatch
    <2>7. IdsInRange'
        BY <1>1, <2>1, <2>4 DEF TickTypes, IdsInRange
    <2>8. tick' \in [Ticks -> Phase]
        BY <2>1 DEF Phase
    <2> QED BY <1>1, <1>2, <2>1, <2>2, <2>3, <2>6, <2>7, <2>8 DEF TickTypes
<1>4. ASSUME NEW b \in BatchIds, LandLate(b) PROVE ResultsInPlace' /\ TickTypes'
    <2>1. /\ b \in 1..(c + 1) /\ ExecuteBatch(b)
          /\ unconfirmed' = unconfirmed \ {b} /\ UNCHANGED <<timers, tick, wanted>>
        BY <1>1, <1>4 DEF LandLate, TickTypes
    <2>2. auction_state'.batch_counter = c + 1 /\ ResultsInPlace'
        BY <1>1, <2>1, ExecutesTheNext
    <2>3. /\ wanted \in [Ticks -> 0..(c + 2)] /\ unconfirmed \subseteq 1..(c + 2)
          /\ 1..c \subseteq 1..(c + 1)
        BY <1>1, <1>2, <2>2, IdsStayBehind
    <2> QED BY <1>1, <1>2, <2>1, <2>2, <2>3 DEF TickTypes, OneTickPerBatch, IdsInRange
<1>5. ASSUME \A t \in Ticks : ~ Land(t), \A b \in BatchIds : ~ LandLate(b)
      PROVE  ResultsInPlace' /\ TickTypes'
    <2>1. ResultsInPlace' /\ auction_state'.batch_counter = c
        BY <1>1, <1>5, OtherStepsKeepPlaces
    <2>2. ASSUME NEW t \in Ticks,
                 StartTick(t) \/ FetchFails(t) \/ Refuse(t) \/ TimeOut(t) \/ Report(t)
          PROVE  TickTypes'
        <3>1. \E phase \in Phase \ {"sent", "confirmed"} : Becomes(t, phase)
            BY <2>2 DEF StartTick, FetchFails, Refuse, TimeOut, Report, Phase
        <3>2. /\ timers' = timers /\ wanted' = wanted
              /\ unconfirmed' \subseteq unconfirmed \cup {wanted[t]}
              /\ unconfirmed' # unconfirmed => tick[t] = "sent"
            BY <2>2 DEF StartTick, FetchFails, Refuse, TimeOut, Report
        <3> QED BY <1>1, <2>1, <3>1, <3>2, OneTickMoves
    <2>3. ASSUME NEW t \in Ticks, Fetch(t) PROVE TickTypes'
        <3>1. /\ tick' = [tick EXCEPT ![t] = "sent"] /\ tick \in [Ticks -> Phase]
              /\ wanted' = [wanted EXCEPT ![t] = c + 1] /\ wanted \in [Ticks -> 0..(c + 1)]
              /\ c + 1 \in BatchIds \ {0}
              /\ timers' = timers /\ unconfirmed' = unconfirmed
            BY <1>1, <1>2, <2>3 DEF Fetch, Becomes, TickTypes
        <3>2. wanted' \in [Ticks -> 0..(c + 1)] /\ tick' \in [Ticks -> Phase]
            BY <1>2, <3>1 DEF Phase
        <3>3. \A u \in Ticks \ {t} : tick'[u] = tick[u] /\ wanted'[u] = wanted[u]
            BY <3>1
        <3>4. tick'[t] = "sent" /\ wanted'[t] = c + 1
            BY <3>1
        <3>5. IdsInRange'
            BY <1>1, <3>1, <3>3, <3>4 DEF TickTypes, IdsInRange
        <3>6. OneTickPerBatch'
            BY <1>1, <2>1, <3>3, <3>4 DEF TickTypes, OneTickPerBatch
        <3> QED BY <1>1, <2>1, <3>1, <3>2, <3>5, <3>6 DEF TickTypes
    <2>4. ASSUME NEW b \in BatchIds, Expire(b) PROVE TickTypes'
        BY <1>1, <2>1, <2>4 DEF Expire, TickTypes, IdsInRange, OneTickPerBatch
    <2>5. ASSUME Start \/ Stop PROVE TickTypes'
        BY <1>1, <2>1, <2>5 DEF Start, Stop, TickTypes, IdsInRange, OneTickPerBatch
    <2>6. ASSUME UNCHANGED crank PROVE TickTypes'
        BY <1>1, <2>1, <2>6 DEF crank, TickTypes, IdsInRange, OneTickPerBatch
    <2>7. Others \/ Clock \/ UNCHANGED system => UNCHANGED crank
        BY DEF Others, Clock, system
    <2> QED BY <1>5, <2>1, <2>2, <2>3, <2>4, <2>5, <2>6, <2>7 DEF CrankNext
<1> QED BY <1>3, <1>4, <1>5

LEMMA CrankInitInv == CrankInit => CrankInv
<1>1. SUFFICES ASSUME CrankInit PROVE CrankInv
    OBVIOUS
<1>2. Inv
    BY <1>1, InitInv DEF CrankInit
<1>3. auction_state.batch_counter = 0 /\ DOMAIN results = {}
    BY <1>1 DEF CrankInit, Init
<1>4. CrankTypeOK
    <2>1. 0 \in 0..(auction_state.batch_counter + 1) /\ "idle" \in Phase
        BY <1>3 DEF Phase
    <2>2. /\ tick = [t \in Ticks |-> "idle"] /\ wanted = [t \in Ticks |-> 0]
          /\ timers = {} /\ unconfirmed = {}
        BY <1>1 DEF CrankInit
    <2> QED BY <2>1, <2>2 DEF CrankTypeOK
<1>5. IdsInRange /\ OneTickPerBatch
    BY <1>1 DEF CrankInit, IdsInRange, OneTickPerBatch
<1>6. ResultsInPlace
    BY <1>3 DEF ResultsInPlace
<1> QED BY <1>2, <1>4, <1>5, <1>6 DEF CrankInv

LEMMA CrankStepInv == CrankInv /\ [CrankNext]_system => CrankInv'
<1>1. SUFFICES ASSUME CrankInv, [CrankNext]_system PROVE CrankInv'
    OBVIOUS
<1>2. ResultsInPlace' /\ TickTypes'
    BY <1>1, TickStep
<1>3. Inv /\ [Next]_vars
    BY <1>1, CrankStepIsProgramStep DEF CrankInv
<1>4. Inv'
    BY <1>3, StepInv
<1> QED BY <1>2, <1>4 DEF CrankInv, TickTypes, CrankTypeOK

-----------------------------------------------------------------------------
(* The theorems.                                                           *)

(* No id under way, waited for or not, is ever ahead of the next batch.    *)
THEOREM NoTickIsAhead == CrankSpec => []CrankTypeOK
<1>1. CrankInv => CrankTypeOK
    BY DEF CrankInv
<1> QED BY CrankInitInv, CrankStepInv, <1>1, PTL DEF CrankSpec

(* A tick that is told its transaction succeeded has executed the batch    *)
(* whose id it sent, and no other tick is told so of that batch.           *)
THEOREM TicksReportTheirBatch == CrankSpec => []ConfirmedTicksExecutedTheirBatch
<1>1. CrankInv => ConfirmedTicksExecutedTheirBatch
    <2>1. SUFFICES ASSUME CrankInv, NEW t \in Ticks, tick[t] = "confirmed"
          PROVE  wanted[t] \in Executed /\ results[wanted[t]].batch_id = wanted[t]
        BY DEF CrankInv, OneTickPerBatch, ConfirmedTicksExecutedTheirBatch
    <2>2. wanted[t] \in 1..auction_state.batch_counter /\ auction_state.batch_counter \in Nat
        BY <2>1, BatchTypes DEF CrankInv, OneTickPerBatch
    <2>3. wanted[t] \in DOMAIN results /\ results[wanted[t]].batch_id = wanted[t]
        BY <2>1, <2>2 DEF CrankInv, ResultsInPlace
    <2> QED BY <2>2, <2>3 DEF Executed
<1> QED BY CrankInitInv, CrankStepInv, <1>1, PTL DEF CrankSpec

(* Taking the address of the next result stops the batches for good.       *)
THEOREM TakenAddressIsFinal == CrankSpec => TakenAddressStopsTheCrank
<1>1. ASSUME CrankInv, [CrankNext]_system, Taken, initialized
      PROVE  UNCHANGED auction_state
    <2>1. ASSUME NEW b \in BatchIds, b \in 1..(auction_state.batch_counter + 1),
                 ExecuteBatch(b)
          PROVE  FALSE
        BY <1>1, <2>1, ExecutesTheNext DEF Taken, CrankInv
    <2>2. ASSUME NEW t \in Ticks, Land(t) PROVE FALSE
        <3>1. wanted[t] \in BatchIds \ {0} /\ wanted[t] \in 0..(auction_state.batch_counter + 1)
            BY <1>1, <2>2 DEF Land, CrankInv, CrankTypeOK, IdsInRange
        <3>2. wanted[t] \in 1..(auction_state.batch_counter + 1)
            BY <1>1, <3>1, BatchTypes DEF CrankInv
        <3> QED BY <2>1, <2>2, <3>1, <3>2 DEF Land
    <2>3. ASSUME NEW b \in BatchIds, LandLate(b) PROVE FALSE
        BY <1>1, <2>1, <2>3 DEF LandLate, CrankInv, CrankTypeOK
    <2>4. ~ \E interval \in Intervals : Initialize(interval)
        BY <1>1 DEF Initialize
    <2>5. Trade \/ Tick \/ UNCHANGED vars => UNCHANGED auction_state
        BY DEF Trade, PlaceOrder, CancelAllOrders, PlaceMultipleOrders,
               CancelAllAndPostNewOrders, Tick, accounts, vars
    <2>6. (\E b \in BatchIds : InitializeResult(b)) => UNCHANGED auction_state
        BY DEF InitializeResult
    <2> QED BY <1>1, <2>2, <2>3, <2>4, <2>5, <2>6
            DEF CrankNext, Start, Stop, StartTick, Fetch, FetchFails, Refuse,
                TimeOut, Report, Expire, Others, Clock, system
<1> QED BY CrankInitInv, CrankStepInv, <1>1, PTL DEF CrankSpec, TakenAddressStopsTheCrank

-----------------------------------------------------------------------------
(* The results as a log: every step of the crank and the program is one of *)
(* BatchLog, or leaves the log alone.                                      *)

NotOpened == ~ initialized => auction_state.last_batch_slot = 0

LEMMA StepNotOpened == NotOpened /\ [Next]_vars => NotOpened'
<1> SUFFICES ASSUME NotOpened, [Next]_vars PROVE NotOpened'
    OBVIOUS
<1>1. ASSUME NEW batch_id \in BatchIds, ExecuteBatch(batch_id) PROVE NotOpened'
    BY <1>1 DEF ExecuteBatch, Executable, NotOpened
<1>2. \/ initialized'
      \/ UNCHANGED <<initialized, auction_state>>
      \/ \E batch_id \in BatchIds : ExecuteBatch(batch_id)
    BY DEF Next, Initialize, Trade, PlaceOrder, CancelAllOrders, PlaceMultipleOrders,
           CancelAllAndPostNewOrders, InitializeResult, Tick, accounts, vars
<1> QED BY <1>1, <1>2 DEF NotOpened

ReaderInv == CrankInv /\ ResultsNumberTheBatches /\ NotOpened

(* Executing the next id appends one entry to the log.                     *)
LEMMA ExecutingAppends ==
    ASSUME ReaderInv,
           NEW b \in BatchIds, b \in 1..(auction_state.batch_counter + 1), ExecuteBatch(b)
    PROVE  Log!Batch
<1> DEFINE c == auction_state.batch_counter
<1>1. /\ Inv /\ ResultsInPlace /\ c \in Nat /\ auction_state \in AuctionState
      /\ auction_state.last_batch_slot \in Nat
    BY BatchTypes, StateTypes DEF ReaderInv, CrankInv
<1>2. b = c + 1 /\ b \notin DOMAIN results /\ auction_state'.batch_counter = c + 1
    BY <1>1, ExecutesTheNext
<1>3. /\ results'[c + 1] = BatchResult
      /\ \A d \in DOMAIN results : results'[d] = results[d]
    BY <1>2 DEF ExecuteBatch, WithResult
<1>4. /\ initialized /\ initialized' = initialized /\ slot' = slot
      /\ slot >= auction_state.last_batch_slot + auction_state.batch_interval
      /\ auction_state'.last_batch_slot = slot
      /\ auction_state'.batch_interval = auction_state.batch_interval
    BY <1>1 DEF ExecuteBatch, Executable, BatchDue, AuctionState, clock
<1>5. Entries = [n \in 1..c |-> results[n]] /\ Entries' = [n \in 1..(c + 1) |-> results'[n]]
    BY <1>2 DEF Entries
<1>6. Len(Entries) = c /\ Len(Entries') = c + 1
    BY <1>1, <1>5
<1>7. SubSeq(Entries, 1, c) = SubSeq(Entries', 1, c)
    <2>1. \A n \in 1..c : results'[n] = results[n]
        BY <1>1, <1>3 DEF ResultsInPlace
    <2> QED BY <1>1, <1>5, <2>1
<1>8. Entries'[c + 1] = BatchResult
    BY <1>1, <1>3, <1>5
<1>9. BatchResult.batch_id = c + 1 /\ BatchResult.timestamp = unix_timestamp
    BY DEF BatchResult
<1>10. c > 0 => unix_timestamp >= Entries[c].timestamp
    <2>1. SUFFICES ASSUME c > 0 PROVE unix_timestamp >= results[c].timestamp
        BY <1>1, <1>5
    <2>2. c \in DOMAIN results /\ results[c].batch_id = c
        BY <1>1, <2>1 DEF ResultsInPlace
    <2>3. c \in Executed
        BY <2>1, <2>2 DEF Executed
    <2>4. results[c].timestamp \in Nat /\ unix_timestamp \in Nat
        BY <1>1, <2>2, StateTypes
    <2> QED BY <2>3, <2>4 DEF ReaderInv, ResultsNumberTheBatches
<1>11. Entries # << >> => c > 0
    BY <1>1, <1>5
<1>12. Log!IsPrefix(Entries, Entries')
    BY <1>1, <1>6, <1>7 DEF Log!IsPrefix
<1>13. Log!Last(Entries').batch_id = Len(Entries')
    BY <1>6, <1>8, <1>9 DEF Log!Last
<1>14. Entries # << >> => Log!Last(Entries').timestamp >= Log!Last(Entries).timestamp
    BY <1>6, <1>8, <1>9, <1>10, <1>11 DEF Log!Last
<1> HIDE DEF c
<1> QED BY <1>4, <1>6, <1>12, <1>13, <1>14 DEF Log!Batch

(* So does every step: an entry is appended, or the log stays as it is.    *)
LEMMA ReaderStep ==
    ASSUME ReaderInv, [CrankNext]_system
    PROVE  [Log!Next]_Log!vars
<1> DEFINE c == auction_state.batch_counter
<1>1. /\ Inv /\ ResultsInPlace /\ c \in Nat /\ CrankInv
      /\ IdsInRange /\ CrankTypeOK /\ NotOpened
    BY BatchTypes DEF ReaderInv, CrankInv
<1>2. ASSUME NEW t \in Ticks, Land(t) PROVE Log!Next
    <2>1. wanted[t] \in BatchIds \ {0} /\ wanted[t] \in 0..(c + 1) /\ ExecuteBatch(wanted[t])
        BY <1>1, <1>2 DEF Land, IdsInRange, CrankTypeOK
    <2>2. wanted[t] \in 1..(c + 1)
        BY <1>1, <2>1
    <2> QED BY <2>1, <2>2, ExecutingAppends DEF Log!Next
<1>3. ASSUME NEW b \in BatchIds, LandLate(b) PROVE Log!Next
    <2>1. b \in 1..(c + 1) /\ ExecuteBatch(b)
        BY <1>1, <1>3 DEF LandLate, CrankTypeOK
    <2> QED BY <2>1, ExecutingAppends DEF Log!Next
<1>4. ASSUME NEW interval \in Intervals, Initialize(interval) PROVE Log!Next
    <2>1. /\ ~ initialized /\ initialized' /\ results' = results /\ slot' = slot
          /\ c = 0 /\ auction_state'.batch_counter = 0
          /\ auction_state.last_batch_slot = 0 /\ auction_state'.last_batch_slot = 0
          /\ auction_state'.batch_interval = interval
        BY <1>1, <1>4 DEF Initialize, clock, ResultsInPlace, NotOpened
    <2>2. interval \in Nat
        BY WidthAssumption, ProgramAssumption DEF U64
    <2>3. Entries' = Entries
        BY <2>1 DEF Entries
    <2>4. initialized' = TRUE
        BY <1>4 DEF Initialize
    <2> QED BY <2>1, <2>2, <2>3, <2>4 DEF Log!Next, Log!OpenAuction
<1>5. ASSUME NEW b \in BatchIds, InitializeResult(b) PROVE UNCHANGED Log!vars
    <2>1. /\ b \notin DOMAIN results
          /\ \A d \in DOMAIN results : results'[d] = results[d]
          /\ UNCHANGED <<auction_state, initialized, slot>>
        BY <1>5 DEF InitializeResult, WithResult, clock
    <2>2. Entries' = Entries
        BY <1>1, <2>1 DEF Entries, ResultsInPlace
    <2> QED BY <2>1, <2>2 DEF Log!vars
<1>6. ASSUME Tick PROVE Log!Next
    <2>1. slot' = slot + 1 /\ UNCHANGED <<initialized, auction_state, results>>
        BY <1>6 DEF Tick, accounts
    <2>2. Entries' = Entries
        BY <2>1 DEF Entries
    <2> QED BY <2>1, <2>2 DEF Log!Next, Log!NextSlot
<1>7. ASSUME UNCHANGED <<initialized, auction_state, results, slot>>
      PROVE  UNCHANGED Log!vars
    <2>1. Entries' = Entries
        BY <1>7 DEF Entries
    <2> QED BY <1>7, <2>1 DEF Log!vars
<1>8. Trade \/ UNCHANGED vars => UNCHANGED <<initialized, auction_state, results, slot>>
    BY DEF Trade, PlaceOrder, CancelAllOrders, PlaceMultipleOrders,
           CancelAllAndPostNewOrders, clock, vars
<1> QED BY <1>2, <1>3, <1>4, <1>5, <1>6, <1>7, <1>8
        DEF CrankNext, Start, Stop, StartTick, Fetch, FetchFails, Refuse,
            TimeOut, Report, Expire, Others, Clock, system

(* Whoever reads the results at the ids up to the counter sees a log that  *)
(* is only ever appended to, whatever the ticks do.                        *)
THEOREM ReadersSeeTheLog == CrankSpec => ReadersSeeALog
<1>1. CrankInit => Log!Init /\ ResultsNumberTheBatches /\ NotOpened
    <2>1. SUFFICES ASSUME CrankInit PROVE Log!Init /\ ResultsNumberTheBatches /\ NotOpened
        OBVIOUS
    <2>2. /\ initialized = FALSE /\ results = [b \in {} |-> 0] /\ slot = 0
          /\ auction_state.batch_counter = 0 /\ auction_state.last_batch_slot = 0
          /\ auction_state.batch_interval = 0
        BY <2>1 DEF CrankInit, Init
    <2>3. Entries = << >>
        BY <2>2 DEF Entries
    <2>4. Executed = {}
        BY <2>2 DEF Executed
    <2> QED BY <2>2, <2>3, <2>4 DEF Log!Init, ResultsNumberTheBatches, NotOpened
<1>2. ReaderInv /\ [CrankNext]_system => ReaderInv'
    <2>1. SUFFICES ASSUME ReaderInv, [CrankNext]_system PROVE ReaderInv'
        OBVIOUS
    <2>2. CrankInv' /\ [Next]_vars /\ Inv
        BY <2>1, CrankStepInv, CrankStepIsProgramStep DEF ReaderInv, CrankInv
    <2> QED BY <2>1, <2>2, StepLog, StepNotOpened DEF ReaderInv
<1>3. ReaderInv /\ [CrankNext]_system => [Log!Next]_Log!vars
    BY ReaderStep
<1>4. CrankInit => ReaderInv
    BY <1>1, CrankInitInv DEF ReaderInv
<1> QED BY <1>1, <1>2, <1>3, <1>4, PTL DEF CrankSpec, ReadersSeeALog, Log!Spec
=============================================================================
