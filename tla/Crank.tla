------------------------------- MODULE Crank -------------------------------
(***************************************************************************)
(* The crank service (crank.service.ts) and the program it drives.  A tick *)
(* is one execution of the callback of setInterval: it fetches the counter,*)
(* sends execute_batch for the next id, waits, and fetches the result.     *)
(* setInterval does not wait for a tick to end before it starts another,   *)
(* and any number of cranks may run (anyone can crank), so several ticks   *)
(* are under way; whose they are makes no difference.                      *)
(* The ticks are the only callers of execute_batch here, unlike in Program.*)
(***************************************************************************)
EXTENDS ProgramProperties

CONSTANT Ticks      \* as many ticks as may be under way at a time

VARIABLES
    timers,         \* the intervals that fire: the one that stop() can clear,
                    \* and those it has no handle of any more
    tick,           \* what each tick is doing
    wanted,         \* the batch id each tick has sent last, 0 before the first
    unconfirmed     \* ids of transactions in the network that no tick waits for

crank == <<timers, tick, wanted, unconfirmed>>
system == <<vars, crank>>

Phase == {"idle", "fetching", "sent", "confirmed"}

CrankInit ==
    /\ Init
    /\ timers = {}
    /\ tick = [t \in Ticks |-> "idle"]
    /\ wanted = [t \in Ticks |-> 0]
    /\ unconfirmed = {}

(* A second start overwrites the only handle of the interval of the first. *)
Start ==
    /\ timers' = {"held"} \cup {"lost" : timer \in timers}
    /\ UNCHANGED <<vars, tick, wanted, unconfirmed>>

(* The ticks under way go on.                                              *)
Stop ==
    /\ "held" \in timers
    /\ timers' = timers \ {"held"}
    /\ UNCHANGED <<vars, tick, wanted, unconfirmed>>

-----------------------------------------------------------------------------
(* One tick.                                                               *)

Becomes(t, phase) == tick' = [tick EXCEPT ![t] = phase]

StartTick(t) ==
    /\ timers # {}
    /\ tick[t] = "idle"
    /\ Becomes(t, "fetching")
    /\ UNCHANGED <<vars, timers, wanted, unconfirmed>>

(* Two mistakes: an id is kept for the ticks to come; and the batches      *)
(* other ticks have sent are counted as executed.                          *)
FetchOnce(t) ==
    /\ tick[t] = "fetching"
    /\ initialized
    /\ auction_state.batch_counter + 1 \in BatchIds
    /\ Becomes(t, "sent")
    /\ wanted' = [wanted EXCEPT ![t] =
                    IF @ > 0 THEN @ ELSE auction_state.batch_counter + 1]
    /\ UNCHANGED <<vars, timers, unconfirmed>>
FetchAhead(t) ==
    LET others == {u \in Ticks : tick[u] = "sent"}
        next == auction_state.batch_counter + 1 + Cardinality(others)
    IN  /\ tick[t] = "fetching"
        /\ initialized
        /\ next \in BatchIds
        /\ Becomes(t, "sent")
        /\ wanted' = [wanted EXCEPT ![t] = next]
        /\ UNCHANGED <<vars, timers, unconfirmed>>

(* The counter is read here; the transaction that uses it lands later.     *)
(* Ids outside BatchIds are the bound of the exploration.                  *)
Fetch(t) ==
    /\ tick[t] = "fetching"
    /\ initialized
    /\ auction_state.batch_counter + 1 \in BatchIds
    /\ Becomes(t, "sent")
    /\ wanted' = [wanted EXCEPT ![t] = auction_state.batch_counter + 1]
    /\ UNCHANGED <<vars, timers, unconfirmed>>

(* The account does not exist yet, or the request fails: caught and logged.*)
FetchFails(t) ==
    /\ tick[t] = "fetching"
    /\ Becomes(t, "idle")
    /\ UNCHANGED <<vars, timers, wanted, unconfirmed>>

Land(t) ==
    /\ tick[t] = "sent"
    /\ ExecuteBatch(wanted[t])
    /\ Becomes(t, "confirmed")
    /\ UNCHANGED <<timers, wanted, unconfirmed>>

(* The program refuses: too early, or another tick has executed the batch. *)
Refuse(t) ==
    /\ tick[t] = "sent"
    /\ ~ Executable(wanted[t])
    /\ Becomes(t, "idle")
    /\ UNCHANGED <<vars, timers, wanted, unconfirmed>>

(* Waiting for the confirmation times out; the transaction may still land. *)
TimeOut(t) ==
    /\ tick[t] = "sent"
    /\ Becomes(t, "idle")
    /\ unconfirmed' = unconfirmed \cup {wanted[t]}
    /\ UNCHANGED <<vars, timers, wanted>>

(* The result is fetched and logged, or fetching it fails.                 *)
Report(t) ==
    /\ tick[t] = "confirmed"
    /\ Becomes(t, "idle")
    /\ UNCHANGED <<vars, timers, wanted, unconfirmed>>

-----------------------------------------------------------------------------
(* Everything else.                                                        *)

LandLate(batch_id) ==
    /\ batch_id \in unconfirmed
    /\ ExecuteBatch(batch_id)
    /\ unconfirmed' = unconfirmed \ {batch_id}
    /\ UNCHANGED <<timers, tick, wanted>>

(* The transaction is refused when it lands, or too old to land.           *)
Expire(batch_id) ==
    /\ batch_id \in unconfirmed
    /\ unconfirmed' = unconfirmed \ {batch_id}
    /\ UNCHANGED <<vars, timers, tick, wanted>>

Others ==
    /\ \/ \E interval \in Intervals : Initialize(interval)
       \/ Trade
       \/ \E batch_id \in BatchIds : InitializeResult(batch_id)
    /\ UNCHANGED crank
Clock == Tick /\ UNCHANGED crank

CrankNext ==
    \/ Start
    \/ Stop
    \/ \E t \in Ticks :
          \/ StartTick(t) \/ Fetch(t) \/ FetchFails(t)
          \/ Land(t) \/ Refuse(t) \/ TimeOut(t) \/ Report(t)
    \/ \E batch_id \in BatchIds : LandLate(batch_id) \/ Expire(batch_id)
    \/ Others
    \/ Clock

(* The interval starts ticks and a tick that has been answered goes on.    *)
(* The network may fail again and again, but not forever: a fetch that is  *)
(* repeated is answered, a transaction that is repeated lands.             *)
Fairness ==
    /\ WF_system(Clock)
    /\ \A t \in Ticks :
          /\ WF_system(StartTick(t) \/ Refuse(t) \/ Report(t))
          /\ SF_system(Fetch(t))
          /\ SF_system(Land(t))

CrankSpec == CrankInit /\ [][CrankNext]_system
FairCrankSpec == CrankSpec /\ Fairness
=============================================================================
