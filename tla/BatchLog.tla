----------------------------- MODULE BatchLog -----------------------------
(***************************************************************************)
(* What the program and its cranks promise those who read the results: a   *)
(* log that only grows, one entry for each batch in the order they were    *)
(* executed, in which nothing is rewritten; batches at least an interval   *)
(* apart.  Nothing is said of result accounts, their addresses, or who     *)
(* executes a batch.                                                       *)
(***************************************************************************)
EXTENDS Integers, Sequences, SequencesExt

VARIABLES
    open,           \* the auction exists
    batch_interval, \* the slots from one batch to the next
    log,            \* the results of the batches so far
    last_slot,      \* the slot of the last batch
    now             \* the current slot

vars == <<open, batch_interval, log, last_slot, now>>

Init ==
    /\ open = FALSE
    /\ batch_interval = 0
    /\ log = << >>
    /\ last_slot = 0
    /\ now = 0

OpenAuction ==
    /\ ~ open
    /\ open' = TRUE
    /\ batch_interval' \in Nat
    /\ UNCHANGED <<log, last_slot, now>>

(* The n-th batch adds an entry numbered n, not earlier than the last one. *)
Batch ==
    /\ open
    /\ now >= last_slot + batch_interval
    /\ last_slot' = now
    /\ Len(log') = Len(log) + 1
    /\ IsPrefix(log, log')
    /\ Last(log').batch_id = Len(log')
    /\ log # << >> => Last(log').timestamp >= Last(log).timestamp
    /\ UNCHANGED <<open, batch_interval, now>>

NextSlot ==
    /\ now' = now + 1
    /\ UNCHANGED <<open, batch_interval, log, last_slot>>

Next == OpenAuction \/ Batch \/ NextSlot

Spec == Init /\ [][Next]_vars
=============================================================================
