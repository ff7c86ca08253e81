-------------------------- MODULE DatabaseCleaner --------------------------
(***************************************************************************)
(* DatabaseCleanerService: a hosted service that wakes once a day and      *)
(* deletes the calculation orders whose LastModificationDate is older than *)
(* the retirement time.  It shares nothing with the handlers but the       *)
(* database.  The clock counts in units far longer than a transaction can  *)
(* last, so that it stands still while one is open.                        *)
(***************************************************************************)
EXTENDS SqliteStore

VARIABLES
    clock,      \* DateTimeOffset.UtcNow
    cleaner,    \* "asleep" in Task.Delay, or "cleaning"
    threshold   \* formattedUtcNowRebase

cleanerVars == <<cleaner, threshold>>

InitCleaner ==
    /\ clock = 0
    /\ cleaner = "asleep"
    /\ threshold = 0

Tick ==
    /\ clock < MaxClock
    /\ txn = NoTxn
    /\ clock' = clock + 1
    /\ UNCHANGED <<storeVars, handlerVars, cleanerVars>>

\* The loop wakes and computes the threshold of its DELETE.
WakeCleaner ==
    /\ cleaner = "asleep"
    /\ cleaner' = "cleaning"
    /\ threshold' = clock - RetireAfter
    /\ UNCHANGED <<storeVars, handlerVars, clock>>

\* Variant: a missing date is stored as NULL, which no comparison selects.
CleanDatabaseSkipsNull ==
    /\ cleaner = "cleaning"
    /\ txn = NoTxn
    /\ orders' = [i \in OrderIds |->
                    IF /\ orders[i] # NoRow
                       /\ orders[i].modified # NoDate
                       /\ OlderThan(orders[i].modified, threshold)
                    THEN NoRow ELSE orders[i]]
    /\ cleaner' = "asleep"
    /\ threshold' = 0
    /\ UNCHANGED <<fields, txn, handlerVars, clock>>

\* The DELETE, a transaction of its own: it needs the write lock.
CleanDatabase ==
    /\ cleaner = "cleaning"
    /\ txn = NoTxn
    /\ orders' = [i \in OrderIds |->
                    IF orders[i] # NoRow /\ OlderThan(orders[i].modified, threshold)
                    THEN NoRow ELSE orders[i]]
    /\ cleaner' = "asleep"
    /\ threshold' = 0
    /\ UNCHANGED <<fields, txn, handlerVars, clock>>

\* Variant: the exception of the DELETE ends the loop.
CleanFailsForGood ==
    /\ cleaner = "cleaning"
    /\ "statement" \in Faults \/ ("lock" \in Faults /\ txn # NoTxn)
    /\ cleaner' = "ended"
    /\ UNCHANGED <<storeVars, handlerVars, clock, threshold>>

\* The DELETE times out or throws: it is logged, and tried again next day.
CleanFails ==
    /\ cleaner = "cleaning"
    /\ "statement" \in Faults \/ ("lock" \in Faults /\ txn # NoTxn)
    /\ cleaner' = "asleep"
    /\ threshold' = 0
    /\ UNCHANGED <<storeVars, handlerVars, clock>>

=============================================================================
