--------------------------- MODULE UsageStatistics ---------------------------
(***************************************************************************)
(* UsageStatisticsGravitationalField: the counters of calls per endpoint   *)
(* and day, one instance for all request handlers, loaded from             *)
(* history.json when it is first used and written there at most once per   *)
(* BackUpInterval.  A handler counts its call under a lock; the clock, the *)
(* other handlers and crashes come between its steps.                      *)
(***************************************************************************)
EXTENDS Integers, FiniteSets, Functions, SequencesExt

CONSTANTS
    Threads,        \* handlers of requests
    Endpoints,      \* one history for each
    Reporting,      \* the endpoint that returns the statistics
    BackUpInterval,
    DayLength,      \* time units of a day
    Faults,         \* what may fail, see FaultKinds
    MaxTime,        \* bound of the clock
    MaxCalls,       \* bound of the calls counted in all
    NoThread, NoFile, TornFile, NoInstance

(***************************************************************************)
(* write  the directory is missing or File.WriteAllText throws before it   *)
(*        has truncated the file                                           *)
(* torn   File.WriteAllText stops half-way, and the file cannot be parsed  *)
(***************************************************************************)
FaultKinds == {"write", "torn"}

ASSUME StatisticsAssumption ==
    /\ BackUpInterval \in Nat /\ MaxTime \in Nat /\ MaxCalls \in Nat
    /\ DayLength \in Nat \ {0}
    /\ Reporting \in Endpoints /\ NoThread \notin Threads
    /\ Faults \subseteq FaultKinds
    /\ IsFiniteSet(Threads) /\ IsFiniteSet(Endpoints)

VARIABLES
    now,        \* DateTime.UtcNow
    instance,   \* instance_
    file,       \* history.json
    lock,       \* the thread that holds lock_
    pc,         \* where each thread is
    endpoint,   \* the history each thread increments
    report,     \* the answer each GET of the statistics is writing
    known,      \* history: the counts when that GET had counted itself
    expected,   \* history: the counts that the running process has to have
    latest,     \* history: when a call was last counted
    failed      \* history: whether the last write of the process failed

world == <<now, file>>
ghosts == <<expected, latest>>
reports == <<report, known>>
vars == <<world, instance, lock, pc, endpoint, reports, ghosts, failed>>

Never == -BackUpInterval - 1       \* DateTime.MinValue: a backup is due
Day(time) == time \div DayLength   \* DateTime.Date

CountPerDay == [date : 0 .. Day(MaxTime), count : 1 .. MaxCalls]
NewInstance == [lastSaved |-> Never, history |-> [e \in Endpoints |-> <<>>]]

\* Any instance, without the bounds of the clock and the calls.
Entries == [date : Int, count : Int]
Data == [lastSaved : Int, history : [Endpoints -> Seq(Entries)]]
ASSUME SentinelAssumption ==
    NoInstance \notin Data /\ NoFile \notin Data /\ TornFile \notin Data

\* The calls of each endpoint, over all days.
Totals(data) ==
    [e \in Endpoints |-> SumFunction([i \in DOMAIN data.history[e] |-> data.history[e][i].count])]

\* How far a history has been written to the answer, and what calls it says.
Unread == [e \in Endpoints |-> [entries |-> 0, calls |-> 0, whole |-> FALSE]]
NoCounts == [e \in Endpoints |-> 0]

\* Load, or a new instance where there is no file, or none that parses.
Loaded == IF file \in {NoFile, TornFile} THEN NewInstance ELSE file

Init ==
    /\ now = 0
    /\ instance = NoInstance
    /\ file = NoFile
    /\ lock = NoThread
    /\ pc = [t \in Threads |-> "idle"]
    /\ endpoint \in [Threads -> Endpoints]
    /\ report = [t \in Threads |-> Unread]
    /\ known = [t \in Threads |-> NoCounts]
    /\ expected = NoCounts
    /\ latest = Never
    /\ failed = FALSE

-----------------------------------------------------------------------------
Goto(t, step) == pc' = [pc EXCEPT ![t] = step]

\* Variant: no lock.
AcquireNothing(t) == UNCHANGED lock

\* Entering and leaving the lock statement of IncrementHistory.
AcquireLock(t) == lock = NoThread /\ lock' = t
ReleaseLock == lock' = NoThread

\* Bound: the calls counted and in hand.
CallsLeft ==
    SumFunction(expected) + Cardinality({t \in Threads : pc[t] # "idle"}) < MaxCalls

\* A request comes to an endpoint, whose controller increments its counter.
Call(t) ==
    /\ pc[t] = "idle"
    /\ CallsLeft
    /\ \E e \in Endpoints : endpoint' = [endpoint EXCEPT ![t] = e]
    /\ Goto(t, "instance")
    /\ UNCHANGED <<world, instance, lock, reports, ghosts, failed>>

\* The first look of Instance at instance_, without the lock.
LookForInstance(t) ==
    /\ pc[t] = "instance"
    /\ IF instance = NoInstance THEN Goto(t, "load") ELSE Goto(t, "lock")
    /\ UNCHANGED <<world, instance, lock, endpoint, reports, ghosts, failed>>

\* Variant: no second look under the lock.
LoadInstanceAgain(t) ==
    /\ pc[t] = "load"
    /\ lock = NoThread
    /\ instance' = Loaded
    /\ Goto(t, "lock")
    /\ UNCHANGED <<world, lock, endpoint, reports, ghosts, failed>>

\* Variant: the file is not read.
LoadNothing(t) ==
    /\ pc[t] = "load"
    /\ lock = NoThread
    /\ instance' = IF instance = NoInstance THEN NewInstance ELSE instance
    /\ Goto(t, "lock")
    /\ UNCHANGED <<world, lock, endpoint, reports, ghosts, failed>>

\* The body of the lock statement in Instance, with its second look.
LoadInstance(t) ==
    /\ pc[t] = "load"
    /\ lock = NoThread
    /\ instance' = IF instance = NoInstance THEN Loaded ELSE instance
    /\ Goto(t, "lock")
    /\ UNCHANGED <<world, lock, endpoint, reports, ghosts, failed>>

\* IncrementHistory takes the lock.
LockHistory(t) ==
    /\ pc[t] = "lock"
    /\ AcquireLock(t)
    /\ Goto(t, "compare")
    /\ UNCHANGED <<world, instance, endpoint, reports, ghosts, failed>>

Counted(t) ==
    /\ expected' = [expected EXCEPT ![endpoint[t]] = @ + 1]
    /\ latest' = now

\* Increment on a day that has its entry, or the look that finds none.
CompareDate(t) ==
    /\ pc[t] = "compare"
    /\ LET h == instance.history[endpoint[t]]
           last == Len(h) IN
       IF last = 0 \/ h[last].date < Day(now)
       THEN /\ Goto(t, "add")
            /\ UNCHANGED <<instance, ghosts>>
       ELSE /\ instance' = [instance EXCEPT !.history[endpoint[t]][last].count = @ + 1]
            /\ Counted(t)
            /\ Goto(t, "backup")
    /\ UNCHANGED <<world, lock, endpoint, reports, failed>>

\* Variant: a new day begins with a count of zero.
AddDateWithoutCall(t) ==
    /\ pc[t] = "add"
    /\ instance' = [instance EXCEPT !.history[endpoint[t]] =
                        Append(@, [date |-> Day(now), count |-> 0])]
    /\ Counted(t)
    /\ Goto(t, "backup")
    /\ UNCHANGED <<world, lock, endpoint, reports, failed>>

\* Variant: the entry of a new day is incremented like that of an old one.
AddDateThenCompare(t) ==
    /\ pc[t] = "add"
    /\ instance' = [instance EXCEPT !.history[endpoint[t]] =
                        Append(@, [date |-> Day(now), count |-> 1])]
    /\ Counted(t)
    /\ Goto(t, "compare")
    /\ UNCHANGED <<world, lock, endpoint, reports, failed>>

\* Increment on a new day, the date of which it asks for once more.
AddDate(t) ==
    /\ pc[t] = "add"
    /\ instance' = [instance EXCEPT !.history[endpoint[t]] =
                        Append(@, [date |-> Day(now), count |-> 1])]
    /\ Counted(t)
    /\ Goto(t, "backup")
    /\ UNCHANGED <<world, lock, endpoint, reports, failed>>

\* Variant: every call postpones the backup.
StampAlways(t) ==
    /\ pc[t] = "backup"
    /\ instance' = [instance EXCEPT !.lastSaved = now]
    /\ IF now <= instance.lastSaved + BackUpInterval
       THEN Goto(t, "unlock")
       ELSE Goto(t, "write")
    /\ UNCHANGED <<world, lock, endpoint, reports, ghosts, failed>>

\* ManageBackup up to the write: LastSaved says that it has been done.
StampBackup(t) ==
    /\ pc[t] = "backup"
    /\ IF now <= instance.lastSaved + BackUpInterval
       THEN Goto(t, "unlock") /\ UNCHANGED instance
       ELSE Goto(t, "write") /\ instance' = [instance EXCEPT !.lastSaved = now]
    /\ UNCHANGED <<world, lock, endpoint, reports, ghosts, failed>>

\* File.WriteAllText of the serialised instance; exceptions are swallowed.
WriteBackup(t) ==
    /\ pc[t] = "write"
    /\ \/ file' = instance /\ failed' = FALSE
       \/ "write" \in Faults /\ failed' = TRUE /\ UNCHANGED file
       \/ "torn" \in Faults /\ failed' = TRUE /\ file' = TornFile
    /\ Goto(t, "unlock")
    /\ UNCHANGED <<now, instance, lock, endpoint, reports, ghosts>>

\* The lock is left.  The GET of the statistics goes on without it.
UnlockHistory(t) ==
    /\ pc[t] = "unlock"
    /\ ReleaseLock
    /\ IF endpoint[t] = Reporting
       THEN Goto(t, "report") /\ known' = [known EXCEPT ![t] = Totals(instance)]
       ELSE Goto(t, "idle") /\ UNCHANGED known
    /\ UNCHANGED <<world, instance, endpoint, report, ghosts, failed>>

(***************************************************************************)
(* Ok(Instance) is serialised after the handler has returned, without the  *)
(* lock: each list entry by entry, its length asked for anew each time.    *)
(* An entry that another thread is adding may be seen half-made, with or   *)
(* without its call.                                                       *)
(***************************************************************************)
BeingAdded(e) == \E u \in Threads : pc[u] = "add" /\ endpoint[u] = e

\* Variant: the last entry of a list is left out.
SerialiseEntryButLast(t, e) ==
    /\ pc[t] = "report" /\ ~report[t][e].whole
    /\ LET h == instance.history[e]
           next == report[t][e].entries + 1
       IN  report' = IF next < Len(h)
                     THEN [report EXCEPT ![t][e].entries = next, ![t][e].calls = @ + h[next].count]
                     ELSE [report EXCEPT ![t][e].whole = TRUE]
    /\ UNCHANGED <<world, instance, lock, pc, endpoint, known, ghosts, failed>>

SerialiseEntry(t, e) ==
    /\ pc[t] = "report" /\ ~report[t][e].whole
    /\ LET h == instance.history[e]
           next == report[t][e].entries + 1
       IN  \/ /\ next <= Len(h)
              /\ report' = [report EXCEPT ![t][e].entries = next, ![t][e].calls = @ + h[next].count]
           \/ /\ next = Len(h) + 1
              /\ BeingAdded(e)
              /\ \E seen \in {0, 1} :
                    report' = [report EXCEPT ![t][e].entries = next, ![t][e].calls = @ + seen]
           \/ /\ next > Len(h)
              /\ report' = [report EXCEPT ![t][e].whole = TRUE]
    /\ UNCHANGED <<world, instance, lock, pc, endpoint, known, ghosts, failed>>

\* The answer is written and sent.
SendReport(t) ==
    /\ pc[t] = "report"
    /\ \A e \in Endpoints : report[t][e].whole
    /\ Goto(t, "idle")
    /\ report' = [report EXCEPT ![t] = Unread]
    /\ known' = [known EXCEPT ![t] = NoCounts]
    /\ UNCHANGED <<world, instance, lock, endpoint, ghosts, failed>>

-----------------------------------------------------------------------------
Tick ==
    /\ now < MaxTime
    /\ now' = now + 1
    /\ UNCHANGED <<file, instance, lock, pc, endpoint, reports, ghosts, failed>>

\* The process stops and starts again; the file stays.
Restart ==
    /\ instance # NoInstance
    /\ instance' = NoInstance
    /\ lock' = NoThread
    /\ pc' = [t \in Threads |-> "idle"]
    /\ report' = [t \in Threads |-> Unread]
    /\ known' = [t \in Threads |-> NoCounts]
    /\ expected' = Totals(Loaded)
    /\ failed' = FALSE
    /\ UNCHANGED <<world, endpoint, latest>>

CountingStep(t) ==
    \/ LookForInstance(t)
    \/ LoadInstance(t)
    \/ LockHistory(t)
    \/ CompareDate(t)
    \/ AddDate(t)
    \/ StampBackup(t)
    \/ WriteBackup(t)
    \/ UnlockHistory(t)
    \/ \E e \in Endpoints : SerialiseEntry(t, e)
    \/ SendReport(t)

Next ==
    \/ \E t \in Threads : Call(t) \/ CountingStep(t)
    \/ Tick
    \/ Restart

Spec == Init /\ [][Next]_vars

-----------------------------------------------------------------------------
\* What a request has done, as its caller sees it, and the counters that the
\* next one will find.
Uncounted == {t \in Threads : pc[t] \in {"instance", "load", "lock", "compare", "add"}}
Phase(t) == IF pc[t] = "idle" THEN "idle" ELSE IF t \in Uncounted THEN "called" ELSE "counted"
Live == IF instance = NoInstance THEN Loaded ELSE instance

Counter == INSTANCE CallCounter WITH
    counted <- Totals(Live), kept <- Totals(Loaded),
    phase <- [t \in Threads |-> Phase(t)], MayTear <- "torn" \in Faults

(***************************************************************************)
(* The singleton, its lock and its file together are one counter: every    *)
(* request is counted once, for its own endpoint, before it is answered,   *)
(* and what the file keeps is what the counters were at some moment.       *)
(***************************************************************************)
CountsEachCallOnce == Counter!Spec

-----------------------------------------------------------------------------
Statistics == [lastSaved : {Never} \cup 0 .. MaxTime, history : [Endpoints -> Seq(CountPerDay)]]

\* Every variable keeps to the values its C# counterpart can have.
TypeOK ==
    /\ now \in 0 .. MaxTime
    /\ instance \in Statistics \cup {NoInstance}
    /\ file \in Statistics \cup {NoFile, TornFile}
    /\ lock \in Threads \cup {NoThread}
    /\ pc \in [Threads -> {"idle", "instance", "load", "lock", "compare", "add",
                           "backup", "write", "unlock", "report"}]
    /\ endpoint \in [Threads -> Endpoints]
    /\ report \in [Threads -> [Endpoints ->
            [entries : 0 .. MaxCalls, calls : 0 .. MaxCalls, whole : BOOLEAN]]]
    /\ known \in [Threads -> [Endpoints -> 0 .. MaxCalls]]
    /\ expected \in [Endpoints -> 0 .. MaxCalls]
    /\ latest \in {Never} \cup 0 .. MaxTime
    /\ failed \in BOOLEAN

\* No call is lost or counted twice: whichever threads find no instance and
\* load it, and however their increments interleave, the counters are what
\* was loaded and every call since.
EveryCallCounted == instance # NoInstance => Totals(instance) = expected

\* A history has one entry a day, in the order of the days, even if midnight
\* passes between the comparison with the date and the entry.
OneEntryPerDay ==
    instance # NoInstance =>
        \A e \in Endpoints : LET h == instance.history[e] IN
            \A i, j \in DOMAIN h : i < j => h[i].date < h[j].date

\* What history.json keeps is never replaced by less: whatever failed
\* before, a write brings at least the counts of the file it replaces,
\* unless it tears it.
FileNeverFallsBack ==
    [][file' # TornFile => \A e \in Endpoints : Totals(Loaded)[e] <= Totals(Loaded)'[e]]_vars

(***************************************************************************)
(* An answer of the statistics endpoint, whose lists change while they are *)
(* written to it without the lock, is never too small and never too large: *)
(* a history in it has the calls counted when the GET had counted itself,  *)
(* itself among them, and none that was not made when the answer was done. *)
(***************************************************************************)
ReportsAreBracketed ==
    \A t \in Threads, e \in Endpoints :
        pc[t] = "report" /\ report[t][e].whole =>
            /\ known[t][e] <= report[t][e].calls
            /\ report[t][e].calls <= Totals(instance)[e] + (IF BeingAdded(e) THEN 1 ELSE 0)

\* Unless the last write failed, what a crash would lose are calls made
\* within BackUpInterval of the last write, however long the service has run.
OnlyRecentCallsUnsaved ==
    instance # NoInstance /\ lock = NoThread /\ ~failed =>
        \/ Totals(instance) = Totals(Loaded)
        \/ latest <= Loaded.lastSaved + BackUpInterval

=============================================================================
