---------------------- MODULE UsageStatistics_proofs ----------------------
(***************************************************************************)
(* For any number of threads, endpoints, calls and days, and whatever      *)
(* writes fail: a history has one entry a day, only recent calls are not   *)
(* in the file yet, every call is counted once, the file never falls       *)
(* back, an answer of the statistics is neither too small nor too large,   *)
(* and all of it implements CallCounter.                                   *)
(*                                                                         *)
(* The date of a new entry is asked for after the comparison that found    *)
(* none of that date, so the order needs three facts at once: the lock     *)
(* keeps other threads away from a thread that is about to add, no entry   *)
(* is of a later day than today, and the last entry of the list it adds to *)
(* is of an earlier one.                                                   *)
(***************************************************************************)
EXTENDS UsageStatistics, SumTheorems, TLAPS

\* Days follow one another as the time does.
LEMMA DayIsNat == ASSUME NEW a \in Nat PROVE Day(a) \in Nat
  BY StatisticsAssumption DEF Day

LEMMA ProductGrows ==
    ASSUME NEW d \in Nat \ {0}, NEW p \in Int, NEW q \in Int, p > q
    PROVE  d * p >= d * q + d
<1>1. PICK k \in Nat : p = q + 1 + k
  <2>1. p - q - 1 \in Nat /\ p = q + 1 + (p - q - 1)
    OBVIOUS
  <2> QED
    BY <2>1
<1>2. d * p = d * q + d + d * k
  BY <1>1
<1>3. d * k >= 0 /\ {d * p, d * q, d * k} \subseteq Int
  OBVIOUS
<1> QED
  BY <1>2, <1>3

LEMMA DayGrows == ASSUME NEW a \in Nat, NEW b \in Nat, a <= b PROVE Day(a) <= Day(b)
<1> DEFINE D == DayLength
<1>1. D \in Nat \ {0}
  BY StatisticsAssumption
<1> HIDE DEF D
<1>2. D * (a \div D) <= a /\ a < D * (a \div D) + D
  BY <1>1
<1>3. D * (b \div D) <= b /\ b < D * (b \div D) + D
  BY <1>1
<1>4. a \div D \in Int /\ b \div D \in Int
  BY <1>1
<1>5. SUFFICES ASSUME a \div D > b \div D PROVE FALSE
  BY <1>4 DEF Day, D
<1>6. D * (a \div D) >= D * (b \div D) + D
  BY <1>1, <1>4, <1>5, ProductGrows
<1>7. D * (a \div D) \in Int /\ D * (b \div D) \in Int
  BY <1>1, <1>4
<1> QED
  BY <1>1, <1>2, <1>3, <1>6, <1>7

-----------------------------------------------------------------------------
\* One list: its days ascend, and the last is today at most.
Dated(h, today) ==
    /\ \A i, j \in DOMAIN h : i < j => h[i].date < h[j].date
    /\ \A i \in DOMAIN h : h[i].date <= today

Sound(data, today) == data \in Data /\ \A e \in Endpoints : Dated(data.history[e], today)

\* A thread is inside the lock statement of IncrementHistory.
Inside == {"compare", "add", "backup", "write", "unlock"}

Kinds ==
    /\ now \in Nat
    /\ pc \in [Threads -> Inside \cup {"idle", "instance", "load", "lock", "report"}]
    /\ endpoint \in [Threads -> Endpoints]

\* The lock is held by the thread that is inside, and by no other.
Exclusive == \A t \in Threads : pc[t] \in Inside => lock = t

\* Whoever is past Instance has found or loaded one.
HasInstance ==
    \A t \in Threads : pc[t] \in Inside \cup {"lock", "report"} => instance # NoInstance

\* A thread about to add an entry has seen that there is none of this day.
NoneToday ==
    \A t \in Threads : pc[t] = "add" =>
        LET h == instance.history[endpoint[t]]
        IN  Len(h) = 0 \/ h[Len(h)].date < Day(now)

IInv ==
    /\ Kinds
    /\ Exclusive
    /\ HasInstance
    /\ NoneToday
    /\ instance # NoInstance => Sound(instance, Day(now))
    /\ file \notin {NoFile, TornFile} => Sound(file, Day(now))

LEMMA NeverIsInt == Never \in Int
  BY StatisticsAssumption DEF Never

\* The instance that a first call makes without a file has empty histories.
LEMMA NewInstanceIsSound == ASSUME Kinds PROVE  Sound(NewInstance, Day(now))
<1>1. \A e \in Endpoints : NewInstance.history[e] = <<>>
  BY DEF NewInstance
<1>2. NewInstance \in Data
  BY NeverIsInt DEF NewInstance, Data
<1> QED
  BY <1>1, <1>2 DEF Sound, Dated

LEMMA LoadedIsSound == ASSUME IInv PROVE  Sound(Loaded, Day(now))
<1>1. CASE file \in {NoFile, TornFile}
  BY <1>1, NewInstanceIsSound DEF IInv, Loaded
<1>2. CASE file \notin {NoFile, TornFile}
  BY <1>2 DEF IInv, Loaded
<1> QED
  BY <1>1, <1>2

\* What a history holds.
LEMMA EntryKinds ==
    ASSUME NEW h \in Seq(Entries)
    PROVE  /\ Len(h) \in Nat /\ DOMAIN h = 1 .. Len(h)
           /\ \A i \in 1 .. Len(h) :
                 h[i] \in Entries /\ h[i].date \in Int /\ h[i].count \in Int
<1>1. Len(h) \in Nat /\ DOMAIN h = 1 .. Len(h) /\ \A i \in 1 .. Len(h) : h[i] \in Entries
  OBVIOUS
<1> QED
  BY <1>1 DEF Entries

\* Days that are past stay past.
LEMMA SoundStays ==
    ASSUME NEW data, NEW today \in Int, NEW later \in Int, today <= later,
           Sound(data, today)
    PROVE  Sound(data, later)
<1> SUFFICES ASSUME NEW e \in Endpoints
             PROVE  Dated(data.history[e], later)
  BY DEF Sound
<1>1. data.history[e] \in Seq(Entries) /\ Dated(data.history[e], today)
  BY DEF Sound, Data
<1>2. ASSUME NEW i \in DOMAIN data.history[e]
      PROVE  data.history[e][i].date <= later
  <2>1. data.history[e][i].date \in Int /\ data.history[e][i].date <= today
    BY <1>1, EntryKinds DEF Dated
  <2> QED
    BY <2>1
<1> QED
  BY <1>1, <1>2 DEF Dated

\* Another call of a day that has its entry.
LEMMA SameDate ==
    ASSUME NEW h \in Seq(Entries), NEW today \in Int, Dated(h, today),
           NEW last \in DOMAIN h, NEW n \in Int
    PROVE  LET g == [h EXCEPT ![last].count = n]
           IN  g \in Seq(Entries) /\ Dated(g, today)
<1> DEFINE g == [h EXCEPT ![last].count = n]
<1>1. g = [i \in 1 .. Len(h) |-> IF i = last THEN [h[last] EXCEPT !.count = n] ELSE h[i]]
  BY EntryKinds
<1>2. \A i \in 1 .. Len(h) : g[i] \in Entries /\ g[i].date = h[i].date
  BY <1>1, EntryKinds DEF Entries
<1> HIDE DEF g
<1>3. g \in Seq(Entries) /\ DOMAIN g = 1 .. Len(h)
  <2>1. Len(h) \in Nat
    BY EntryKinds
  <2>2. g \in [1 .. Len(h) -> Entries]
    BY <1>1, <1>2
  <2> QED
    BY <2>1, <2>2
<1>4. Dated(g, today)
  <2>1. DOMAIN h = 1 .. Len(h) /\ \A i \in 1 .. Len(h) : g[i].date = h[i].date
    BY <1>2, EntryKinds
  <2>2. \A i, j \in 1 .. Len(h) : i < j => g[i].date < g[j].date
    BY <2>1 DEF Dated
  <2>3. \A i \in 1 .. Len(h) : g[i].date <= today
    BY <2>1 DEF Dated
  <2> QED
    BY <1>3, <2>2, <2>3 DEF Dated
<1> QED
  BY <1>3, <1>4 DEF g

\* The first call of a day, after the entries of earlier days.
LEMMA NewDate ==
    ASSUME NEW h \in Seq(Entries), NEW today \in Int, Dated(h, today),
           NEW entry \in Entries, entry.date = today,
           Len(h) = 0 \/ h[Len(h)].date < today
    PROVE  Append(h, entry) \in Seq(Entries) /\ Dated(Append(h, entry), today)
<1> DEFINE g == Append(h, entry)
<1>1. /\ g \in Seq(Entries) /\ Len(h) \in Nat /\ Len(g) = Len(h) + 1
      /\ DOMAIN h = 1 .. Len(h) /\ DOMAIN g = 1 .. Len(h) + 1
      /\ g[Len(h) + 1] = entry /\ \A i \in 1 .. Len(h) : g[i] = h[i]
  OBVIOUS
<1>2. \A i \in 1 .. Len(h) : h[i].date \in Int
  BY EntryKinds
<1>3. ASSUME NEW i \in 1 .. Len(h) PROVE h[i].date < today
  <2>1. Len(h) \in 1 .. Len(h) /\ h[Len(h)].date < today
    BY <1>1, <1>3
  <2>2. CASE i = Len(h)
    BY <2>1, <2>2
  <2>3. CASE i < Len(h)
    <3>1. h[i].date < h[Len(h)].date
      BY <1>1, <2>1, <2>3 DEF Dated
    <3>2. h[i].date \in Int /\ h[Len(h)].date \in Int
      BY <1>2, <2>1
    <3> QED
      BY <2>1, <3>1, <3>2
  <2>4. i = Len(h) \/ i < Len(h)
    <3>1. Len(h) \in Nat
      BY <1>1
    <3> QED
      BY <3>1
  <2> QED
    BY <2>2, <2>3, <2>4
<1>4. \A i, j \in 1 .. Len(h) + 1 : i < j => g[i].date < g[j].date
  <2> SUFFICES ASSUME NEW i \in 1 .. Len(h) + 1, NEW j \in 1 .. Len(h) + 1, i < j
               PROVE  g[i].date < g[j].date
    OBVIOUS
  <2>1. CASE j = Len(h) + 1
    BY <1>1, <1>3, <2>1
  <2>2. CASE j <= Len(h)
    BY <1>1, <2>2 DEF Dated
  <2> QED
    BY <1>1, <2>1, <2>2
<1>5. \A i \in 1 .. Len(h) + 1 : g[i].date <= today
  <2> SUFFICES ASSUME NEW i \in 1 .. Len(h) + 1 PROVE g[i].date <= today
    OBVIOUS
  <2>1. CASE i = Len(h) + 1
    BY <1>1, <2>1
  <2>2. CASE i <= Len(h)
    BY <1>1, <1>2, <1>3, <2>2
  <2> QED
    BY <1>1, <2>1, <2>2
<1> HIDE DEF g
<1>6. Dated(g, today)
  BY <1>1, <1>4, <1>5 DEF Dated
<1> QED
  BY <1>1, <1>6 DEF g

\* One history of the instance is replaced by one in order.
LEMMA HistoryChanges ==
    ASSUME NEW data, NEW today \in Int, Sound(data, today),
           NEW e \in Endpoints, NEW g \in Seq(Entries), Dated(g, today),
           NEW next, next = [data EXCEPT !.history[e] = g]
    PROVE  Sound(next, today)
<1>1. next \in Data
  BY DEF Sound, Data
<1>2. ASSUME NEW f \in Endpoints PROVE Dated(next.history[f], today)
  <2>1. next.history[f] = IF f = e THEN g ELSE data.history[f]
    BY DEF Sound, Data
  <2> QED
    BY <2>1 DEF Sound
<1> QED
  BY <1>1, <1>2 DEF Sound

-----------------------------------------------------------------------------
LEMMA InitInv == Init => IInv
<1> SUFFICES ASSUME Init PROVE IInv
  OBVIOUS
<1> QED
  BY DEF Init, IInv, Kinds, Exclusive, HasInstance, NoneToday, Inside

\* Today's number, which most steps leave alone.
LEMMA Today == ASSUME Kinds PROVE Day(now) \in Int
  BY DayIsNat DEF Kinds

\* Steps that change neither instance, file nor clock.
LEMMA WalkKeepsInv ==
    ASSUME IInv, NEW t \in Threads,
           Call(t) \/ LookForInstance(t) \/ LockHistory(t) \/ UnlockHistory(t)
              \/ SendReport(t) \/ \E e \in Endpoints : SerialiseEntry(t, e)
    PROVE  IInv'
<1> USE DEF IInv, Kinds, Exclusive, HasInstance, NoneToday, Inside, Goto, world, ghosts,
            reports, Sound, Dated, Day
<1>1. CASE Call(t)
  BY <1>1 DEF Call
<1>2. CASE LookForInstance(t)
  BY <1>2 DEF LookForInstance
<1>3. CASE LockHistory(t)
  BY <1>3, StatisticsAssumption DEF LockHistory, AcquireLock
<1>4. CASE UnlockHistory(t)
  BY <1>4, StatisticsAssumption DEF UnlockHistory, ReleaseLock
<1>5. CASE SendReport(t)
  BY <1>5 DEF SendReport
<1>6. CASE \E e \in Endpoints : SerialiseEntry(t, e)
  BY <1>6 DEF SerialiseEntry
<1> QED
  BY <1>1, <1>2, <1>3, <1>4, <1>5, <1>6

\* The load: no thread is inside, and whoever loaded first wins.
LEMMA LoadKeepsInv == ASSUME IInv, NEW t \in Threads, LoadInstance(t) PROVE IInv'
<1>1. instance' # NoInstance => Sound(instance', Day(now))
  BY LoadedIsSound DEF LoadInstance, IInv
<1>2. \A u \in Threads : pc[u] \notin Inside /\ pc'[u] \notin Inside
  BY StatisticsAssumption DEF LoadInstance, IInv, Exclusive, Kinds, Goto, Inside
<1>3. instance' # NoInstance => Sound(instance, Day(now))'
  BY <1>1 DEF LoadInstance, world, Sound, Dated, Day
<1>4. NoInstance # Loaded => HasInstance'
  BY DEF LoadInstance, IInv, Kinds, HasInstance, Goto, Inside
<1>5. Loaded # NoInstance
  BY LoadedIsSound, SentinelAssumption DEF Sound
<1>6. NoneToday' /\ Exclusive'
  BY <1>2 DEF NoneToday, Exclusive, Inside
<1>7. (file \notin {NoFile, TornFile} => Sound(file, Day(now)))' /\ Kinds'
  BY DEF LoadInstance, IInv, Kinds, Goto, Inside, world, Sound, Dated, Day
<1> QED
  BY <1>3, <1>4, <1>5, <1>6, <1>7 DEF IInv

\* A thread that is inside, with the instance and the day to itself.
LEMMA InsideFacts ==
    ASSUME IInv, NEW t \in Threads, pc[t] \in Inside
    PROVE  /\ instance # NoInstance /\ instance \in Data /\ Sound(instance, Day(now))
           /\ endpoint[t] \in Endpoints /\ Day(now) \in Int
           /\ instance.history[endpoint[t]] \in Seq(Entries)
           /\ Dated(instance.history[endpoint[t]], Day(now))
           /\ \A u \in Threads : pc[u] \in Inside => u = t
<1>1. instance # NoInstance /\ \A u \in Threads : pc[u] \in Inside => u = t
  BY DEF IInv, HasInstance, Exclusive
<1>2. endpoint[t] \in Endpoints /\ Day(now) \in Int
  BY Today DEF IInv, Kinds
<1>3. Sound(instance, Day(now))
  BY <1>1 DEF IInv
<1> QED
  BY <1>1, <1>2, <1>3 DEF Sound, Data

\* Increment puts a sound list in the place of its own.
LEMMA CountKeepsInv ==
    ASSUME IInv, NEW t \in Threads, pc[t] \in Inside,
           NEW g \in Seq(Entries), Dated(g, Day(now)),
           instance' = [instance EXCEPT !.history[endpoint[t]] = g],
           Goto(t, "backup"), UNCHANGED <<world, lock, endpoint>>
    PROVE  IInv'
<1>1. Sound(instance', Day(now))
  BY InsideFacts, HistoryChanges
<1>2. Sound(instance, Day(now))'
  BY <1>1 DEF world, Sound, Dated, Day
<1>3. instance' # NoInstance
  BY <1>1, SentinelAssumption DEF Sound
<1>4. \A u \in Threads : pc'[u] # "add"
  BY InsideFacts DEF IInv, Kinds, Goto, Inside
<1>5. NoneToday' /\ HasInstance'
  BY <1>3, <1>4 DEF NoneToday, HasInstance
<1>6. Exclusive' /\ Kinds'
  BY DEF IInv, Exclusive, Kinds, Goto, Inside, world
<1>7. (file \notin {NoFile, TornFile} => Sound(file, Day(now)))'
  BY DEF IInv, world, Sound, Dated, Day
<1> QED
  BY <1>2, <1>5, <1>6, <1>7 DEF IInv

\* Increment and its two ways.
LEMMA CompareKeepsInv == ASSUME IInv, NEW t \in Threads, CompareDate(t) PROVE IInv'
<1> DEFINE h == instance.history[endpoint[t]]
<1>1. pc[t] \in Inside /\ h \in Seq(Entries) /\ Dated(h, Day(now)) /\ Day(now) \in Int
  BY InsideFacts DEF CompareDate, Inside
<1>2. CASE Len(h) = 0 \/ h[Len(h)].date < Day(now)
  <2>1. /\ pc' = [pc EXCEPT ![t] = "add"]
        /\ UNCHANGED <<instance, world, lock, endpoint>>
    BY <1>2 DEF CompareDate, Goto
  <2>2. Kinds' /\ Exclusive' /\ HasInstance'
    BY <1>1, <2>1 DEF IInv, Kinds, Exclusive, HasInstance, Inside, world
  <2>3. NoneToday'
    BY <1>1, <1>2, <2>1, InsideFacts DEF IInv, Kinds, NoneToday, Inside, world, Day
  <2>4. /\ (instance # NoInstance => Sound(instance, Day(now)))'
        /\ (file \notin {NoFile, TornFile} => Sound(file, Day(now)))'
    BY <2>1 DEF IInv, world, Sound, Dated, Day
  <2> QED
    BY <2>2, <2>3, <2>4 DEF IInv
<1>3. CASE ~(Len(h) = 0 \/ h[Len(h)].date < Day(now))
  <2> DEFINE last == Len(h)
             g == [h EXCEPT ![last].count = @ + 1]
  <2>1. last \in DOMAIN h /\ h[last].count + 1 \in Int
    BY <1>1, <1>3, EntryKinds
  <2>2. g \in Seq(Entries) /\ Dated(g, Day(now))
    BY <1>1, <2>1, SameDate
  <2>3. /\ instance' = [instance EXCEPT !.history[endpoint[t]] = g]
        /\ Goto(t, "backup") /\ UNCHANGED <<world, lock, endpoint>>
    BY <1>3, <2>1 DEF CompareDate
  <2> HIDE DEF g
  <2> QED
    BY <1>1, <2>2, <2>3, CountKeepsInv
<1> QED
  BY <1>2, <1>3

LEMMA AddKeepsInv == ASSUME IInv, NEW t \in Threads, AddDate(t) PROVE IInv'
<1> DEFINE h == instance.history[endpoint[t]]
           entry == [date |-> Day(now), count |-> 1]
<1>1. pc[t] \in Inside /\ h \in Seq(Entries) /\ Dated(h, Day(now)) /\ Day(now) \in Int
  BY InsideFacts DEF AddDate, Inside
<1>2. Len(h) = 0 \/ h[Len(h)].date < Day(now)
  BY DEF AddDate, IInv, NoneToday
<1>3. entry \in Entries /\ entry.date = Day(now)
  BY <1>1 DEF Entries
<1>4. Append(h, entry) \in Seq(Entries) /\ Dated(Append(h, entry), Day(now))
  BY <1>1, <1>2, <1>3, NewDate
<1>5. /\ instance' = [instance EXCEPT !.history[endpoint[t]] = Append(h, entry)]
      /\ Goto(t, "backup") /\ UNCHANGED <<world, lock, endpoint>>
  BY DEF AddDate
<1> QED
  BY <1>1, <1>4, <1>5, CountKeepsInv

\* The backup writes the histories that the instance has.
LEMMA BackupKeepsInv ==
    ASSUME IInv, NEW t \in Threads, StampBackup(t) \/ WriteBackup(t)
    PROVE  IInv'
<1>1. pc[t] \in Inside /\ \A u \in Threads : pc'[u] # "add"
  BY InsideFacts DEF StampBackup, WriteBackup, IInv, Kinds, Goto, Inside
<1>2. Sound(instance, Day(now)) /\ instance # NoInstance
  BY <1>1, InsideFacts
<1>3. Kinds' /\ Exclusive'
  BY <1>1 DEF StampBackup, WriteBackup, IInv, Kinds, Exclusive, Goto, Inside, world
<1>4. CASE StampBackup(t)
  <2>1. Sound(instance', Day(now))
    <3>1. instance' = instance \/ instance' = [instance EXCEPT !.lastSaved = now]
      BY <1>4 DEF StampBackup
    <3>2. instance \in Data /\ now \in Int
      BY <1>2 DEF Sound, IInv, Kinds
    <3>3. instance' \in Data /\ instance'.history = instance.history
      BY <3>1, <3>2 DEF Data
    <3> QED
      BY <1>2, <3>3 DEF Sound
  <2>2. instance' # NoInstance
    BY <2>1, SentinelAssumption DEF Sound
  <2>3. NoneToday' /\ HasInstance'
    BY <1>1, <2>2 DEF NoneToday, HasInstance
  <2>4. /\ Sound(instance, Day(now))'
        /\ (file \notin {NoFile, TornFile} => Sound(file, Day(now)))'
    BY <1>4, <2>1 DEF StampBackup, IInv, world, Sound, Dated, Day
  <2> QED
    BY <1>3, <2>3, <2>4 DEF IInv
<1>5. CASE WriteBackup(t)
  <2>1. NoneToday' /\ HasInstance'
    BY <1>1, <1>2, <1>5 DEF WriteBackup, NoneToday, HasInstance
  <2>2. Sound(instance, Day(now))' /\ (file' \notin {NoFile, TornFile} => Sound(file, Day(now))')
    BY <1>2, <1>5 DEF WriteBackup, IInv, Sound, Dated, Day
  <2> QED
    BY <1>3, <2>1, <2>2 DEF IInv
<1> QED
  BY <1>4, <1>5

\* Time passes: what was of an earlier day stays so.
LEMMA TickKeepsInv == ASSUME IInv, Tick PROVE IInv'
<1>1. /\ now' \in Nat /\ now <= now' /\ UNCHANGED <<file, instance, lock, pc, endpoint>>
  BY DEF Tick, IInv, Kinds
<1>2. Day(now)' = Day(now') /\ Day(now) <= Day(now') /\ {Day(now), Day(now')} \subseteq Int
  BY <1>1, DayGrows, DayIsNat DEF IInv, Kinds, Day
<1>3. /\ (instance # NoInstance => Sound(instance, Day(now)))'
      /\ (file \notin {NoFile, TornFile} => Sound(file, Day(now)))'
  <2>1. /\ (instance # NoInstance => Sound(instance, Day(now')))
        /\ (file \notin {NoFile, TornFile} => Sound(file, Day(now')))
    BY <1>2, SoundStays DEF IInv
  <2> QED
    BY <1>1, <2>1 DEF Sound, Dated, Day
<1>4. Kinds' /\ Exclusive' /\ HasInstance'
  BY <1>1 DEF IInv, Kinds, Exclusive, HasInstance
<1>5. NoneToday'
  <2> SUFFICES ASSUME NEW t \in Threads, pc[t] = "add"
               PROVE  LET h == instance.history[endpoint[t]]
                      IN  Len(h) = 0 \/ h[Len(h)].date < Day(now')
    BY <1>1, <1>2 DEF NoneToday
  <2> DEFINE h == instance.history[endpoint[t]]
  <2>1. h \in Seq(Entries)
    BY InsideFacts DEF Inside
  <2>2. Len(h) = 0 \/ h[Len(h)].date < Day(now)
    BY DEF IInv, NoneToday
  <2> HIDE DEF h
  <2>3. Len(h) = 0 \/ h[Len(h)].date \in Int
    <3>1. Len(h) \in Nat
      BY <2>1
    <3>2. Len(h) = 0 \/ Len(h) \in 1 .. Len(h)
      BY <3>1
    <3> QED
      BY <2>1, <3>2, EntryKinds
  <2>4. Len(h) = 0 \/ h[Len(h)].date < Day(now')
    BY <1>2, <2>2, <2>3
  <2> QED
    BY <2>4 DEF h
<1> QED
  BY <1>3, <1>4, <1>5 DEF IInv

\* A restart forgets the instance and keeps the file.
LEMMA RestartKeepsInv == ASSUME IInv, Restart PROVE IInv'
<1>1. /\ instance' = NoInstance /\ UNCHANGED <<now, file, endpoint>>
      /\ \A t \in Threads : pc'[t] = "idle"
  BY DEF Restart, world
<1>2. Kinds' /\ Exclusive' /\ HasInstance' /\ NoneToday'
  BY <1>1 DEF Restart, IInv, Kinds, Exclusive, HasInstance, NoneToday, Inside
<1>3. (file \notin {NoFile, TornFile} => Sound(file, Day(now)))'
  BY <1>1 DEF IInv, Sound, Dated, Day
<1> QED
  BY <1>1, <1>2, <1>3 DEF IInv

LEMMA StutterKeepsInv == ASSUME IInv, UNCHANGED vars PROVE IInv'
  BY DEF IInv, Kinds, Exclusive, HasInstance, NoneToday, Sound, Dated, Day, vars, world

LEMMA NextKeepsInv == IInv /\ [Next]_vars => IInv'
  BY WalkKeepsInv, LoadKeepsInv, CompareKeepsInv, AddKeepsInv, BackupKeepsInv,
     TickKeepsInv, RestartKeepsInv, StutterKeepsInv
     DEF Next, CountingStep

-----------------------------------------------------------------------------
\* A history never has two entries of one day, nor entries out of order, for
\* any number of threads that increment it, over any number of midnights,
\* and whatever backups fail or tear.
THEOREM DaysAscend == Spec => []OneEntryPerDay
<1>1. IInv => OneEntryPerDay
  BY DEF IInv, Sound, Dated, OneEntryPerDay
<1> QED
  BY <1>1, InitInv, NextKeepsInv, PTL DEF Spec

-----------------------------------------------------------------------------
(***************************************************************************)
(* What a crash would lose.  Unless the last write failed, the instance    *)
(* carries the LastSaved of the file, from a write to the stamp of the     *)
(* next; and whoever lets the lock go without a write has found that stamp *)
(* young enough at that moment, after it counted its call.                 *)
(***************************************************************************)

Covered == instance.history = Loaded.history \/ latest <= Loaded.lastSaved + BackUpInterval

SavedInv ==
    /\ latest \in Int /\ latest <= now
    /\ instance # NoInstance /\ ~failed =>
        /\ (\A t \in Threads : pc[t] # "write") => instance.lastSaved = Loaded.lastSaved
        /\ (\A t \in Threads : pc[t] \notin {"backup", "write"}) => Covered

LEMMA SavedInit == Init => SavedInv
BY NeverIsInt, StatisticsAssumption DEF Init, SavedInv, Never

LEMMA LoadedIsData == IInv => Loaded \in Data /\ Loaded.lastSaved \in Int
<1>1. IInv => Loaded \in Data
  BY LoadedIsSound DEF Sound
<1> QED
  BY <1>1 DEF Data

\* The steps that neither count, nor stamp, nor write, nor load.
LEMMA WalkKeepsSaved ==
    ASSUME IInv, SavedInv, NEW t \in Threads,
           Call(t) \/ LookForInstance(t) \/ LockHistory(t) \/ UnlockHistory(t)
              \/ SendReport(t) \/ \E e \in Endpoints : SerialiseEntry(t, e)
    PROVE  SavedInv'
<1>1. UNCHANGED <<world, instance, ghosts, failed>>
  BY DEF Call, LookForInstance, LockHistory, UnlockHistory, SendReport, SerialiseEntry
<1>2. \A u \in Threads : pc[u] \in {"backup", "write"} => pc'[u] = pc[u]
  BY DEF Call, LookForInstance, LockHistory, UnlockHistory, SendReport, SerialiseEntry, Goto,
         IInv, Kinds
<1> QED
  BY <1>1, <1>2 DEF SavedInv, Covered, Loaded, world, ghosts

\* A first load: nothing is unsaved.
LEMMA LoadKeepsSaved ==
    ASSUME IInv, SavedInv, NEW t \in Threads, LoadInstance(t)
    PROVE  SavedInv'
<1>1. UNCHANGED <<now, file, latest, failed>>
  BY DEF LoadInstance, world, ghosts
<1>2. Loaded' = Loaded
  BY <1>1 DEF Loaded
<1>3. \A u \in Threads : pc[u] \in {"backup", "write"} => pc'[u] = pc[u]
  BY DEF LoadInstance, Goto, IInv, Kinds
<1>4. CASE instance = NoInstance
  BY <1>1, <1>2, <1>4 DEF LoadInstance, SavedInv, Covered
<1>5. CASE instance # NoInstance
  BY <1>1, <1>2, <1>3, <1>5 DEF LoadInstance, SavedInv, Covered
<1> QED
  BY <1>4, <1>5

\* A count is followed by a look at the stamp.
LEMMA CountKeepsSaved ==
    ASSUME IInv, SavedInv, NEW t \in Threads, CompareDate(t) \/ AddDate(t)
    PROVE  SavedInv'
<1>1. UNCHANGED <<now, file, failed>> /\ Loaded' = Loaded
  BY DEF CompareDate, AddDate, world, Loaded
<1>2. instance # NoInstance /\ instance \in Data
      /\ \A u \in Threads : pc[u] \in Inside => u = t
  BY InsideFacts DEF CompareDate, AddDate, Inside
<1>3. pc[t] \in {"compare", "add"} /\ \A u \in Threads : pc[u] \notin {"backup", "write"}
  BY <1>2 DEF CompareDate, AddDate, Inside
<1>4. CASE Goto(t, "add") /\ UNCHANGED <<instance, ghosts>>
  <2>1. \A u \in Threads : pc'[u] \notin {"backup", "write"}
    BY <1>3, <1>4 DEF Goto, IInv, Kinds
  <2> QED
    BY <1>1, <1>2, <1>3, <1>4, <2>1 DEF SavedInv, Covered, ghosts
<1>5. CASE Goto(t, "backup") /\ Counted(t) /\ instance'.lastSaved = instance.lastSaved
  <2>1. pc'[t] = "backup"
    BY <1>5 DEF Goto, IInv, Kinds
  <2>2. latest' = now' /\ now \in Int
    BY <1>1, <1>5 DEF Counted, IInv, Kinds
  <2> QED
    BY <1>1, <1>2, <1>3, <1>5, <2>1, <2>2 DEF SavedInv
<1>6. ASSUME NEW h, instance' = [instance EXCEPT !.history[endpoint[t]] = h]
      PROVE  instance'.lastSaved = instance.lastSaved
  BY <1>2, <1>6 DEF Data
<1> QED
  <2>1. CASE CompareDate(t) /\ Goto(t, "add")
    BY <1>3, <1>4, <2>1 DEF CompareDate, Goto, IInv, Kinds
  <2>2. CASE CompareDate(t) /\ ~Goto(t, "add")
    <3>1. \E h : instance' = [instance EXCEPT !.history[endpoint[t]] = h]
      BY <2>2 DEF CompareDate
    <3> QED
      BY <1>5, <1>6, <2>2, <3>1 DEF CompareDate
  <2>3. CASE AddDate(t)
    <3>1. \E h : instance' = [instance EXCEPT !.history[endpoint[t]] = h]
      BY <2>3 DEF AddDate
    <3> QED
      BY <1>5, <1>6, <2>3, <3>1 DEF AddDate
  <2> QED
    BY <2>1, <2>2, <2>3

\* The stamp, or the finding that the last one is young enough.
LEMMA StampKeepsSaved ==
    ASSUME IInv, SavedInv, NEW t \in Threads, StampBackup(t)
    PROVE  SavedInv'
<1>1. UNCHANGED <<now, file, latest, failed>> /\ Loaded' = Loaded
  BY DEF StampBackup, world, ghosts, Loaded
<1>2. instance # NoInstance /\ instance \in Data
      /\ \A u \in Threads : pc[u] \in Inside => u = t
  BY InsideFacts DEF StampBackup, Inside
<1>3. pc[t] = "backup" /\ \A u \in Threads : pc[u] # "write"
  BY <1>2 DEF StampBackup, Inside
<1>4. CASE now <= instance.lastSaved + BackUpInterval /\ UNCHANGED instance
  <2>1. ~failed => instance.lastSaved = Loaded.lastSaved
    BY <1>2, <1>3 DEF SavedInv
  <2>2. ~failed => latest <= Loaded.lastSaved + BackUpInterval
    BY <1>4, <2>1, LoadedIsData, StatisticsAssumption DEF SavedInv, IInv, Kinds
  <2> QED
    BY <1>1, <1>4, <2>1, <2>2 DEF SavedInv, Covered
<1>5. CASE Goto(t, "write")
  <2>1. pc'[t] = "write"
    BY <1>5 DEF Goto, IInv, Kinds
  <2> QED
    BY <1>1, <2>1 DEF SavedInv
<1> QED
  BY <1>4, <1>5 DEF StampBackup

\* The write: the file is the instance, or the write has failed.
LEMMA WriteKeepsSaved ==
    ASSUME IInv, SavedInv, NEW t \in Threads, WriteBackup(t)
    PROVE  SavedInv'
<1>1. UNCHANGED <<now, instance, latest>>
  BY DEF WriteBackup, ghosts
<1>2. instance \in Data
  BY InsideFacts DEF WriteBackup, Inside
<1>3. CASE file' = instance
  <2>1. Loaded' = instance
    BY <1>2, <1>3, SentinelAssumption DEF Loaded
  <2> QED
    BY <1>1, <2>1 DEF SavedInv, Covered
<1>4. CASE failed'
  BY <1>1, <1>4 DEF SavedInv
<1> QED
  BY <1>3, <1>4 DEF WriteBackup

LEMMA TickKeepsSaved == ASSUME IInv, SavedInv, Tick PROVE SavedInv'
<1>1. UNCHANGED <<file, instance, pc, latest, failed>> /\ Loaded' = Loaded
  BY DEF Tick, ghosts, Loaded
<1>2. now \in Int /\ now' = now + 1
  BY DEF Tick, IInv, Kinds
<1> QED
  BY <1>1, <1>2 DEF SavedInv, Covered

LEMMA SavedNext == ASSUME IInv, SavedInv, [Next]_vars PROVE SavedInv'
<1>1. CASE Restart
  BY <1>1 DEF Restart, SavedInv, world
<1>2. CASE UNCHANGED vars
  BY <1>2 DEF SavedInv, Covered, Loaded, vars, world, ghosts
<1>3. CASE Tick
  BY <1>3, TickKeepsSaved
<1>4. ASSUME NEW t \in Threads, Call(t) \/ CountingStep(t) PROVE SavedInv'
  BY <1>4, WalkKeepsSaved, LoadKeepsSaved, CountKeepsSaved, StampKeepsSaved, WriteKeepsSaved
     DEF CountingStep
<1> QED
  BY <1>1, <1>2, <1>3, <1>4 DEF Next

\* Unless the last write failed, a crash between two requests loses only
\* calls made within BackUpInterval of the last write, for any number of
\* threads and however long the service has run.
THEOREM OnlyRecentIsUnsaved == Spec => []OnlyRecentCallsUnsaved
<1>1. IInv /\ [Next]_vars => IInv'
  BY NextKeepsInv
<1>2. IInv /\ SavedInv /\ [Next]_vars => SavedInv'
  BY SavedNext
<1>3. IInv /\ SavedInv => OnlyRecentCallsUnsaved
  <2> SUFFICES ASSUME IInv, SavedInv, instance # NoInstance, lock = NoThread, ~failed
               PROVE  \/ Totals(instance) = Totals(Loaded)
                      \/ latest <= Loaded.lastSaved + BackUpInterval
    BY DEF OnlyRecentCallsUnsaved
  <2>1. \A t \in Threads : pc[t] \notin {"backup", "write"}
    BY StatisticsAssumption DEF IInv, Exclusive, Inside
  <2>2. Covered
    BY <2>1 DEF SavedInv
  <2>3. instance.history = Loaded.history => Totals(instance) = Totals(Loaded)
    BY Zenon DEF Totals
  <2> QED
    BY <2>2, <2>3 DEF Covered
<1> QED
  BY <1>1, <1>2, <1>3, InitInv, SavedInit, PTL DEF Spec

-----------------------------------------------------------------------------
(***************************************************************************)
(* The calls of a history: what one more call, or one more entry, adds to  *)
(* the sum of the first of its entries.                                    *)
(***************************************************************************)
\* The entries that a history has, in the bounds of the clock.
Days == [date : 0 .. Day(MaxTime), count : Nat \ {0}]

\* The calls of the first n entries of a history.
CallsUpTo(h, n) == SumFunctionOnSet([i \in DOMAIN h |-> h[i].count], 1 .. n)

\* What a history holds, entry by entry.
LEMMA DaysKinds ==
    ASSUME NEW h \in Seq(Days)
    PROVE  /\ Len(h) \in Nat /\ DOMAIN h = 1 .. Len(h)
           /\ \A i \in 1 .. Len(h) : h[i] \in Days /\ h[i].count \in Nat \ {0}
<1>1. Len(h) \in Nat /\ DOMAIN h = 1 .. Len(h) /\ \A i \in 1 .. Len(h) : h[i] \in Days
  OBVIOUS
<1> QED
  BY <1>1 DEF Days

LEMMA IntervalIsFinite == ASSUME NEW n \in Nat PROVE IsFiniteSet(1 .. n)
  BY FS_Interval

\* Totals counts all the entries.
LEMMA TotalsOf ==
    ASSUME NEW data, NEW e \in Endpoints, data.history[e] \in Seq(Days)
    PROVE  Totals(data)[e] = CallsUpTo(data.history[e], Len(data.history[e]))
<1>1. DOMAIN data.history[e] = 1 .. Len(data.history[e])
  OBVIOUS
<1> DEFINE counts == [i \in DOMAIN data.history[e] |-> data.history[e][i].count]
<1>2. DOMAIN counts = 1 .. Len(data.history[e])
  BY <1>1
<1>3. Totals(data)[e] = SumFunction(counts)
  BY DEF Totals
<1>4. SumFunction(counts) = SumFunctionOnSet(counts, DOMAIN counts)
  BY Zenon DEF SumFunction
<1> QED
  BY <1>2, <1>3, <1>4 DEF CallsUpTo

\* The calls of one entry more.
LEMMA CallsUpToNext ==
    ASSUME NEW h \in Seq(Days)
    PROVE  /\ CallsUpTo(h, 0) = 0
           /\ \A n \in 0 .. Len(h) : CallsUpTo(h, n) \in Nat
           /\ \A n \in 0 .. Len(h) - 1 : CallsUpTo(h, n + 1) = CallsUpTo(h, n) + h[n + 1].count
<1> DEFINE c == [i \in DOMAIN h |-> h[i].count]
<1>1. Len(h) \in Nat /\ \A i \in 1 .. Len(h) : c[i] = h[i].count /\ c[i] \in Nat
  BY DaysKinds
<1> HIDE DEF c
<1>2. CallsUpTo(h, 0) = 0
  <2>1. 1 .. 0 = {}
    OBVIOUS
  <2> QED
    BY <2>1, SumEmpty DEF CallsUpTo
<1>3. ASSUME NEW n \in 0 .. Len(h) PROVE CallsUpTo(h, n) \in Nat
  <2>1. IsFiniteSet(1 .. n) /\ \A i \in 1 .. n : c[i] \in Nat
    BY <1>1, IntervalIsFinite
  <2> QED
    BY <2>1, SumIsNat DEF CallsUpTo, c
<1>4. ASSUME NEW n \in 0 .. Len(h) - 1
      PROVE  CallsUpTo(h, n + 1) = CallsUpTo(h, n) + h[n + 1].count
  <2>1. IsFiniteSet(1 .. n + 1) /\ (\A i \in 1 .. n + 1 : c[i] \in Int) /\ n + 1 \in 1 .. n + 1
    BY <1>1, IntervalIsFinite
  <2>2. (1 .. n + 1) \ {n + 1} = 1 .. n
    OBVIOUS
  <2>3. SumFunctionOnSet(c, 1 .. n + 1) = c[n + 1] + SumFunctionOnSet(c, 1 .. n)
    BY <2>1, <2>2, SumRemove
  <2>4. CallsUpTo(h, n) \in Nat /\ c[n + 1] = h[n + 1].count /\ c[n + 1] \in Nat
    BY <1>1, <1>3
  <2>5. CallsUpTo(h, n) = SumFunctionOnSet(c, 1 .. n)
        /\ CallsUpTo(h, n + 1) = SumFunctionOnSet(c, 1 .. n + 1)
    BY DEF CallsUpTo, c
  <2> QED
    BY <2>3, <2>4, <2>5
<1> QED
  BY <1>2, <1>3, <1>4

\* Every entry has a call at least.
LEMMA RestHasCalls ==
    ASSUME NEW h \in Seq(Days), NEW n \in 0 .. Len(h)
    PROVE  CallsUpTo(h, n) + (Len(h) - n) <= CallsUpTo(h, Len(h))
<1> DEFINE S == {k \in Nat : k <= Len(h) =>
                    \A m \in 0 .. k : CallsUpTo(h, m) + (k - m) <= CallsUpTo(h, k)}
<1>1. Len(h) \in Nat /\ \A i \in 1 .. Len(h) : h[i].count \in Nat \ {0}
  BY DaysKinds
<1>2. /\ \A k \in 0 .. Len(h) : CallsUpTo(h, k) \in Nat
      /\ \A k \in 0 .. Len(h) - 1 : CallsUpTo(h, k + 1) = CallsUpTo(h, k) + h[k + 1].count
  BY CallsUpToNext
<1>3. 0 \in S
  BY <1>1, <1>2
<1>4. ASSUME NEW k \in Nat, k \in S PROVE k + 1 \in S
  <2> SUFFICES ASSUME k + 1 <= Len(h), NEW m \in 0 .. k + 1
               PROVE  CallsUpTo(h, m) + (k + 1 - m) <= CallsUpTo(h, k + 1)
    OBVIOUS
  <2>1. CASE m = k + 1
    <3>1. CallsUpTo(h, k + 1) \in Nat
      BY <1>1, <1>2
    <3> QED
      BY <2>1, <3>1
  <2>2. CASE m \in 0 .. k
    <3>1. CallsUpTo(h, m) + (k - m) <= CallsUpTo(h, k)
      BY <1>1, <1>4, <2>2
    <3>2. CallsUpTo(h, k + 1) = CallsUpTo(h, k) + h[k + 1].count /\ h[k + 1].count \in Nat \ {0}
      BY <1>1, <1>2
    <3>3. CallsUpTo(h, m) \in Nat /\ CallsUpTo(h, k) \in Nat
      BY <1>1, <1>2, <2>2
    <3> QED
      BY <2>2, <3>1, <3>2, <3>3
  <2> QED
    BY <2>1, <2>2
<1> HIDE DEF S
<1>5. Len(h) \in S
  BY <1>1, <1>3, <1>4, NatSetInduction
<1> QED
  BY <1>1, <1>5 DEF S

\* One more call of the last day, as CompareDate counts it.
LEMMA CallsOfSameDay ==
    ASSUME NEW h \in Seq(Days), Len(h) # 0
    PROVE  LET g == [h EXCEPT ![Len(h)].count = @ + 1]
           IN  /\ g \in Seq(Days) /\ Len(g) = Len(h)
               /\ \A n \in 0 .. Len(h) :
                     CallsUpTo(g, n) = CallsUpTo(h, n) + (IF n = Len(h) THEN 1 ELSE 0)
<1> DEFINE g == [h EXCEPT ![Len(h)].count = @ + 1]
           last == Len(h)
           c == [i \in DOMAIN h |-> h[i].count]
           d == [i \in DOMAIN g |-> g[i].count]
<1>1. /\ last \in Nat /\ last # 0 /\ DOMAIN h = 1 .. last
      /\ \A i \in 1 .. last : h[i] \in Days /\ h[i].count \in Nat \ {0}
  BY DaysKinds
<1>2. g = [i \in 1 .. last |-> IF i = last THEN [h[last] EXCEPT !.count = @ + 1] ELSE h[i]]
  BY <1>1
<1>3. /\ \A i \in 1 .. last : g[i] \in Days
      /\ \A i \in 1 .. last : g[i].count = IF i = last THEN h[i].count + 1 ELSE h[i].count
  BY <1>1, <1>2 DEF Days
<1> HIDE DEF g
<1>4. g \in Seq(Days) /\ Len(g) = last /\ DOMAIN g = 1 .. last
  <2>1. g \in [1 .. last -> Days]
    BY <1>2, <1>3
  <2> QED
    BY <1>1, <2>1
<1>5. \A i \in 1 .. last : /\ c[i] = h[i].count /\ c[i] \in Int
                           /\ d[i] = IF i = last THEN c[i] + 1 ELSE c[i]
  <2>1. ASSUME NEW i \in 1 .. last
        PROVE  c[i] = h[i].count /\ d[i] = g[i].count /\ h[i].count \in Nat
    BY <1>1, <1>4
  <2> HIDE DEF c, d, last
  <2> QED
    BY <1>3, <2>1
<1>6. ASSUME NEW n \in 0 .. last
      PROVE  CallsUpTo(g, n) = CallsUpTo(h, n) + (IF n = last THEN 1 ELSE 0)
  <2> HIDE DEF last, c, d
  <2>1. IsFiniteSet(1 .. n) /\ 1 .. n \subseteq 1 .. last
    BY <1>1, IntervalIsFinite
  <2>2. CASE n = last
    <3>1. /\ last \in 1 .. n 
          /\ \A i \in 1 .. n : c[i] \in Int
          /\ \A i \in 1 .. n : d[i] = IF i = last THEN c[i] + 1 ELSE c[i]
      BY <1>1, <1>5, <2>1, <2>2
    <3>2. SumFunctionOnSet(d, 1 .. n) = SumFunctionOnSet(c, 1 .. n) + 1
      BY <2>1, <3>1, SumGainsOne
    <3> QED
      BY <2>2, <3>2 DEF CallsUpTo, c, d
  <2>3. CASE n # last
    <3>1. \A i \in 1 .. n : d[i] = c[i]
      BY <1>1, <1>5, <2>1, <2>3
    <3>2. SumFunctionOnSet(d, 1 .. n) = SumFunctionOnSet(c, 1 .. n)
      BY <2>1, <3>1, SumSame
    <3>3. CallsUpTo(h, n) \in Nat
      BY CallsUpToNext DEF last
    <3>4. CallsUpTo(g, n) = CallsUpTo(h, n)
      BY <3>2 DEF CallsUpTo, c, d
    <3> QED
      BY <2>3, <3>3, <3>4
  <2> QED
    BY <2>2, <2>3
<1> QED
  BY <1>4, <1>6 DEF g

\* The first call of another day, as AddDate adds it.
LEMMA CallsOfNewDay ==
    ASSUME NEW h \in Seq(Days), NEW day \in 0 .. Day(MaxTime)
    PROVE  LET g == Append(h, [date |-> day, count |-> 1])
           IN  /\ g \in Seq(Days) /\ Len(g) = Len(h) + 1
               /\ \A n \in 0 .. Len(h) : CallsUpTo(g, n) = CallsUpTo(h, n)
               /\ CallsUpTo(g, Len(g)) = CallsUpTo(h, Len(h)) + 1
<1> DEFINE entry == [date |-> day, count |-> 1]
           g == Append(h, entry)
           c == [i \in DOMAIN h |-> h[i].count]
           d == [i \in DOMAIN g |-> g[i].count]
<1>1. entry \in Days /\ entry.count = 1
  BY DEF Days
<1> HIDE DEF entry
<1>2. /\ g \in Seq(Days) /\ Len(h) \in Nat /\ Len(g) = Len(h) + 1 /\ DOMAIN h = 1 .. Len(h)
      /\ DOMAIN g = 1 .. Len(h) + 1 /\ g[Len(h) + 1] = entry
      /\ \A i \in 1 .. Len(h) : g[i] = h[i]
  BY <1>1
<1> HIDE DEF g
<1>3. ASSUME NEW n \in 0 .. Len(h) PROVE CallsUpTo(g, n) = CallsUpTo(h, n)
  <2>1. IsFiniteSet(1 .. n) /\ 1 .. n \subseteq 1 .. Len(h)
    BY <1>2, IntervalIsFinite
  <2>2. \A i \in 1 .. n : d[i] = c[i]
    BY <1>2, <2>1
  <2> HIDE DEF c, d
  <2>3. SumFunctionOnSet(d, 1 .. n) = SumFunctionOnSet(c, 1 .. n)
    BY <2>1, <2>2, SumSame
  <2> QED
    BY <2>3 DEF CallsUpTo, c, d
<1>4. CallsUpTo(g, Len(h) + 1) = CallsUpTo(g, Len(h)) + g[Len(h) + 1].count
  BY <1>2, CallsUpToNext
<1>5. Len(h) \in 0 .. Len(h)
  BY <1>2
<1>6. CallsUpTo(g, Len(g)) = CallsUpTo(h, Len(h)) + 1
  BY <1>1, <1>2, <1>3, <1>4, <1>5
<1> QED
  BY <1>2, <1>3, <1>6 DEF g, entry

-----------------------------------------------------------------------------
(***************************************************************************)
(* Every call is counted once.  The instance has what the process has to   *)
(* have; before the first call has loaded one, that is what the file       *)
(* keeps; and the file never has more.                                     *)
(***************************************************************************)
\* What the instance and the file are made of.
Kept == [lastSaved : {Never} \cup 0 .. MaxTime, history : [Endpoints -> Seq(Days)]]

CountInv ==
    /\ now <= MaxTime
    /\ Loaded \in Kept
    /\ instance # NoInstance => instance \in Kept /\ Totals(instance) = expected
    /\ instance = NoInstance => Totals(Loaded) = expected
    /\ expected \in [Endpoints -> Nat]
    /\ \A e \in Endpoints : Totals(Loaded)[e] <= expected[e]

\* The totals of an instance are natural numbers.
LEMMA TotalsKinds ==
    ASSUME NEW data \in Kept
    PROVE  /\ Totals(data) \in [Endpoints -> Nat]
           /\ \A e \in Endpoints :
                 /\ data.history[e] \in Seq(Days)
                 /\ Totals(data)[e] = CallsUpTo(data.history[e], Len(data.history[e]))
<1>1. ASSUME NEW e \in Endpoints
      PROVE  /\ data.history[e] \in Seq(Days)
             /\ Totals(data)[e] = CallsUpTo(data.history[e], Len(data.history[e]))
             /\ Totals(data)[e] \in Nat
  <2>1. data.history[e] \in Seq(Days)
    BY DEF Kept
  <2>2. Len(data.history[e]) \in 0 .. Len(data.history[e])
    BY <2>1
  <2> QED
    BY <2>1, <2>2, TotalsOf, CallsUpToNext
<1>2. Totals(data) = [e \in Endpoints |-> Totals(data)[e]]
  BY Zenon DEF Totals
<1> QED
  BY <1>1, <1>2

LEMMA NewInstanceIsEmpty == NewInstance \in Kept /\ Totals(NewInstance) = NoCounts
<1>1. NewInstance \in Kept /\ \A e \in Endpoints : NewInstance.history[e] = <<>>
  BY DEF NewInstance, Kept
<1>2. ASSUME NEW e \in Endpoints PROVE Totals(NewInstance)[e] = 0
  <2>1. NewInstance.history[e] = <<>> /\ <<>> \in Seq(Days) /\ Len(<<>>) = 0
    BY <1>1
  <2>2. Totals(NewInstance)[e] = CallsUpTo(<<>>, 0)
    BY <1>1, <2>1, TotalsKinds
  <2>3. CallsUpTo(<<>>, 0) = 0
    BY <2>1, CallsUpToNext
  <2> QED
    BY <2>2, <2>3
<1>3. Totals(NewInstance) \in [Endpoints -> Nat]
  BY <1>1, TotalsKinds
<1> QED
  BY <1>1, <1>2, <1>3 DEF NoCounts

\* One history has a call more.
LEMMA CallIsAdded ==
    ASSUME NEW data \in Kept, NEW e \in Endpoints, NEW g \in Seq(Days),
           CallsUpTo(g, Len(g)) = CallsUpTo(data.history[e], Len(data.history[e])) + 1,
           NEW next, next = [data EXCEPT !.history[e] = g]
    PROVE  next \in Kept /\ Totals(next) = [Totals(data) EXCEPT ![e] = @ + 1]
<1>1. next \in Kept /\ \A f \in Endpoints : next.history[f] = IF f = e THEN g ELSE data.history[f]
  BY DEF Kept
<1>2. /\ Totals(next) \in [Endpoints -> Nat] /\ Totals(data) \in [Endpoints -> Nat]
      /\ \A f \in Endpoints : Totals(next)[f] = CallsUpTo(next.history[f], Len(next.history[f]))
      /\ \A f \in Endpoints : Totals(data)[f] = CallsUpTo(data.history[f], Len(data.history[f]))
  BY <1>1, TotalsKinds
<1>3. \A f \in Endpoints : Totals(next)[f] = IF f = e THEN Totals(data)[e] + 1 ELSE Totals(data)[f]
  BY <1>1, <1>2
<1>4. Totals(next) = [f \in Endpoints |-> IF f = e THEN Totals(data)[e] + 1 ELSE Totals(data)[f]]
  BY <1>2, <1>3
<1> QED
  BY <1>1, <1>2, <1>4

\* What the thread that counts has before it, and what it does to the list.
LEMMA Increments ==
    ASSUME IInv, CountInv, NEW t \in Threads, (CompareDate(t) /\ ~Goto(t, "add")) \/ AddDate(t)
    PROVE  /\ instance # NoInstance /\ instance \in Kept /\ Totals(instance) = expected
           /\ endpoint[t] \in Endpoints /\ instance.history[endpoint[t]] \in Seq(Days)
           /\ Goto(t, "backup") /\ Counted(t)
           /\ UNCHANGED <<now, file, lock, endpoint, report, known, failed>>
           /\ LET h == instance.history[endpoint[t]]
                  g == IF pc[t] = "compare" THEN [h EXCEPT ![Len(h)].count = @ + 1]
                       ELSE Append(h, [date |-> Day(now), count |-> 1])
              IN  /\ pc[t] = "compare" => Len(h) # 0
                  /\ instance' = [instance EXCEPT !.history[endpoint[t]] = g]
                  /\ g \in Seq(Days)
                  /\ CallsUpTo(g, Len(g)) = CallsUpTo(h, Len(h)) + 1
<1> DEFINE h == instance.history[endpoint[t]]
           same == [h EXCEPT ![Len(h)].count = @ + 1]
           new == Append(h, [date |-> Day(now), count |-> 1])
<1>1. pc[t] \in Inside
  BY DEF CompareDate, AddDate, Inside
<1>2. instance # NoInstance /\ instance \in Kept /\ Totals(instance) = expected
      /\ endpoint[t] \in Endpoints
  BY <1>1, InsideFacts DEF CountInv
<1>3. h \in Seq(Days) /\ Len(h) \in 0 .. Len(h)
  BY <1>2, TotalsKinds
<1>4. CASE CompareDate(t) /\ ~Goto(t, "add")
  <2>1. /\ Len(h) # 0 /\ pc[t] = "compare" /\ Goto(t, "backup") /\ Counted(t)
        /\ instance' = [instance EXCEPT !.history[endpoint[t]] = same]
        /\ UNCHANGED <<now, file, lock, endpoint, report, known, failed>>
    BY <1>4 DEF CompareDate, world, reports
  <2>2. same \in Seq(Days) /\ Len(same) = Len(h)
        /\ CallsUpTo(same, Len(h)) = CallsUpTo(h, Len(h)) + 1
    BY <1>3, <2>1, CallsOfSameDay
  <2> HIDE DEF same
  <2> QED
    BY <1>2, <1>3, <2>1, <2>2 DEF same
<1>5. CASE AddDate(t)
  <2>1. /\ pc[t] = "add" /\ Goto(t, "backup") /\ Counted(t)
        /\ instance' = [instance EXCEPT !.history[endpoint[t]] = new]
        /\ UNCHANGED <<now, file, lock, endpoint, report, known, failed>>
    BY <1>5 DEF AddDate, world, reports
  <2>2. Day(now) \in 0 .. Day(MaxTime)
    <3>1. now \in Nat /\ MaxTime \in Nat /\ now <= MaxTime
      BY StatisticsAssumption DEF IInv, Kinds, CountInv
    <3> QED
      BY <3>1, DayGrows, DayIsNat
  <2>3. new \in Seq(Days) /\ CallsUpTo(new, Len(new)) = CallsUpTo(h, Len(h)) + 1
    BY <1>3, <2>2, CallsOfNewDay
  <2> HIDE DEF new
  <2> QED
    BY <1>2, <1>3, <2>1, <2>3 DEF new
<1> QED
  BY <1>4, <1>5

LEMMA CountInit == Init => CountInv
<1> SUFFICES ASSUME Init PROVE CountInv
  OBVIOUS
<1>1. Loaded \in Kept /\ Totals(Loaded) = NoCounts
  BY NewInstanceIsEmpty DEF Init, Loaded
<1>2. NoCounts \in [Endpoints -> Nat] /\ \A e \in Endpoints : NoCounts[e] = 0
  BY DEF NoCounts
<1> QED
  BY <1>1, <1>2, StatisticsAssumption DEF Init, CountInv

\* Steps that leave the file and the histories alone.
LEMMA WalkKeepsCount ==
    ASSUME IInv, CountInv, NEW t \in Threads,
           Call(t) \/ LookForInstance(t) \/ LockHistory(t) \/ UnlockHistory(t)
              \/ SendReport(t) \/ \E e \in Endpoints : SerialiseEntry(t, e)
    PROVE  CountInv'
<1>1. UNCHANGED <<now, file, instance, expected>>
  BY DEF Call, LookForInstance, LockHistory, UnlockHistory, SendReport, SerialiseEntry,
         world, ghosts
<1>2. Loaded' = Loaded
  BY <1>1 DEF Loaded
<1>3. Totals(instance)' = Totals(instance) /\ Totals(Loaded)' = Totals(Loaded)
  BY <1>1, <1>2 DEF Totals
<1> QED
  BY <1>1, <1>2, <1>3 DEF CountInv

\* The load takes what was counted before the process began.
LEMMA LoadKeepsCount ==
    ASSUME IInv, CountInv, NEW t \in Threads, LoadInstance(t)
    PROVE  CountInv'
<1>1. UNCHANGED <<now, file, expected>> /\ Loaded' = Loaded /\ instance' # NoInstance
      /\ instance' = IF instance = NoInstance THEN Loaded ELSE instance
  BY LoadedIsSound, SentinelAssumption DEF LoadInstance, world, ghosts, Loaded, Sound
<1>2. Totals(Loaded)' = Totals(Loaded) /\ Totals(instance)' = Totals(instance')
  BY <1>1 DEF Totals
<1> QED
  BY <1>1, <1>2 DEF CountInv

\* A call is counted, or found to need a new entry.
LEMMA CountKeepsCount ==
    ASSUME IInv, CountInv, NEW t \in Threads, CompareDate(t) \/ AddDate(t)
    PROVE  CountInv'
<1>1. CASE CompareDate(t) /\ Goto(t, "add")
  <2>1. UNCHANGED <<now, file, instance, expected>>
    BY <1>1 DEF CompareDate, Goto, IInv, Kinds, world, ghosts
  <2>2. Loaded' = Loaded
    BY <2>1 DEF Loaded
  <2>3. Totals(instance)' = Totals(instance) /\ Totals(Loaded)' = Totals(Loaded)
    BY <2>1, <2>2 DEF Totals
  <2> QED
    BY <2>1, <2>2, <2>3 DEF CountInv
<1>2. CASE (CompareDate(t) /\ ~Goto(t, "add")) \/ AddDate(t)
  <2> DEFINE e == endpoint[t]
  <2>1. /\ instance # NoInstance /\ instance \in Kept /\ Totals(instance) = expected
        /\ e \in Endpoints /\ UNCHANGED <<now, file>>
        /\ expected' = [expected EXCEPT ![e] = @ + 1]
    BY <1>2, Increments DEF Counted
  <2>2. PICK g \in Seq(Days) :
           /\ instance' = [instance EXCEPT !.history[e] = g]
           /\ CallsUpTo(g, Len(g)) = CallsUpTo(instance.history[e], Len(instance.history[e])) + 1
    BY <1>2, Increments
  <2> HIDE DEF e
  <2>3. instance' \in Kept /\ Totals(instance') = expected'
    BY <2>1, <2>2, CallIsAdded
  <2>4. Loaded' = Loaded
    BY <2>1 DEF Loaded
  <2>5. Totals(instance)' = Totals(instance') /\ Totals(Loaded)' = Totals(Loaded)
    BY <2>4 DEF Totals
  <2>6. instance' # NoInstance
    <3>1. IInv' /\ pc' = [pc EXCEPT ![t] = "backup"]
      BY <1>2, CompareKeepsInv, AddKeepsInv, Increments DEF Goto
    <3> QED
      BY <3>1 DEF IInv, Kinds, HasInstance, Inside
  <2>7. /\ expected' \in [Endpoints -> Nat]
        /\ \A f \in Endpoints : expected[f] \in Nat /\ expected[f] <= expected'[f]
    BY <2>1 DEF CountInv
  <2>8. \A f \in Endpoints : Totals(Loaded)[f] \in Nat /\ Totals(Loaded)[f] <= expected'[f]
    BY <2>7, TotalsKinds DEF CountInv
  <2> QED
    BY <2>1, <2>3, <2>4, <2>5, <2>6, <2>7, <2>8 DEF CountInv
<1> QED
  BY <1>1, <1>2

\* The stamp leaves the histories alone.
LEMMA StampKeepsCount ==
    ASSUME IInv, CountInv, NEW t \in Threads, StampBackup(t)
    PROVE  CountInv'
<1>1. UNCHANGED <<now, file, expected>> /\ Loaded' = Loaded
  BY DEF StampBackup, world, ghosts, Loaded
<1>2. instance # NoInstance /\ instance \in Kept
  BY InsideFacts DEF StampBackup, Inside, CountInv
<1>3. instance' \in Kept /\ instance'.history = instance.history
  <2>1. now \in 0 .. MaxTime
    BY StatisticsAssumption DEF IInv, Kinds, CountInv
  <2>2. instance' = instance \/ instance' = [instance EXCEPT !.lastSaved = now]
    BY DEF StampBackup
  <2> QED
    BY <1>2, <2>1, <2>2 DEF Kept
<1>4. Totals(instance)' = Totals(instance) /\ Totals(Loaded)' = Totals(Loaded)
  <2>1. Totals(instance') = Totals(instance)
    BY <1>3, Zenon DEF Totals
  <2> QED
    BY <1>1, <2>1 DEF Totals
<1>5. instance' # NoInstance
  <2>1. IInv' /\ pc'[t] \in Inside
    BY BackupKeepsInv DEF StampBackup, Goto, IInv, Kinds, Inside
  <2> QED
    BY <2>1 DEF IInv, HasInstance
<1> QED
  BY <1>1, <1>2, <1>3, <1>4, <1>5 DEF CountInv

\* The file becomes the instance, stays, or is torn.
LEMMA WriteKeepsCount ==
    ASSUME IInv, CountInv, NEW t \in Threads, WriteBackup(t)
    PROVE  /\ CountInv'
           /\ file' # TornFile => \A e \in Endpoints : Totals(Loaded)[e] <= Totals(Loaded)'[e]
<1>1. UNCHANGED <<now, instance, expected>> /\ Totals(instance)' = Totals(instance)
  BY DEF WriteBackup, ghosts, Totals
<1>2. instance # NoInstance /\ instance \in Kept /\ instance \in Data
  BY InsideFacts DEF WriteBackup, Inside, CountInv
<1>3. Totals(Loaded)' = Totals(Loaded')
  BY DEF Totals
<1>4. /\ \A e \in Endpoints : Totals(Loaded)[e] \in Nat /\ expected[e] \in Nat
      /\ \A e \in Endpoints : Totals(Loaded)[e] <= expected[e]
  BY TotalsKinds DEF CountInv
<1>5. CASE file' = instance
  <2>1. Loaded' = instance
    BY <1>2, <1>5, SentinelAssumption DEF Loaded
  <2>2. Totals(Loaded)' = expected
    BY <1>2, <1>3, <2>1 DEF CountInv
  <2> QED
    BY <1>1, <1>2, <1>4, <2>1, <2>2 DEF CountInv
<1>6. CASE file' = file
  <2>1. Loaded' = Loaded /\ Totals(Loaded)' = Totals(Loaded)
    BY <1>3, <1>6 DEF Loaded
  <2> QED
    BY <1>1, <1>2, <1>4, <2>1 DEF CountInv
<1>7. CASE file' = TornFile
  <2>1. Loaded' = NewInstance
    BY <1>7 DEF Loaded, NewInstance
  <2>2. Loaded' \in Kept /\ \A e \in Endpoints : Totals(Loaded)'[e] = 0
    BY <1>3, <2>1, NewInstanceIsEmpty DEF NoCounts
  <2> QED
    BY <1>1, <1>2, <1>4, <1>7, <2>2 DEF CountInv
<1> QED
  BY <1>5, <1>6, <1>7 DEF WriteBackup

LEMMA CountNext == ASSUME IInv, CountInv, [Next]_vars PROVE CountInv'
<1>1. CASE Restart
  <2>1. UNCHANGED <<now, file>> /\ Loaded' = Loaded /\ instance' = NoInstance
        /\ expected' = Totals(Loaded)
    BY <1>1 DEF Restart, world, Loaded
  <2>2. Totals(Loaded)' = Totals(Loaded)
    BY <2>1 DEF Totals
  <2>3. /\ Totals(Loaded) \in [Endpoints -> Nat]
        /\ \A e \in Endpoints : Totals(Loaded)[e] <= Totals(Loaded)[e]
    BY TotalsKinds DEF CountInv
  <2> QED
    BY <2>1, <2>2, <2>3 DEF CountInv
<1>2. CASE Tick \/ UNCHANGED vars
  <2>1. UNCHANGED <<file, instance, expected>> /\ Loaded' = Loaded
    BY <1>2 DEF Tick, vars, world, ghosts, Loaded
  <2>2. Totals(instance)' = Totals(instance) /\ Totals(Loaded)' = Totals(Loaded)
    BY <2>1 DEF Totals
  <2>3. now' <= MaxTime
    BY <1>2, StatisticsAssumption DEF Tick, vars, world, CountInv, IInv, Kinds
  <2> QED
    BY <2>1, <2>2, <2>3 DEF CountInv
<1>3. ASSUME NEW t \in Threads, Call(t) \/ CountingStep(t) PROVE CountInv'
  BY <1>3, WalkKeepsCount, LoadKeepsCount, CountKeepsCount, StampKeepsCount, WriteKeepsCount
     DEF CountingStep
<1> QED
  BY <1>1, <1>2, <1>3 DEF Next

\* Whichever threads find no instance and load it, and however their
\* increments interleave, no call is lost and none is counted twice, for any
\* number of threads, calls and restarts.
THEOREM CallsAreCounted == Spec => []EveryCallCounted
<1>1. IInv /\ CountInv /\ [Next]_vars => CountInv'
  BY CountNext
<1>2. IInv /\ CountInv => EveryCallCounted
  BY DEF CountInv, EveryCallCounted
<1> QED
  BY <1>1, <1>2, InitInv, NextKeepsInv, CountInit, PTL DEF Spec

\* A write never replaces what the file keeps by less, unless it tears it,
\* whatever writes failed before and whatever the process has lost.
THEOREM FileNeverShrinks == Spec => FileNeverFallsBack
<1> DEFINE Keeps == \A e \in Endpoints : Totals(Loaded)[e] <= Totals(Loaded)'[e]
<1>1. ASSUME IInv, CountInv, [Next]_vars PROVE file' # TornFile => Keeps
  <2>1. ASSUME UNCHANGED file PROVE Keeps
    <3>1. Loaded' = Loaded
      BY <2>1 DEF Loaded
    <3>2. Totals(Loaded)' = Totals(Loaded)
      BY <3>1 DEF Totals
    <3>3. Totals(Loaded) \in [Endpoints -> Nat]
      BY <1>1, TotalsKinds DEF CountInv
    <3> QED
      BY <3>2, <3>3
  <2>2. ASSUME NEW t \in Threads, Call(t) \/ CountingStep(t), ~WriteBackup(t)
        PROVE  UNCHANGED file
    BY <2>2 DEF CountingStep, Call, LookForInstance, LoadInstance, LockHistory, CompareDate,
                AddDate, StampBackup, UnlockHistory, SerialiseEntry, SendReport, world
  <2>3. ASSUME NEW t \in Threads, WriteBackup(t) PROVE file' # TornFile => Keeps
    BY <1>1, <2>3, WriteKeepsCount
  <2>4. CASE Tick \/ Restart \/ UNCHANGED vars
    BY <2>1, <2>4 DEF Tick, Restart, vars, world
  <2> QED
    BY <1>1, <2>1, <2>2, <2>3, <2>4 DEF Next
<1>2. IInv /\ CountInv /\ [Next]_vars => CountInv'
  BY CountNext
<1>3. IInv /\ CountInv /\ [Next]_vars => [file' # TornFile => Keeps]_vars
  BY <1>1
<1> QED
  BY <1>2, <1>3, InitInv, NextKeepsInv, CountInit, PTL DEF Spec, FileNeverFallsBack

-----------------------------------------------------------------------------
(***************************************************************************)
(* The calls counted and those on their way to it stay within MaxCalls.    *)
(***************************************************************************)
BoundInv == SumFunctionOnSet(expected, Endpoints) + Cardinality(Uncounted) <= MaxCalls

LEMMA UncountedKinds ==
    ASSUME NEW s, s \subseteq Threads
    PROVE  IsFiniteSet(s) /\ Cardinality(s) \in Nat
  BY StatisticsAssumption, FS_Subset, FS_CardinalityType

LEMMA SumOfExpected ==
    ASSUME CountInv
    PROVE  SumFunctionOnSet(expected, Endpoints) \in Nat
           /\ SumFunction(expected) = SumFunctionOnSet(expected, Endpoints)
<1>1. DOMAIN expected = Endpoints /\ \A e \in Endpoints : expected[e] \in Nat
  BY DEF CountInv
<1>2. SumFunctionOnSet(expected, Endpoints) \in Nat
  BY <1>1, StatisticsAssumption, SumIsNat
<1>3. SumFunction(expected) = SumFunctionOnSet(expected, DOMAIN expected)
  BY Zenon DEF SumFunction
<1> QED
  BY <1>1, <1>2, <1>3

LEMMA BoundInit == Init => BoundInv
<1> SUFFICES ASSUME Init PROVE BoundInv
  OBVIOUS
<1>1. Uncounted = {} /\ Cardinality({}) = 0
  BY FS_EmptySet DEF Init, Uncounted
<1>2. SumFunctionOnSet(expected, Endpoints) = 0
  <2>1. CountInv /\ \A e \in Endpoints : expected[e] = 0
    BY CountInit DEF Init, NoCounts
  <2> DEFINE F == {s \in SUBSET Endpoints : SumFunctionOnSet(expected, s) = 0}
  <2>2. {} \in F
    BY SumEmpty
  <2>3. ASSUME NEW s \in SUBSET Endpoints, s # {}, \A x \in s : s \ {x} \in F PROVE s \in F
    <3>1. PICK x \in s : TRUE
      BY <2>3
    <3>2. IsFiniteSet(s) /\ \A y \in s : expected[y] \in Int
      BY <2>1, StatisticsAssumption, FS_Subset
    <3>3. SumFunctionOnSet(expected, s) = expected[x] + SumFunctionOnSet(expected, s \ {x})
      BY <3>2, SumRemove
    <3> QED
      BY <2>1, <2>3, <3>3
  <2> HIDE DEF F
  <2>4. SUBSET Endpoints \subseteq F
    BY <2>2, <2>3, StatisticsAssumption, FiniteSetInduction
  <2> QED
    BY <2>4 DEF F
<1> QED
  BY <1>1, <1>2, StatisticsAssumption DEF BoundInv

\* A call that comes: CallsLeft has room for it.
LEMMA CallKeepsBound ==
    ASSUME IInv, CountInv, BoundInv, NEW t \in Threads, Call(t)
    PROVE  BoundInv'
<1> DEFINE busy == {u \in Threads : pc[u] # "idle"}
<1>1. Uncounted' \subseteq busy \cup {t} /\ t \notin busy /\ expected' = expected
  BY DEF Call, Goto, IInv, Kinds, Uncounted, ghosts
<1>2. SumFunctionOnSet(expected, Endpoints) + Cardinality(busy) < MaxCalls
  BY SumOfExpected DEF Call, CallsLeft
<1>3. IsFiniteSet(busy) /\ Cardinality(busy) \in Nat
  BY UncountedKinds
<1> HIDE DEF busy
<1>4. IsFiniteSet(busy \cup {t}) /\ Cardinality(busy \cup {t}) = Cardinality(busy) + 1
  BY <1>1, <1>3, FS_AddElement
<1>5. Cardinality(Uncounted') \in Nat /\ Cardinality(Uncounted') <= Cardinality(busy) + 1
  BY <1>1, <1>4, FS_Subset, FS_CardinalityType
<1>6. /\ SumFunctionOnSet(expected, Endpoints)' = SumFunctionOnSet(expected, Endpoints)
      /\ Cardinality(Uncounted)' = Cardinality(Uncounted')
  BY <1>1
<1> QED
  BY <1>2, <1>3, <1>5, <1>6, SumOfExpected, StatisticsAssumption DEF BoundInv

\* A call that is counted.
LEMMA CountKeepsBound ==
    ASSUME IInv, CountInv, BoundInv, NEW t \in Threads,
           (CompareDate(t) /\ ~Goto(t, "add")) \/ AddDate(t)
    PROVE  BoundInv'
<1>1. /\ endpoint[t] \in Endpoints
      /\ pc' = [pc EXCEPT ![t] = "backup"]
      /\ expected' = [expected EXCEPT ![endpoint[t]] = @ + 1]
  BY Increments DEF Goto, Counted
<1>2. Uncounted' = Uncounted \ {t} /\ t \in Uncounted /\ Uncounted \subseteq Threads
  BY <1>1 DEF Uncounted, CompareDate, AddDate, IInv, Kinds
<1>3. IsFiniteSet(Uncounted) /\ Cardinality(Uncounted) \in Nat
  BY <1>2, UncountedKinds
<1>4. Cardinality(Uncounted \ {t}) = Cardinality(Uncounted) - 1
  BY <1>2, <1>3, FS_RemoveElement
<1>5. Cardinality(Uncounted)' = Cardinality(Uncounted) - 1
  BY <1>2, <1>4
<1>6. SumFunctionOnSet(expected', Endpoints) = SumFunctionOnSet(expected, Endpoints) + 1
  <2> DEFINE e == endpoint[t]
             c == expected
             d == expected'
  <2>1. e \in Endpoints /\ IsFiniteSet(Endpoints)
        /\ (\A i \in Endpoints : c[i] \in Int)
        /\ \A i \in Endpoints : d[i] = IF i = e THEN c[i] + 1 ELSE c[i]
    BY <1>1, StatisticsAssumption DEF CountInv
  <2> HIDE DEF e, c, d
  <2>2. SumFunctionOnSet(d, Endpoints) = SumFunctionOnSet(c, Endpoints) + 1
    BY <2>1, SumGainsOne
  <2> QED
    BY <2>2 DEF c, d
<1>7. SumFunctionOnSet(expected, Endpoints)' = SumFunctionOnSet(expected, Endpoints) + 1
  BY <1>6
<1> QED
  BY <1>3, <1>5, <1>7, SumOfExpected, StatisticsAssumption DEF BoundInv

LEMMA BoundStays ==
    ASSUME BoundInv, UNCHANGED expected, Uncounted' = Uncounted
    PROVE  BoundInv'
<1>1. /\ SumFunctionOnSet(expected, Endpoints)' = SumFunctionOnSet(expected, Endpoints)
      /\ Cardinality(Uncounted)' = Cardinality(Uncounted)
  OBVIOUS
<1> QED
  BY <1>1 DEF BoundInv

\* A restart forgets calls that the file has not.
LEMMA RestartKeepsBound ==
    ASSUME IInv, CountInv, BoundInv, Restart
    PROVE  BoundInv'
<1>1. Uncounted' = {} /\ Cardinality({}) = 0 /\ expected' = Totals(Loaded)
  BY FS_EmptySet DEF Restart, Uncounted
<1>2. \A e \in Endpoints : /\ Totals(Loaded)[e] \in Int /\ expected[e] \in Int
                           /\ Totals(Loaded)[e] <= expected[e]
  BY TotalsKinds DEF CountInv
<1>3. SumFunctionOnSet(Totals(Loaded), Endpoints) <= SumFunctionOnSet(expected, Endpoints)
  BY <1>2, StatisticsAssumption, SumGrows
<1>4. SumFunctionOnSet(Totals(Loaded), Endpoints) \in Int
  BY <1>2, StatisticsAssumption, SumIsInt
<1>5. Cardinality(Uncounted) \in Nat
  BY UncountedKinds DEF Uncounted
<1>6. /\ SumFunctionOnSet(expected, Endpoints)' = SumFunctionOnSet(Totals(Loaded), Endpoints)
      /\ Cardinality(Uncounted)' = 0
  BY <1>1
<1> QED
  BY <1>3, <1>4, <1>5, <1>6, SumOfExpected, StatisticsAssumption DEF BoundInv

LEMMA BoundNext == ASSUME IInv, CountInv, BoundInv, [Next]_vars PROVE BoundInv'
<1>1. CASE Restart
  BY <1>1, RestartKeepsBound
<1>2. CASE Tick \/ UNCHANGED vars
  BY <1>2, BoundStays DEF Tick, vars, ghosts, Uncounted
<1>3. ASSUME NEW t \in Threads, Call(t) PROVE BoundInv'
  BY <1>3, CallKeepsBound
<1>4. ASSUME NEW t \in Threads, CompareDate(t) \/ AddDate(t) PROVE BoundInv'
  <2>1. CASE CompareDate(t) /\ Goto(t, "add")
    <3>1. UNCHANGED expected /\ Uncounted' = Uncounted
      BY <2>1 DEF CompareDate, Goto, IInv, Kinds, Uncounted, ghosts
    <3> QED
      BY <3>1, BoundStays
  <2> QED
    BY <1>4, <2>1, CountKeepsBound
<1>5. ASSUME NEW t \in Threads,
             \/ LookForInstance(t) \/ LoadInstance(t) \/ LockHistory(t)
             \/ StampBackup(t) \/ WriteBackup(t) \/ UnlockHistory(t)
             \/ (\E e \in Endpoints : SerialiseEntry(t, e)) \/ SendReport(t)
      PROVE  BoundInv'
  <2>1. UNCHANGED expected
    BY <1>5 DEF LookForInstance, LoadInstance, LockHistory, StampBackup, WriteBackup,
                UnlockHistory, SerialiseEntry, SendReport, ghosts
  <2>2. Uncounted' = Uncounted
    BY <1>5 DEF LookForInstance, LoadInstance, LockHistory, StampBackup, WriteBackup,
                UnlockHistory, SerialiseEntry, SendReport, Goto, Uncounted, IInv, Kinds
  <2> QED
    BY <2>1, <2>2, BoundStays
<1> QED
  BY <1>1, <1>2, <1>3, <1>4, <1>5 DEF Next, CountingStep

-----------------------------------------------------------------------------
(***************************************************************************)
(* An answer on its way.  Of the entries that are written there are as     *)
(* many as the list has, or one more while that one is being added; the    *)
(* calls that they say are at most those of these entries by now; and      *)
(* whatever the GET has to report is in them or in the entries to come.    *)
(***************************************************************************)
Answers == [entries : Nat, calls : Nat, whole : BOOLEAN]

Written(r, h) == IF r.entries <= Len(h) THEN r.entries ELSE Len(h)

Follows(r, least, h, adding) ==
    /\ r.entries <= Len(h) + (IF adding THEN 1 ELSE 0)
    /\ r.calls <= CallsUpTo(h, Written(r, h)) + (IF r.entries > Len(h) THEN 1 ELSE 0)
    /\ least <= r.calls + (IF r.whole THEN 0
                           ELSE CallsUpTo(h, Len(h)) - CallsUpTo(h, Written(r, h)))

ReportInv ==
    /\ report \in [Threads -> [Endpoints -> Answers]]
    /\ known \in [Threads -> [Endpoints -> Nat]]
    /\ \A t \in Threads : pc[t] # "report" => report[t] = Unread /\ known[t] = NoCounts
    /\ \A t \in Threads : pc[t] = "report" =>
          \A e \in Endpoints :
             Follows(report[t][e], known[t][e], instance.history[e], BeingAdded(e))

LEMMA WrittenKinds ==
    ASSUME NEW r \in Answers, NEW h \in Seq(Days)
    PROVE  /\ Len(h) \in Nat /\ r.entries \in Nat /\ r.calls \in Nat /\ r.whole \in BOOLEAN
           /\ Written(r, h) \in 0 .. Len(h)
           /\ CallsUpTo(h, Written(r, h)) \in Nat /\ CallsUpTo(h, Len(h)) \in Nat
           /\ CallsUpTo(h, Written(r, h)) <= CallsUpTo(h, Len(h))
<1>1. Len(h) \in Nat /\ r.entries \in Nat /\ r.calls \in Nat /\ r.whole \in BOOLEAN
  BY DEF Answers
<1>2. Written(r, h) \in 0 .. Len(h)
  BY <1>1 DEF Written
<1> DEFINE n == Written(r, h)
<1> HIDE DEF n
<1>3. n \in 0 .. Len(h)
  BY <1>2 DEF n
<1>4. CallsUpTo(h, n) \in Nat /\ CallsUpTo(h, Len(h)) \in Nat
  BY <1>1, <1>3, CallsUpToNext
<1>5. CallsUpTo(h, n) + (Len(h) - n) <= CallsUpTo(h, Len(h))
  BY <1>3, RestHasCalls
<1>6. CallsUpTo(h, n) <= CallsUpTo(h, Len(h))
  BY <1>1, <1>3, <1>4, <1>5
<1> QED
  BY <1>1, <1>3, <1>4, <1>6 DEF n

\* An answer begins with nothing written and all to come.
LEMMA FollowsAtFirst ==
    ASSUME NEW h \in Seq(Days), NEW r, r = [entries |-> 0, calls |-> 0, whole |-> FALSE],
           NEW adding \in BOOLEAN
    PROVE  Follows(r, CallsUpTo(h, Len(h)), h, adding)
<1>1. Len(h) \in Nat /\ Written(r, h) = 0 /\ CallsUpTo(h, 0) = 0 /\ CallsUpTo(h, Len(h)) \in Nat
  <2>1. Len(h) \in Nat
    OBVIOUS
  <2> QED
    BY <2>1, CallsUpToNext DEF Written
<1> QED
  BY <1>1 DEF Follows

\* An entry of the list is written.
LEMMA FollowsEntry ==
    ASSUME NEW h \in Seq(Days), NEW r \in Answers, NEW least \in Nat, NEW adding \in BOOLEAN,
           Follows(r, least, h, adding), ~r.whole, r.entries + 1 <= Len(h),
           NEW q \in Answers, q.entries = r.entries + 1, q.whole = r.whole,
           q.calls = r.calls + h[r.entries + 1].count
    PROVE  Follows(q, least, h, adding)
<1>1. Len(h) \in Nat /\ r.entries \in Nat /\ r.calls \in Nat /\ CallsUpTo(h, Len(h)) \in Nat
  BY WrittenKinds
<1>2. Written(r, h) = r.entries /\ Written(q, h) = r.entries + 1
  BY <1>1 DEF Written
<1>3. CallsUpTo(h, r.entries + 1) = CallsUpTo(h, r.entries) + h[r.entries + 1].count
      /\ CallsUpTo(h, r.entries) \in Nat
  BY <1>1, CallsUpToNext
<1>4. h[r.entries + 1].count \in Nat
  BY <1>1, DaysKinds
<1> QED
  BY <1>1, <1>2, <1>3, <1>4 DEF Follows

\* The entry that is being added is written, with or without its call.
LEMMA FollowsHalfMade ==
    ASSUME NEW h \in Seq(Days), NEW r \in Answers, NEW least \in Nat,
           Follows(r, least, h, TRUE), ~r.whole, r.entries = Len(h),
           NEW seen \in {0, 1},
           NEW q \in Answers, q.entries = r.entries + 1, q.whole = r.whole,
           q.calls = r.calls + seen
    PROVE  Follows(q, least, h, TRUE)
<1>1. Len(h) \in Nat /\ r.entries \in Nat /\ r.calls \in Nat /\ CallsUpTo(h, Len(h)) \in Nat
  BY WrittenKinds
<1>2. Written(r, h) = Len(h) /\ Written(q, h) = Len(h)
  BY <1>1 DEF Written
<1> QED
  BY <1>1, <1>2 DEF Follows

\* The end of the list is found.
LEMMA FollowsToEnd ==
    ASSUME NEW h \in Seq(Days), NEW r \in Answers, NEW least \in Nat, NEW adding \in BOOLEAN,
           Follows(r, least, h, adding), ~r.whole, r.entries + 1 > Len(h),
           NEW q \in Answers, q.entries = r.entries, q.calls = r.calls, q.whole = TRUE
    PROVE  Follows(q, least, h, adding)
<1>1. Len(h) \in Nat /\ r.entries \in Nat /\ r.calls \in Nat /\ CallsUpTo(h, Len(h)) \in Nat
  BY WrittenKinds
<1>2. Written(r, h) = Len(h) /\ Written(q, h) = Len(h)
  BY <1>1 DEF Written
<1> QED
  BY <1>1, <1>2 DEF Follows

\* A call of a day that has its entry, written already or not.
LEMMA FollowsSameDay ==
    ASSUME NEW h \in Seq(Days), NEW r \in Answers, NEW least \in Nat, NEW adding \in BOOLEAN,
           Follows(r, least, h, adding), Len(h) # 0
    PROVE  Follows(r, least, [h EXCEPT ![Len(h)].count = @ + 1], adding)
<1> DEFINE g == [h EXCEPT ![Len(h)].count = @ + 1]
<1>1. /\ g \in Seq(Days) /\ Len(g) = Len(h)
      /\ \A n \in 0 .. Len(h) :
            CallsUpTo(g, n) = CallsUpTo(h, n) + (IF n = Len(h) THEN 1 ELSE 0)
  BY CallsOfSameDay
<1> HIDE DEF g
<1>2. /\ Len(h) \in Nat /\ r.entries \in Nat /\ r.calls \in Nat /\ r.whole \in BOOLEAN
      /\ Written(r, h) \in 0 .. Len(h)
      /\ CallsUpTo(h, Written(r, h)) \in Nat /\ CallsUpTo(h, Len(h)) \in Nat
  BY WrittenKinds
<1>3. Written(r, g) = Written(r, h)
  BY <1>1 DEF Written
<1>4. /\ CallsUpTo(g, Written(r, g)) =
            CallsUpTo(h, Written(r, h)) + (IF Written(r, h) = Len(h) THEN 1 ELSE 0)
      /\ CallsUpTo(g, Len(g)) = CallsUpTo(h, Len(h)) + 1
  BY <1>1, <1>2, <1>3
<1>5. Follows(r, least, g, adding)
  BY <1>1, <1>2, <1>4 DEF Follows
<1> QED
  BY <1>5 DEF g

\* A new entry, which may have been written half-made.
LEMMA FollowsNewDay ==
    ASSUME NEW h \in Seq(Days), NEW r \in Answers, NEW least \in Nat, NEW adding \in BOOLEAN,
           Follows(r, least, h, adding), NEW day \in 0 .. Day(MaxTime)
    PROVE  Follows(r, least, Append(h, [date |-> day, count |-> 1]), FALSE)
<1> DEFINE g == Append(h, [date |-> day, count |-> 1])
<1>1. /\ g \in Seq(Days) /\ Len(g) = Len(h) + 1
      /\ \A n \in 0 .. Len(h) : CallsUpTo(g, n) = CallsUpTo(h, n)
      /\ CallsUpTo(g, Len(g)) = CallsUpTo(h, Len(h)) + 1
  BY CallsOfNewDay
<1> HIDE DEF g
<1>2. /\ Len(h) \in Nat /\ r.entries \in Nat /\ r.calls \in Nat /\ r.whole \in BOOLEAN
      /\ Written(r, h) \in 0 .. Len(h)
      /\ CallsUpTo(h, Written(r, h)) \in Nat /\ CallsUpTo(h, Len(h)) \in Nat
  BY WrittenKinds
<1>3. CASE r.entries <= Len(h)
  <2>1. Written(r, g) = r.entries /\ Written(r, h) = r.entries
    BY <1>1, <1>2, <1>3 DEF Written
  <2>2. CallsUpTo(g, Written(r, g)) = CallsUpTo(h, Written(r, h))
    BY <1>1, <1>2, <2>1
  <2>3. Follows(r, least, g, FALSE)
    BY <1>1, <1>2, <1>3, <2>2 DEF Follows
  <2> QED
    BY <2>3 DEF g
<1>4. CASE r.entries > Len(h)
  <2>1. r.entries = Len(g) /\ Written(r, g) = Len(g) /\ Written(r, h) = Len(h)
    BY <1>1, <1>2, <1>4 DEF Written, Follows
  <2>2. Follows(r, least, g, FALSE)
    BY <1>1, <1>2, <1>4, <2>1 DEF Follows
  <2> QED
    BY <2>2 DEF g
<1>5. r.entries <= Len(h) \/ r.entries > Len(h)
  BY <1>2
<1> QED
  BY <1>3, <1>4, <1>5, Zenon

LEMMA FollowsWeaker ==
    ASSUME NEW h \in Seq(Days), NEW r \in Answers, NEW least \in Nat,
           Follows(r, least, h, FALSE), NEW adding \in BOOLEAN
    PROVE  Follows(r, least, h, adding)
<1>1. Len(h) \in Nat /\ r.entries \in Nat
  BY WrittenKinds
<1> QED
  BY <1>1 DEF Follows

-----------------------------------------------------------------------------
LEMMA ReportInit == Init => ReportInv
  BY DEF Init, ReportInv, Unread, NoCounts, Answers

\* What the thread that writes an answer has before it.
LEMMA ReportFacts ==
    ASSUME IInv, CountInv, ReportInv, NEW t \in Threads, pc[t] = "report", NEW e \in Endpoints
    PROVE  /\ instance # NoInstance /\ instance \in Kept
           /\ instance.history[e] \in Seq(Days)
           /\ report[t][e] \in Answers /\ known[t][e] \in Nat /\ BeingAdded(e) \in BOOLEAN
           /\ Follows(report[t][e], known[t][e], instance.history[e], BeingAdded(e))
<1>1. instance # NoInstance
  BY DEF IInv, HasInstance
<1>2. instance \in Kept
  BY <1>1 DEF CountInv
<1>3. instance.history[e] \in Seq(Days)
  BY <1>2, TotalsKinds
<1>4. BeingAdded(e) \in BOOLEAN
  BY DEF BeingAdded
<1> QED
  BY <1>1, <1>2, <1>3, <1>4 DEF ReportInv

\* Nothing changes for the answers on their way.
LEMMA ReportStays ==
    ASSUME ReportInv, UNCHANGED reports,
           \A t \in Threads : pc'[t] = "report" <=> pc[t] = "report",
           (\E t \in Threads : pc[t] = "report") =>
                /\ instance'.history = instance.history
                /\ \A e \in Endpoints : BeingAdded(e)' = BeingAdded(e)
    PROVE  ReportInv'
<1>1. ASSUME NEW t \in Threads, pc'[t] = "report", NEW e \in Endpoints
      PROVE  Follows(report[t][e], known[t][e], instance.history[e], BeingAdded(e))'
  <2>1. Follows(report[t][e], known[t][e], instance.history[e], BeingAdded(e))
    BY <1>1 DEF ReportInv
  <2>2. /\ report' = report /\ known' = known /\ instance'.history = instance.history
        /\ BeingAdded(e)' = BeingAdded(e)
    BY <1>1 DEF reports
  <2> QED
    BY <2>1, <2>2 DEF Follows, Written, CallsUpTo
<1> QED
  BY <1>1 DEF ReportInv, reports

\* The GET goes on when it has counted itself and left the lock.
LEMMA UnlockKeepsReport ==
    ASSUME IInv, CountInv, ReportInv, NEW t \in Threads, UnlockHistory(t)
    PROVE  ReportInv'
<1>1. UNCHANGED <<instance, report, endpoint>>
      /\ \A e \in Endpoints : BeingAdded(e)' = BeingAdded(e)
  BY DEF UnlockHistory, Goto, IInv, Kinds, BeingAdded
<1>2. CASE Goto(t, "idle") /\ UNCHANGED known
  <2>1. \A u \in Threads : pc'[u] = "report" <=> pc[u] = "report"
    BY <1>2 DEF UnlockHistory, Goto, IInv, Kinds
  <2> QED
    BY <1>1, <1>2, <2>1, ReportStays DEF reports
<1>3. CASE Goto(t, "report") /\ known' = [known EXCEPT ![t] = Totals(instance)]
  <2>1. instance # NoInstance /\ instance \in Kept
    BY InsideFacts DEF UnlockHistory, Inside, CountInv
  <2>2. Totals(instance) \in [Endpoints -> Nat]
    BY <2>1, TotalsKinds
  <2>3. /\ pc' = [pc EXCEPT ![t] = "report"] /\ pc[t] = "unlock" /\ t \in DOMAIN pc
        /\ known' \in [Threads -> [Endpoints -> Nat]]
        /\ \A u \in Threads : known'[u] = IF u = t THEN Totals(instance) ELSE known[u]
    BY <1>3, <2>2 DEF UnlockHistory, Goto, IInv, Kinds, ReportInv
  <2>4. ASSUME NEW u \in Threads, pc'[u] = "report", NEW e \in Endpoints
        PROVE  Follows(report[u][e], known[u][e], instance.history[e], BeingAdded(e))'
    <3>1. Follows(report[u][e], known'[u][e], instance.history[e], BeingAdded(e))
      <4>1. CASE u = t
        <5>1. report[t][e] = [entries |-> 0, calls |-> 0, whole |-> FALSE]
          BY <2>3 DEF ReportInv, Unread
        <5>2. instance.history[e] \in Seq(Days) /\ BeingAdded(e) \in BOOLEAN
              /\ Totals(instance)[e] = CallsUpTo(instance.history[e], Len(instance.history[e]))
          BY <2>1, TotalsKinds DEF BeingAdded
        <5>3. known'[t][e] = CallsUpTo(instance.history[e], Len(instance.history[e]))
          BY <2>3, <5>2
        <5> QED
          BY <4>1, <5>1, <5>2, <5>3, FollowsAtFirst
      <4>2. CASE u # t
        <5>1. pc[u] = "report" /\ known'[u] = known[u]
          BY <2>3, <2>4, <4>2 DEF IInv, Kinds
        <5> QED
          BY <5>1 DEF ReportInv
      <4> QED
        BY <4>1, <4>2
    <3> QED
      BY <1>1, <3>1 DEF Follows, Written, CallsUpTo
  <2>5. \A u \in Threads : pc'[u] # "report" => report'[u] = Unread /\ known'[u] = NoCounts
    BY <1>1, <2>3 DEF ReportInv, IInv, Kinds
  <2> QED
    BY <1>1, <2>3, <2>4, <2>5 DEF ReportInv
<1> QED
  BY <1>2, <1>3 DEF UnlockHistory

\* An entry is written, half-made or whole, or the end of the list is found.
LEMMA SerialiseKeepsReport ==
    ASSUME IInv, CountInv, ReportInv, NEW t \in Threads, NEW e \in Endpoints,
           SerialiseEntry(t, e)
    PROVE  ReportInv'
<1> DEFINE h == instance.history[e]
           r == report[t][e]
           q == report'[t][e]
<1>1. UNCHANGED <<instance, pc, endpoint, known>> /\ pc[t] = "report" /\ ~r.whole
  BY DEF SerialiseEntry
<1>2. /\ h \in Seq(Days) /\ r \in Answers /\ known[t][e] \in Nat /\ BeingAdded(e) \in BOOLEAN
      /\ Follows(r, known[t][e], h, BeingAdded(e))
  BY <1>1, ReportFacts
<1>3. Len(h) \in Nat /\ r.entries \in Nat /\ r.calls \in Nat /\ r.whole \in BOOLEAN
  BY <1>2, WrittenKinds
<1>4. \A f \in Endpoints : BeingAdded(f)' = BeingAdded(f)
  BY <1>1 DEF BeingAdded
<1>5. /\ \A u \in Threads, f \in Endpoints : ~(u = t /\ f = e) => report'[u][f] = report[u][f]
      /\ q \in Answers => report' \in [Threads -> [Endpoints -> Answers]]
  <2>1. PICK x : report' = [report EXCEPT ![t] = [report[t] EXCEPT ![e] = x]]
    <3> DEFINE set(x) == [report EXCEPT ![t] = [report[t] EXCEPT ![e] = x]]
    <3>1. \A next, calls :
             [report EXCEPT ![t][e].entries = next, ![t][e].calls = calls]
                = set([r EXCEPT !.entries = next, !.calls = calls])
      BY DEF ReportInv
    <3>2. [report EXCEPT ![t][e].whole = TRUE] = set([r EXCEPT !.whole = TRUE])
      BY DEF ReportInv
    <3>3. \/ \E next, calls :
                report' = [report EXCEPT ![t][e].entries = next, ![t][e].calls = calls]
          \/ report' = [report EXCEPT ![t][e].whole = TRUE]
      BY Zenon DEF SerialiseEntry
    <3> HIDE DEF set
    <3>4. \E x : report' = set(x)
      <4>1. ASSUME NEW next, NEW calls,
                   report' = [report EXCEPT ![t][e].entries = next, ![t][e].calls = calls]
            PROVE  report' = set([r EXCEPT !.entries = next, !.calls = calls])
        BY <3>1, <4>1
      <4>2. ASSUME report' = [report EXCEPT ![t][e].whole = TRUE]
            PROVE  report' = set([r EXCEPT !.whole = TRUE])
        BY <3>2, <4>2
      <4> QED
        BY <3>3, <4>1, <4>2, Zenon
    <3> QED
      BY <3>4 DEF set
  <2> QED
    BY <2>1 DEF ReportInv
<1>6. q \in Answers /\ Follows(q, known[t][e], h, BeingAdded(e))
  <2>1. CASE /\ r.entries + 1 <= Len(h)
             /\ report' = [report EXCEPT ![t][e].entries = r.entries + 1,
                                         ![t][e].calls = @ + h[r.entries + 1].count]
    <3>1. /\ q.entries = r.entries + 1 /\ q.whole = r.whole
          /\ q.calls = r.calls + h[r.entries + 1].count
          /\ q = [entries |-> r.entries + 1, calls |-> r.calls + h[r.entries + 1].count,
                  whole |-> r.whole]
      BY <1>2, <2>1 DEF ReportInv, Answers
    <3>2. h[r.entries + 1].count \in Nat
      BY <1>2, <1>3, <2>1, DaysKinds
    <3>3. q \in Answers
      <4> DEFINE n == h[r.entries + 1].count
                 k == r.entries
                 c == r.calls
      <4> HIDE DEF n, k, c
      <4>0. n \in Nat /\ k \in Nat /\ c \in Nat
        BY <1>3, <3>2 DEF n, k, c
      <4>1. r.entries + 1 \in Nat /\ r.calls + h[r.entries + 1].count \in Nat
        <5>1. k + 1 \in Nat /\ c + n \in Nat
          BY <4>0
        <5> QED
          BY <5>1 DEF n, k, c
      <4> QED
        BY <1>3, <3>1, <4>1 DEF Answers
    <3> HIDE DEF q, r, h
    <3> QED
      BY <1>1, <1>2, <2>1, <3>1, <3>3, FollowsEntry
  <2>2. CASE /\ r.entries + 1 = Len(h) + 1 /\ BeingAdded(e)
             /\ \E seen \in {0, 1} :
                   report' = [report EXCEPT ![t][e].entries = r.entries + 1,
                                            ![t][e].calls = @ + seen]
    <3>1. PICK seen \in {0, 1} :
             report' = [report EXCEPT ![t][e].entries = r.entries + 1, ![t][e].calls = @ + seen]
      BY <2>2
    <3>2. /\ q.entries = r.entries + 1 /\ q.whole = r.whole /\ q.calls = r.calls + seen
          /\ q = [entries |-> r.entries + 1, calls |-> r.calls + seen, whole |-> r.whole]
      BY <1>2, <3>1 DEF ReportInv, Answers
    <3>3. q \in Answers /\ r.entries = Len(h)
      <4>1. r.entries + 1 \in Nat /\ r.calls + seen \in Nat /\ r.entries = Len(h)
        BY <1>3, <2>2
      <4> QED
        BY <1>3, <3>2, <4>1 DEF Answers
    <3> DEFINE adding == BeingAdded(e)
    <3>4. adding = TRUE
      BY <2>2
    <3> HIDE DEF q, r, h, adding
    <3>5. Follows(r, known[t][e], h, TRUE)
      BY <1>2, <3>4 DEF adding
    <3>6. Follows(q, known[t][e], h, TRUE)
      BY <1>1, <1>2, <3>2, <3>3, <3>5, FollowsHalfMade
    <3> QED
      BY <3>3, <3>4, <3>6 DEF adding
  <2>3. CASE r.entries + 1 > Len(h) /\ report' = [report EXCEPT ![t][e].whole = TRUE]
    <3>1. /\ q.entries = r.entries /\ q.calls = r.calls /\ q.whole = TRUE
          /\ q = [entries |-> r.entries, calls |-> r.calls, whole |-> TRUE]
      BY <1>2, <2>3 DEF ReportInv, Answers
    <3>2. q \in Answers
      BY <1>3, <3>1 DEF Answers
    <3> HIDE DEF q, r, h
    <3> QED
      BY <1>1, <1>2, <2>3, <3>1, <3>2, FollowsToEnd
  <2> QED
    BY <2>1, <2>2, <2>3 DEF SerialiseEntry
<1>7. ASSUME NEW u \in Threads, pc'[u] = "report", NEW f \in Endpoints
      PROVE  Follows(report[u][f], known[u][f], instance.history[f], BeingAdded(f))'
  <2>1. Follows(report'[u][f], known[u][f], instance.history[f], BeingAdded(f))
    <3>1. CASE u = t /\ f = e
      BY <1>6, <3>1
    <3>2. CASE ~(u = t /\ f = e)
      BY <1>1, <1>5, <1>7, <3>2 DEF ReportInv
    <3> QED
      BY <3>1, <3>2
  <2> QED
    BY <1>1, <1>4, <2>1 DEF Follows, Written, CallsUpTo
<1>8. \A u \in Threads : pc'[u] # "report" => report'[u] = Unread /\ known'[u] = NoCounts
  <2>1. \A u \in Threads : u # t => report'[u] = report[u]
    BY DEF SerialiseEntry, ReportInv
  <2> QED
    BY <1>1, <2>1 DEF ReportInv
<1> QED
  BY <1>1, <1>5, <1>6, <1>7, <1>8 DEF ReportInv

LEMMA SendKeepsReport ==
    ASSUME IInv, CountInv, ReportInv, NEW t \in Threads, SendReport(t)
    PROVE  ReportInv'
<1>1. /\ UNCHANGED <<instance, endpoint>> /\ pc' = [pc EXCEPT ![t] = "idle"] /\ pc[t] = "report"
      /\ report' = [report EXCEPT ![t] = Unread] /\ known' = [known EXCEPT ![t] = NoCounts]
  BY DEF SendReport, Goto
<1>2. \A e \in Endpoints : BeingAdded(e)' = BeingAdded(e)
  BY <1>1 DEF BeingAdded, IInv, Kinds
<1>3. Unread \in [Endpoints -> Answers] /\ NoCounts \in [Endpoints -> Nat]
  BY DEF Unread, NoCounts, Answers
<1>4. /\ report' \in [Threads -> [Endpoints -> Answers]]
      /\ known' \in [Threads -> [Endpoints -> Nat]]
      /\ \A u \in Threads : pc'[u] # "report" => report'[u] = Unread /\ known'[u] = NoCounts
  BY <1>1, <1>3 DEF ReportInv, IInv, Kinds
<1>5. ASSUME NEW u \in Threads, pc'[u] = "report", NEW e \in Endpoints
      PROVE  Follows(report[u][e], known[u][e], instance.history[e], BeingAdded(e))'
  <2>1. u # t /\ pc[u] = "report" /\ report'[u] = report[u] /\ known'[u] = known[u]
    BY <1>1, <1>5 DEF ReportInv, IInv, Kinds
  <2>2. Follows(report'[u][e], known'[u][e], instance.history[e], BeingAdded(e))
    BY <2>1 DEF ReportInv
  <2>3. instance' = instance /\ BeingAdded(e)' = BeingAdded(e)
    BY <1>1, <1>2
  <2> QED
    BY <2>2, <2>3 DEF Follows, Written, CallsUpTo
<1> QED
  BY <1>4, <1>5 DEF ReportInv

\* A call is counted while answers are written.
LEMMA CountKeepsReport ==
    ASSUME IInv, CountInv, ReportInv, NEW t \in Threads,
           (CompareDate(t) /\ ~Goto(t, "add")) \/ AddDate(t)
    PROVE  ReportInv'
<1> DEFINE e == endpoint[t]
           h == instance.history[e]
           g == instance'.history[e]
<1>1. /\ instance # NoInstance /\ instance \in Kept /\ e \in Endpoints /\ h \in Seq(Days)
      /\ pc' = [pc EXCEPT ![t] = "backup"] /\ UNCHANGED <<endpoint, report, known>>
  BY Increments DEF Goto
<1>2. pc[t] \in {"compare", "add"} /\ pc[t] \in Inside
  BY DEF CompareDate, AddDate, Inside
<1>3. \A u \in Threads : pc[u] = "add" => u = t /\ pc[t] = "add"
  BY <1>2, InsideFacts DEF Inside
<1>4. \A f \in Endpoints : /\ BeingAdded(f)' = FALSE
                           /\ BeingAdded(f) = (pc[t] = "add" /\ f = e)
  BY <1>1, <1>3 DEF BeingAdded, IInv, Kinds
<1>5. ASSUME NEW f \in Endpoints, f # e PROVE instance'.history[f] = instance.history[f]
  <2>1. PICK x : instance' = [instance EXCEPT !.history[e] = x]
    BY Increments
  <2> QED
    BY <1>1, <1>5, <2>1 DEF Kept
<1>6. /\ pc[t] = "compare" => Len(h) # 0 /\ g = [h EXCEPT ![Len(h)].count = @ + 1]
      /\ pc[t] # "compare" => g = Append(h, [date |-> Day(now), count |-> 1])
  <2>1. ASSUME NEW x, instance' = [instance EXCEPT !.history[e] = x] PROVE g = x
    BY <1>1, <2>1 DEF Kept
  <2> QED
    BY <2>1, Increments
<1>7. Day(now) \in 0 .. Day(MaxTime)
  <2>1. now \in Nat /\ MaxTime \in Nat /\ now <= MaxTime
    BY StatisticsAssumption DEF IInv, Kinds, CountInv
  <2> QED
    BY <2>1, DayGrows, DayIsNat
<1>8. ASSUME NEW u \in Threads, pc'[u] = "report", NEW f \in Endpoints
      PROVE  Follows(report[u][f], known[u][f], instance.history[f], BeingAdded(f))'
  <2> DEFINE r == report[u][f]
             least == known[u][f]
  <2>1. u # t /\ pc[u] = "report"
    BY <1>1, <1>8 DEF IInv, Kinds
  <2>2. /\ r \in Answers /\ least \in Nat /\ BeingAdded(f) \in BOOLEAN
        /\ Follows(r, least, instance.history[f], BeingAdded(f))
    BY <2>1, ReportFacts
  <2>3. Follows(r, least, instance'.history[f], FALSE)
    <3>1. CASE f # e
      <4>1. BeingAdded(f) = FALSE /\ instance'.history[f] = instance.history[f]
        BY <1>4, <1>5, <3>1
      <4> QED
        BY <2>2, <4>1
    <3>2. CASE f = e /\ pc[t] = "compare"
      <4>1. BeingAdded(f) = FALSE /\ g = [h EXCEPT ![Len(h)].count = @ + 1] /\ Len(h) # 0
        BY <1>4, <1>6, <3>2
      <4>2. Follows(r, least, h, FALSE)
        BY <2>2, <3>2, <4>1
      <4> HIDE DEF g, h, r, least
      <4>3. Follows(r, least, g, FALSE)
        BY <1>1, <2>2, <4>1, <4>2, FollowsSameDay
      <4> QED
        BY <3>2, <4>3 DEF g
    <3>3. CASE f = e /\ pc[t] = "add"
      <4>1. g = Append(h, [date |-> Day(now), count |-> 1])
        BY <1>6, <3>3
      <4>2. Follows(r, least, h, BeingAdded(f))
        BY <2>2, <3>3
      <4> DEFINE adding == BeingAdded(f)
                 today == Day(now)
      <4> HIDE DEF g, h, r, least, adding, today
      <4>3. Follows(r, least, Append(h, [date |-> today, count |-> 1]), FALSE)
        BY <1>1, <1>7, <2>2, <4>2, FollowsNewDay DEF adding, today
      <4> QED
        BY <3>3, <4>1, <4>3 DEF g, today
    <3> QED
      BY <1>2, <3>1, <3>2, <3>3
  <2>4. report' = report /\ known' = known /\ BeingAdded(f)' = FALSE
    BY <1>1, <1>4
  <2> QED
    BY <2>3, <2>4 DEF Follows, Written, CallsUpTo
<1>9. \A u \in Threads : pc'[u] # "report" => report'[u] = Unread /\ known'[u] = NoCounts
  BY <1>1, <1>2 DEF ReportInv, IInv, Kinds
<1> QED
  BY <1>1, <1>8, <1>9 DEF ReportInv

\* A thread that is about to add an entry: one more may be written.
LEMMA LookKeepsReport ==
    ASSUME IInv, CountInv, ReportInv, NEW t \in Threads, CompareDate(t), Goto(t, "add")
    PROVE  ReportInv'
<1>1. /\ UNCHANGED <<instance, endpoint, report, known>>
      /\ pc' = [pc EXCEPT ![t] = "add"] /\ pc[t] = "compare" /\ pc[t] \in Inside
  BY DEF CompareDate, Goto, IInv, Kinds, reports, Inside
<1>2. \A f \in Endpoints : BeingAdded(f) = FALSE /\ BeingAdded(f)' \in BOOLEAN
  BY <1>1, InsideFacts DEF BeingAdded, Inside
<1>3. ASSUME NEW u \in Threads, pc'[u] = "report", NEW f \in Endpoints
      PROVE  Follows(report[u][f], known[u][f], instance.history[f], BeingAdded(f))'
  <2> DEFINE h == instance.history[f]
             r == report[u][f]
             least == known[u][f]
             adding == BeingAdded(f)'
  <2>1. pc[u] = "report"
    BY <1>1, <1>3 DEF IInv, Kinds
  <2>2. /\ h \in Seq(Days) /\ r \in Answers /\ least \in Nat
        /\ Follows(r, least, h, FALSE)
    BY <1>2, <2>1, ReportFacts
  <2>3. adding \in BOOLEAN
    BY <1>2
  <2>4. Follows(r, least, h, adding)
    <3> HIDE DEF h, r, least, adding
    <3> QED
      BY <2>2, <2>3, FollowsWeaker
  <2>5. report' = report /\ known' = known /\ instance' = instance
    BY <1>1
  <2> QED
    BY <2>4, <2>5 DEF Follows, Written, CallsUpTo
<1>4. \A u \in Threads : pc'[u] # "report" => report'[u] = Unread /\ known'[u] = NoCounts
  BY <1>1 DEF ReportInv, IInv, Kinds
<1> QED
  BY <1>1, <1>3, <1>4 DEF ReportInv

LEMMA ReportNext == ASSUME IInv, CountInv, ReportInv, [Next]_vars PROVE ReportInv'
<1>1. CASE Restart
  <2>1. Unread \in [Endpoints -> Answers] /\ NoCounts \in [Endpoints -> Nat]
    BY DEF Unread, NoCounts, Answers
  <2> QED
    BY <1>1, <2>1 DEF Restart, ReportInv
<1>2. CASE Tick \/ UNCHANGED vars
  <2>1. UNCHANGED <<instance, pc, endpoint, reports>>
    BY <1>2 DEF Tick, vars, reports
  <2>2. \A e \in Endpoints : BeingAdded(e)' = BeingAdded(e)
    BY <2>1 DEF BeingAdded
  <2> QED
    BY <2>1, <2>2, ReportStays
<1>3. ASSUME NEW t \in Threads,
             Call(t) \/ LookForInstance(t) \/ LoadInstance(t) \/ LockHistory(t)
                \/ StampBackup(t) \/ WriteBackup(t)
      PROVE  ReportInv'
  <2>1. UNCHANGED reports /\ \A u \in Threads : pc'[u] = "report" <=> pc[u] = "report"
    BY <1>3 DEF Call, LookForInstance, LoadInstance, LockHistory, StampBackup, WriteBackup,
                Goto, IInv, Kinds
  <2>2. \A e \in Endpoints : BeingAdded(e)' = BeingAdded(e)
    BY <1>3 DEF Call, LookForInstance, LoadInstance, LockHistory, StampBackup, WriteBackup,
                Goto, IInv, Kinds, BeingAdded
  <2>3. (\E u \in Threads : pc[u] = "report") => instance # NoInstance
    BY DEF IInv, HasInstance
  <2>4. instance # NoInstance => instance'.history = instance.history
    <3>1. instance # NoInstance =>
             instance' = instance \/ instance' = [instance EXCEPT !.lastSaved = now]
      BY <1>3 DEF Call, LookForInstance, LoadInstance, LockHistory, StampBackup, WriteBackup
    <3> QED
      BY <3>1 DEF CountInv, Kept
  <2> QED
    BY <2>1, <2>2, <2>3, <2>4, ReportStays
<1>4. ASSUME NEW t \in Threads, CompareDate(t) \/ AddDate(t) PROVE ReportInv'
  BY <1>4, CountKeepsReport, LookKeepsReport
<1>5. ASSUME NEW t \in Threads,
             \/ UnlockHistory(t) \/ SendReport(t)
             \/ \E e \in Endpoints : SerialiseEntry(t, e)
      PROVE  ReportInv'
  BY <1>5, UnlockKeepsReport, SerialiseKeepsReport, SendKeepsReport
<1> QED
  BY <1>1, <1>2, <1>3, <1>4, <1>5 DEF Next, CountingStep

\* What an answer says by then.
LEMMA ReportIsBounded ==
    ASSUME IInv, CountInv, ReportInv, NEW t \in Threads, pc[t] = "report", NEW e \in Endpoints
    PROVE  LET r == report[t][e]
               most == Totals(instance)[e] + (IF BeingAdded(e) THEN 1 ELSE 0)
           IN  /\ r.entries <= most /\ r.calls <= most /\ known[t][e] <= most
               /\ r.whole => known[t][e] <= r.calls
<1> DEFINE h == instance.history[e]
           r == report[t][e]
           least == known[t][e]
           adding == BeingAdded(e)
           total == CallsUpTo(h, Len(h))
           sofar == CallsUpTo(h, Written(r, h))
<1>1. /\ h \in Seq(Days) /\ r \in Answers /\ least \in Nat /\ adding \in BOOLEAN
      /\ Follows(r, least, h, adding) /\ Totals(instance)[e] = total
  BY ReportFacts, TotalsKinds
<1> HIDE DEF h, r, least, adding
<1>2. /\ Len(h) \in Nat /\ r.entries \in Nat /\ r.calls \in Nat /\ r.whole \in BOOLEAN
      /\ sofar \in Nat /\ total \in Nat /\ sofar <= total
  BY <1>1, WrittenKinds
<1>3. Len(h) <= total
  <2>1. 0 \in 0 .. Len(h) /\ CallsUpTo(h, 0) = 0
    BY <1>1, <1>2, CallsUpToNext
  <2>2. CallsUpTo(h, 0) + (Len(h) - 0) <= total
    BY <1>1, <2>1, RestHasCalls
  <2> QED
    BY <1>2, <2>1, <2>2
<1>4. /\ r.entries <= Len(h) + (IF adding THEN 1 ELSE 0)
      /\ r.calls <= sofar + (IF r.entries > Len(h) THEN 1 ELSE 0)
      /\ least <= r.calls + (IF r.whole THEN 0 ELSE total - sofar)
  BY <1>1 DEF Follows
<1> HIDE DEF total, sofar
<1>5. /\ r.entries <= total + (IF adding THEN 1 ELSE 0)
      /\ r.calls <= total + (IF adding THEN 1 ELSE 0)
      /\ least <= total + (IF adding THEN 1 ELSE 0)
      /\ r.whole => least <= r.calls
  BY <1>1, <1>2, <1>3, <1>4
<1> QED
  BY <1>1, <1>5 DEF r, least, adding

\* An answer of the statistics endpoint is never too small and never too
\* large, however many entries are counted or added while it is written, for
\* any number of threads, days and answers at once.
THEOREM ReportsBracketed == Spec => []ReportsAreBracketed
<1>1. IInv /\ CountInv /\ [Next]_vars => CountInv'
  BY CountNext
<1>2. IInv /\ CountInv /\ ReportInv /\ [Next]_vars => ReportInv'
  BY ReportNext
<1>3. IInv /\ CountInv /\ ReportInv => ReportsAreBracketed
  BY ReportIsBounded DEF ReportsAreBracketed
<1> QED
  BY <1>1, <1>2, <1>3, InitInv, NextKeepsInv, CountInit, ReportInit, PTL DEF Spec

-----------------------------------------------------------------------------
\* No history has more calls than MaxCalls, nor an entry of more.
LEMMA CallsWithinBound ==
    ASSUME CountInv, BoundInv
    PROVE  \A e \in Endpoints :
              /\ expected[e] \in 0 .. MaxCalls
              /\ BeingAdded(e) => expected[e] + 1 <= MaxCalls
<1>1. (\A e \in Endpoints : expected[e] \in Nat) /\ SumFunctionOnSet(expected, Endpoints) \in Nat
  BY SumOfExpected DEF CountInv
<1>2. \A e \in Endpoints : expected[e] <= SumFunctionOnSet(expected, Endpoints)
  BY <1>1, StatisticsAssumption, SumBoundsTerms
<1>3. IsFiniteSet(Uncounted) /\ Cardinality(Uncounted) \in Nat
  BY UncountedKinds DEF Uncounted
<1>4. ASSUME NEW e \in Endpoints, BeingAdded(e) PROVE Cardinality(Uncounted) # 0
  BY <1>3, <1>4, FS_EmptySet DEF BeingAdded, Uncounted
<1>5. MaxCalls \in Nat
  BY StatisticsAssumption
<1> QED
  BY <1>1, <1>2, <1>3, <1>4, <1>5 DEF BoundInv

LEMMA KeptIsStatistics ==
    ASSUME NEW data \in Kept, \A e \in Endpoints : Totals(data)[e] <= MaxCalls
    PROVE  data \in Statistics
<1>1. ASSUME NEW e \in Endpoints PROVE data.history[e] \in Seq(CountPerDay)
  <2> DEFINE h == data.history[e]
             c == [i \in DOMAIN h |-> h[i].count]
  <2>1. h \in Seq(Days) /\ Totals(data)[e] = CallsUpTo(h, Len(h)) /\ Totals(data)[e] <= MaxCalls
    BY TotalsKinds
  <2>2. /\ Len(h) \in Nat /\ DOMAIN h = 1 .. Len(h) /\ CallsUpTo(h, Len(h)) \in Nat
        /\ \A i \in 1 .. Len(h) : h[i] \in Days /\ h[i].count \in Nat \ {0}
    BY <2>1, DaysKinds, CallsUpToNext
  <2> HIDE DEF h
  <2>3. ASSUME NEW i \in 1 .. Len(h) PROVE h[i] \in CountPerDay
    <3>1. IsFiniteSet(1 .. Len(h)) /\ \A j \in 1 .. Len(h) : c[j] \in Nat
      BY <2>2, IntervalIsFinite
    <3>2. c[i] <= SumFunctionOnSet(c, 1 .. Len(h)) /\ c[i] = h[i].count
      <4>1. c[i] = h[i].count
        BY <2>2
      <4> HIDE DEF c
      <4> QED
        BY <3>1, <4>1, SumBoundsTerms
    <3>3. h[i].count <= CallsUpTo(h, Len(h))
      BY <3>2 DEF CallsUpTo
    <3>4. h[i].count \in 1 .. MaxCalls
      BY <2>1, <2>2, <3>3, StatisticsAssumption
    <3> QED
      BY <2>2, <3>4 DEF Days, CountPerDay
  <2>4. h \in [1 .. Len(h) -> CountPerDay]
    BY <2>1, <2>2, <2>3
  <2> QED
    BY <2>2, <2>4 DEF h
<1>2. data = [lastSaved |-> data.lastSaved, history |-> data.history]
      /\ data.lastSaved \in {Never} \cup 0 .. MaxTime
  BY DEF Kept
<1>3. data.history \in [Endpoints -> Seq(CountPerDay)]
  BY <1>1 DEF Kept
<1> QED
  BY <1>2, <1>3 DEF Statistics

\* The variables that no other invariant speaks of.
RestInv ==
    /\ lock \in Threads \cup {NoThread}
    /\ latest \in {Never} \cup 0 .. MaxTime
    /\ failed \in BOOLEAN

LEMMA RestInit == Init => RestInv
  BY DEF Init, RestInv

LEMMA RestNext == ASSUME IInv, CountInv, RestInv, [Next]_vars PROVE RestInv'
<1>1. now \in 0 .. MaxTime
  BY StatisticsAssumption DEF IInv, Kinds, CountInv
<1>2. lock' \in {lock, NoThread} \cup Threads
  BY DEF Next, CountingStep, Call, LookForInstance, LoadInstance, LockHistory, AcquireLock,
         CompareDate, AddDate, StampBackup, WriteBackup, UnlockHistory, ReleaseLock,
         SerialiseEntry, SendReport, Tick, Restart, vars
<1>3. latest' \in {latest, now}
  BY DEF Next, CountingStep, Call, LookForInstance, LoadInstance, LockHistory,
         CompareDate, AddDate, Counted, StampBackup, WriteBackup, UnlockHistory,
         SerialiseEntry, SendReport, Tick, Restart, vars, ghosts
<1>4. failed' \in {failed, TRUE, FALSE}
  BY DEF Next, CountingStep, Call, LookForInstance, LoadInstance, LockHistory,
         CompareDate, AddDate, StampBackup, WriteBackup, UnlockHistory,
         SerialiseEntry, SendReport, Tick, Restart, vars
<1> QED
  BY <1>1, <1>2, <1>3, <1>4 DEF RestInv

\* Every variable keeps to its values, within the bounds that CallsLeft and
\* the clock set: among them, that no count goes beyond the calls made.
THEOREM TypeCorrect == Spec => []TypeOK
<1>1. ASSUME IInv, CountInv, BoundInv, ReportInv, RestInv PROVE TypeOK
  <2>1. MaxTime \in Nat /\ MaxCalls \in Nat
    BY StatisticsAssumption
  <2>2. now \in 0 .. MaxTime
    BY <1>1, <2>1 DEF IInv, Kinds, CountInv
  <2>3. /\ expected \in [Endpoints -> 0 .. MaxCalls]
        /\ \A e \in Endpoints :
              /\ expected[e] \in 0 .. MaxCalls
              /\ BeingAdded(e) => expected[e] + 1 <= MaxCalls
    BY <1>1, CallsWithinBound DEF CountInv
  <2>4. instance \in Statistics \cup {NoInstance}
    <3>1. CASE instance # NoInstance
      BY <1>1, <2>1, <2>3, <3>1, KeptIsStatistics DEF CountInv
    <3> QED
      BY <3>1
  <2>5. file \in Statistics \cup {NoFile, TornFile}
    <3>1. \A e \in Endpoints : Totals(Loaded)[e] <= MaxCalls
      BY <1>1, <2>1, <2>3, TotalsKinds DEF CountInv
    <3>2. Loaded \in Statistics
      BY <1>1, <3>1, KeptIsStatistics DEF CountInv
    <3> QED
      BY <3>2 DEF Loaded
  <2>6. ASSUME NEW t \in Threads, NEW e \in Endpoints
        PROVE  /\ report[t][e] \in [entries : 0 .. MaxCalls, calls : 0 .. MaxCalls, whole : BOOLEAN]
               /\ known[t][e] \in 0 .. MaxCalls
    <3>1. CASE pc[t] = "report"
      <4> DEFINE r == report[t][e]
                 most == Totals(instance)[e] + (IF BeingAdded(e) THEN 1 ELSE 0)
      <4>1. most \in Nat /\ most <= MaxCalls
        <5>1. Totals(instance)[e] = expected[e]
          BY <1>1, <3>1, ReportFacts DEF CountInv
        <5> QED
          BY <2>1, <2>3, <5>1
      <4>2. r \in Answers /\ known[t][e] \in Nat
        BY <1>1, <3>1, ReportFacts
      <4>3. r.entries <= most /\ r.calls <= most /\ known[t][e] <= most
        BY <1>1, <3>1, ReportIsBounded
      <4> HIDE DEF r, most
      <4>4. r.entries \in 0 .. MaxCalls /\ r.calls \in 0 .. MaxCalls
            /\ known[t][e] \in 0 .. MaxCalls
        BY <2>1, <4>1, <4>2, <4>3 DEF Answers
      <4>5. r \in [entries : 0 .. MaxCalls, calls : 0 .. MaxCalls, whole : BOOLEAN]
        BY <4>2, <4>4 DEF Answers
      <4> QED
        BY <4>4, <4>5 DEF r
    <3>2. CASE pc[t] # "report"
      <4>1. report[t] = Unread /\ known[t] = NoCounts
        BY <1>1, <3>2 DEF ReportInv
      <4>2. /\ Unread[e] \in [entries : 0 .. MaxCalls, calls : 0 .. MaxCalls, whole : BOOLEAN]
            /\ NoCounts[e] \in 0 .. MaxCalls
        BY <2>1 DEF Unread, NoCounts
      <4> QED
        BY <4>1, <4>2
    <3> QED
      BY <3>1, <3>2
  <2>7. /\ report \in [Threads -> [Endpoints -> [entries : 0 .. MaxCalls, calls : 0 .. MaxCalls,
                                                whole : BOOLEAN]]]
        /\ known \in [Threads -> [Endpoints -> 0 .. MaxCalls]]
    BY <1>1, <2>6 DEF ReportInv
  <2> QED
    BY <1>1, <2>2, <2>3, <2>4, <2>5, <2>7 DEF TypeOK, IInv, Kinds, Inside, RestInv
<1>2. IInv /\ CountInv /\ [Next]_vars => CountInv'
  BY CountNext
<1>3. IInv /\ CountInv /\ BoundInv /\ [Next]_vars => BoundInv'
  BY BoundNext
<1>4. IInv /\ CountInv /\ ReportInv /\ [Next]_vars => ReportInv'
  BY ReportNext
<1>5. IInv /\ CountInv /\ RestInv /\ [Next]_vars => RestInv'
  BY RestNext
<1>6. IInv /\ CountInv /\ BoundInv /\ ReportInv /\ RestInv => TypeOK
  BY <1>1
<1> QED
  BY <1>2, <1>3, <1>4, <1>5, <1>6, InitInv, NextKeepsInv, CountInit, BoundInit, ReportInit,
     RestInit, PTL DEF Spec

-----------------------------------------------------------------------------
(***************************************************************************)
(* The refinement of CallCounter.                                          *)
(***************************************************************************)
\* The counters in use are the expected ones.
LEMMA LiveIsExpected == CountInv => Totals(Live) = expected
BY DEF CountInv, Live

\* The same of the next state.
LEMMA LiveIsExpectedNext == CountInv' => Totals(Live)' = expected'
<1> SUFFICES ASSUME CountInv' PROVE Totals(Live)' = expected'
  OBVIOUS
<1>1. CASE instance' = NoInstance
  <2>1. Live' = Loaded'
    BY <1>1 DEF Live
  <2>2. Totals(Live)' = Totals(Loaded)'
    BY <2>1 DEF Totals
  <2> QED
    BY <1>1, <2>2 DEF CountInv
<1>2. CASE instance' # NoInstance
  <2>1. Live' = instance'
    BY <1>2 DEF Live
  <2>2. Totals(Live)' = Totals(instance)'
    BY <2>1 DEF Totals
  <2> QED
    BY <1>2, <2>2 DEF CountInv
<1> QED
  BY <1>1, <1>2

\* What a step that moves one thread does to the phases.
Phases == [t \in Threads |-> Phase(t)]

PhaseAt(step) ==
    IF step = "idle" THEN "idle"
    ELSE IF step \in {"instance", "load", "lock", "compare", "add"} THEN "called" ELSE "counted"

\* A thread's phase is that of its place.
LEMMA PhaseIsAt == ASSUME NEW t \in Threads PROVE Phase(t) = PhaseAt(pc[t])
BY DEF Phase, PhaseAt, Uncounted

\* One thread moves.
LEMMA PhaseMoves ==
    ASSUME IInv, NEW t \in Threads, NEW step, Goto(t, step)
    PROVE  Phases' = [Phases EXCEPT ![t] = PhaseAt(step)]
<1>1. /\ pc' = [pc EXCEPT ![t] = step]
      /\ pc \in [Threads -> Inside \cup {"idle", "instance", "load", "lock", "report"}]
  BY DEF Goto, IInv, Kinds
<1>2. ASSUME NEW u \in Threads PROVE Phase(u)' = IF u = t THEN PhaseAt(step) ELSE Phase(u)
  <2>1. Phase(u)' = PhaseAt(pc'[u])
    BY DEF Phase, PhaseAt, Uncounted
  <2>2. Phase(u) = PhaseAt(pc[u])
    BY PhaseIsAt
  <2>3. pc'[u] = IF u = t THEN step ELSE pc[u]
    BY <1>1
  <2> QED
    BY <2>1, <2>2, <2>3
<1> QED
  BY <1>2 DEF Phases

\* Within a phase.
LEMMA PhaseStays ==
    ASSUME IInv, NEW t \in Threads, NEW step, Goto(t, step), PhaseAt(step) = PhaseAt(pc[t])
    PROVE  Phases' = Phases
<1>1. Phases' = [Phases EXCEPT ![t] = PhaseAt(step)]
  BY PhaseMoves
<1>2. Phases[t] = PhaseAt(step)
  BY PhaseIsAt DEF Phases
<1> QED
  BY <1>1, <1>2 DEF Phases

\* The file stays.
LEMMA SameFile == ASSUME UNCHANGED file PROVE Totals(Loaded)' = Totals(Loaded)
<1>1. Loaded' = Loaded
  BY DEF Loaded
<1> QED
  BY <1>1 DEF Totals

\* Nothing is counted.
LEMMA SameCounts ==
    ASSUME CountInv, CountInv', UNCHANGED expected
    PROVE  Totals(Live)' = Totals(Live)
BY LiveIsExpected, LiveIsExpectedNext

\* A request arrives.
LEMMA CallCounts ==
    ASSUME IInv, CountInv, CountInv', NEW t \in Threads, Call(t)
    PROVE  Counter!Next
<1>1. pc[t] = "idle" /\ Goto(t, "instance") /\ UNCHANGED <<file, expected>>
  BY DEF Call, world, ghosts
<1>2. PICK e \in Endpoints : endpoint' = [endpoint EXCEPT ![t] = e]
  BY DEF Call
<1>3. Phases' = [Phases EXCEPT ![t] = "called"] /\ Phases[t] = "idle"
  BY <1>1, PhaseMoves, PhaseIsAt DEF PhaseAt, Phases
<1>4. Totals(Live)' = Totals(Live) /\ Totals(Loaded)' = Totals(Loaded)
  BY <1>1, SameCounts, SameFile
<1>5. Counter!Call(t, e)
  BY <1>2, <1>3, <1>4 DEF Counter!Call, Counter!Goto, Phases
<1> QED
  BY <1>5 DEF Counter!Next

\* Nothing is counted, kept or answered.
LEMMA NothingCounts ==
    ASSUME IInv, CountInv, CountInv', UNCHANGED <<file, expected, endpoint>>, Phases' = Phases
    PROVE  UNCHANGED Counter!vars
<1>1. Totals(Live)' = Totals(Live) /\ Totals(Loaded)' = Totals(Loaded)
  BY SameCounts, SameFile
<1> QED
  BY <1>1 DEF Counter!vars, Phases

\* The steps on the way to the count, the stamp and the report.
LEMMA WalkCounts ==
    ASSUME IInv, CountInv, CountInv', NEW t \in Threads,
           \/ LookForInstance(t) \/ LoadInstance(t) \/ LockHistory(t) \/ StampBackup(t)
           \/ CompareDate(t) /\ Goto(t, "add")
           \/ \E e \in Endpoints : SerialiseEntry(t, e)
    PROVE  UNCHANGED Counter!vars
<1>1. CASE LookForInstance(t) \/ LoadInstance(t) \/ LockHistory(t)
  <2>1. UNCHANGED <<file, expected, endpoint>> /\ pc[t] \in {"instance", "load", "lock"}
    BY <1>1 DEF LookForInstance, LoadInstance, LockHistory, world, ghosts
  <2>2. \E step \in {"load", "lock", "compare"} : Goto(t, step)
    BY <1>1 DEF LookForInstance, LoadInstance, LockHistory
  <2> QED
    BY <2>1, <2>2, NothingCounts, PhaseStays DEF PhaseAt
<1>2. CASE StampBackup(t)
  <2>1. UNCHANGED <<file, expected, endpoint>> /\ pc[t] = "backup"
    BY <1>2 DEF StampBackup, world, ghosts
  <2>2. \E step \in {"unlock", "write"} : Goto(t, step)
    BY <1>2 DEF StampBackup
  <2> QED
    BY <2>1, <2>2, NothingCounts, PhaseStays DEF PhaseAt
<1>3. CASE CompareDate(t) /\ Goto(t, "add")
  <2>1. UNCHANGED <<file, expected, endpoint>> /\ pc[t] = "compare"
    BY <1>3 DEF CompareDate, Goto, IInv, Kinds, world, ghosts
  <2> QED
    BY <1>3, <2>1, NothingCounts, PhaseStays DEF PhaseAt
<1>4. CASE \E e \in Endpoints : SerialiseEntry(t, e)
  <2>1. UNCHANGED <<file, expected, endpoint, pc>>
    BY <1>4 DEF SerialiseEntry, world, ghosts
  <2>2. Phases' = Phases
    BY <2>1 DEF Phases, Phase, Uncounted
  <2> QED
    BY <2>1, <2>2, NothingCounts
<1> QED
  BY <1>1, <1>2, <1>3, <1>4

\* A call is counted.
LEMMA CountCounts ==
    ASSUME IInv, CountInv, CountInv', NEW t \in Threads,
           (CompareDate(t) /\ ~Goto(t, "add")) \/ AddDate(t)
    PROVE  Counter!Next
<1>1. /\ Goto(t, "backup") /\ pc[t] \in {"compare", "add"} /\ UNCHANGED <<file, endpoint>>
      /\ expected' = [expected EXCEPT ![endpoint[t]] = @ + 1]
  BY DEF CompareDate, AddDate, Counted, world
<1>2. Phases' = [Phases EXCEPT ![t] = "counted"] /\ Phases[t] = "called"
  BY <1>1, PhaseMoves, PhaseIsAt DEF PhaseAt, Phases
<1>3. /\ Totals(Loaded)' = Totals(Loaded)
      /\ Totals(Live)' = [Totals(Live) EXCEPT ![endpoint[t]] = @ + 1]
  BY <1>1, SameFile, LiveIsExpected, LiveIsExpectedNext
<1>4. Counter!Count(t)
  BY <1>1, <1>2, <1>3 DEF Counter!Count, Counter!Goto, Phases
<1> QED
  BY <1>4 DEF Counter!Next

\* The file takes the counters, stays as it is, or is torn.
LEMMA WriteCounts ==
    ASSUME IInv, CountInv, CountInv', NEW t \in Threads, WriteBackup(t)
    PROVE  Counter!Next \/ UNCHANGED Counter!vars
<1>1. /\ UNCHANGED <<instance, expected, endpoint>> /\ Goto(t, "unlock") /\ pc[t] = "write"
      /\ instance # NoInstance /\ instance \in Data
  BY InsideFacts DEF WriteBackup, Inside, ghosts
<1>2. Phases' = Phases
  BY <1>1, PhaseStays DEF PhaseAt
<1>3. Totals(Live)' = Totals(Live)
  BY <1>1, SameCounts
<1>4. CASE file' = instance
  <2>1. Loaded' = instance /\ Live = instance
    BY <1>1, <1>4, SentinelAssumption DEF Loaded, Live
  <2>2. Totals(Loaded)' = Totals(Live)
    BY <2>1 DEF Totals
  <2>3. Counter!Keep
    BY <1>1, <1>2, <1>3, <2>2 DEF Counter!Keep, Phases
  <2> QED
    BY <2>3 DEF Counter!Next
<1>5. CASE file' = file
  BY <1>1, <1>2, <1>5, NothingCounts
<1>6. CASE file' = TornFile /\ "torn" \in Faults
  <2>1. Loaded' = NewInstance
    BY <1>6 DEF Loaded, NewInstance
  <2>2. Totals(Loaded)' = Totals(NewInstance)
    BY <2>1 DEF Totals
  <2>3. Totals(Loaded)' = [e \in Endpoints |-> 0]
    BY <2>2, NewInstanceIsEmpty DEF NoCounts
  <2>4. Counter!Tear
    BY <1>1, <1>2, <1>3, <1>6, <2>3 DEF Counter!Tear, Phases
  <2> QED
    BY <2>4 DEF Counter!Next
<1> QED
  BY <1>4, <1>5, <1>6 DEF WriteBackup

\* The handler ends, or goes on to its report and ends then.
LEMMA EndCounts ==
    ASSUME IInv, CountInv, CountInv', NEW t \in Threads, UnlockHistory(t) \/ SendReport(t)
    PROVE  Counter!Next \/ UNCHANGED Counter!vars
<1>1. UNCHANGED <<file, expected, endpoint>> /\ pc[t] \in {"unlock", "report"}
  BY DEF UnlockHistory, SendReport, world, ghosts
<1>2. CASE Goto(t, "idle")
  <2>1. Phases' = [Phases EXCEPT ![t] = "idle"] /\ Phases[t] = "counted"
    BY <1>1, <1>2, PhaseMoves, PhaseIsAt DEF PhaseAt, Phases
  <2>2. Totals(Live)' = Totals(Live) /\ Totals(Loaded)' = Totals(Loaded)
    BY <1>1, SameCounts, SameFile
  <2>3. Counter!Answer(t)
    BY <1>1, <2>1, <2>2 DEF Counter!Answer, Counter!Goto, Phases
  <2> QED
    BY <2>3 DEF Counter!Next
<1>3. CASE Goto(t, "report")
  BY <1>1, <1>3, NothingCounts, PhaseStays DEF PhaseAt
<1> QED
  BY <1>2, <1>3 DEF UnlockHistory, SendReport

\* The process starts again with what the file keeps.
LEMMA RestartCounts ==
    ASSUME IInv, CountInv, CountInv', Restart
    PROVE  Counter!Next
<1>1. /\ UNCHANGED <<file, endpoint>> /\ expected' = Totals(Loaded)
      /\ pc' = [t \in Threads |-> "idle"]
  BY DEF Restart, world
<1>2. Phases' = [t \in Threads |-> "idle"]
  BY <1>1 DEF Phases, Phase
<1>3. Totals(Live)' = Totals(Loaded) /\ Totals(Loaded)' = Totals(Loaded)
  BY <1>1, LiveIsExpectedNext, SameFile
<1>4. Counter!Restart
  BY <1>1, <1>2, <1>3 DEF Counter!Restart, Phases
<1> QED
  BY <1>4 DEF Counter!Next

\* The counters begin at zero.
LEMMA CounterStarts == Init => Counter!Init
<1> SUFFICES ASSUME Init PROVE Counter!Init
  OBVIOUS
<1>1. instance = NoInstance /\ Loaded = NewInstance /\ Live = NewInstance
  BY DEF Init, Loaded, Live
<1>2. Totals(Live) = NoCounts /\ Totals(Loaded) = NoCounts
  BY <1>1, NewInstanceIsEmpty
<1>3. Phases = [t \in Threads |-> "idle"]
  BY DEF Init, Phases, Phase
<1> QED
  BY <1>2, <1>3 DEF Init, Counter!Init, NoCounts, Phases

\* Every step is one of the counter, or none.
LEMMA CounterSteps ==
    ASSUME IInv, CountInv, CountInv', [Next]_vars
    PROVE  Counter!Next \/ UNCHANGED Counter!vars
<1>1. ASSUME NEW t \in Threads, CountingStep(t)
      PROVE  Counter!Next \/ UNCHANGED Counter!vars
  <2>1. CASE CompareDate(t)
    BY <2>1, WalkCounts, CountCounts
  <2> QED
    BY <1>1, <2>1, WalkCounts, CountCounts, WriteCounts, EndCounts DEF CountingStep
<1>2. CASE Tick \/ UNCHANGED vars
  <2>1. UNCHANGED <<file, expected, endpoint, pc>>
    BY <1>2 DEF Tick, vars, world, ghosts
  <2>2. Phases' = Phases
    BY <2>1 DEF Phases, Phase, Uncounted
  <2> QED
    BY <2>1, <2>2, NothingCounts
<1> QED
  BY <1>1, <1>2, CallCounts, RestartCounts DEF Next

(***************************************************************************)
(* The singleton that is loaded when first used, its lock and its file     *)
(* implement one counter, for any number of threads, endpoints, calls,     *)
(* midnights, restarts and failed writes: each request is counted once,    *)
(* for its own endpoint, between its arrival and its answer.               *)
(***************************************************************************)
THEOREM StatisticsImplementCounter == Spec => CountsEachCallOnce
<1>1. IInv /\ CountInv /\ [Next]_vars => IInv' /\ CountInv'
  BY NextKeepsInv, CountNext
<1>2. IInv /\ CountInv /\ CountInv' /\ [Next]_vars => [Counter!Next]_(Counter!vars)
  BY CounterSteps
<1>3. Init => IInv /\ CountInv /\ Counter!Init
  BY InitInv, CountInit, CounterStarts
<1> QED
  BY <1>1, <1>2, <1>3, PTL DEF Spec, CountsEachCallOnce, Counter!Spec

=============================================================================
