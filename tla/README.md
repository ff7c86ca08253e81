# A TLA+ model of the gravitational-field microservice

The repository is a small ASP.NET Core microservice (`src/Service`, `src/Model`)
that stores gravitational fields and *calculation orders*, computes EGM96
gravity vectors for the orders, keeps everything in one SQLite file, counts its
calls per day, offers the same operations to MCP clients and announces itself
to an MCP hub; and a Blazor client (`src/WebPages`, `src/WebApp`). This
directory holds TLA+ modules translated from that code, the TLC configurations
that check them, and TLAPS proofs about them. Paths below are relative to the
repository root, which contains `src/`.

## 1. Inventory

| Component | State | Operations | What it shares | What must be right |
|---|---|---|---|---|
| Calculation-order endpoints: `GravitationalFieldCalculationOrderController`, `...Manager` | rows of `GravitationalFieldCalculationOrderTable` | POST, PUT, DELETE, five GETs | the database; writes *both* tables | each request atomic, each status true, the completed field stored with its order |
| Gravitational-field endpoints: `GravitationalFieldController`, `...Manager` | rows of `GravitationalFieldTable` | POST, PUT, DELETE, GETs, one filtered by state | the table orders write their results to | the same |
| `DatabaseCleanerService` | none but its place in the loop | a daily DELETE of old orders | the database | takes only what is old, takes it at last |
| `SqlConnectionManager` | the tables of the file, backups | inspect, back up, drop, create at start | the file that earlier versions left | no row lost, expected tables at the end |
| `UsageStatisticsGravitationalField` | one instance for all requests, `history.json` | increment, load, backup; a GET that serialises the live instance outside the lock | static lock, file | no call lost or counted twice, no report too small or too large |
| `McpHubRegistrationService` | the id file, `_registeredInstanceId`, the hub's list | PUT/POST loop, DELETE on stop | the network, another process | one registration for each id it was configured with, listed at last and for as long as it runs |
| MCP session: the WebSocket endpoint, `WebSocketServerTransport`, the tool adapter | socket, send lock, receive loop, unfinished message | receive, invoke, send, dispose | one socket for all answers; the client | messages whole and in order, one send at a time, everything ends |
| MCP tools, JSON converters | none | argument and result conversion | call the controllers | status and data survive conversion |
| `Calculate` (EGM96) | none | a raw table to a completed field | coefficient files | refuses points out of range |
| Web pages: batch list, editor, single calculation | the list, the selection, the editor's order and its clean snapshot | the event handlers, which interleave at their awaits | the REST interface; the fields of one circuit | no temporary order left, no edit taken for saved or lost unasked, nothing deleted unasked |
| Range generator of the editor: `GenerateFromRange` | two floating-point loop variables | add a step until the end is passed | the editor's table | generates nothing that `Save` refuses |
| Form validation script: `wwwroot/lib/jquery-validation-unobtrusive` | rules by field, the validator's copy of them, verdicts, containers, pending remote requests, whether the next submission is unchecked | parse, attach, submit and cancel buttons, the callbacks `onError`, `onErrors`, `onSuccess`, `onReset` | jQuery Validate, the document, a server asked about single values | what is sent was confirmed, what is refused is marked |
| Web pages: viewer, statistics | what they loaded | load, show | the REST interface | - |

Hard parts of this code, in the order in which the models take them up:

1. **Check-then-act.** A controller reads the row, decides, and calls a manager
   that may read again and then writes in a transaction. Anything commits in
   between.
2. **One writer.** `BeginTransaction` is `BEGIN IMMEDIATE`: the second writer
   waits for the command timeout. Readers of a table with uncommitted writes
   wait too (`Cache=Shared`).
3. **Failing statements.** Most managers catch exceptions of statements but
   not those of `BeginTransaction`; `AddCompletedGravitationalField` swallows
   its own; a `GetById` that throws answers null, which controllers take for
   "not there".
4. **Crashes** between any two of these, and between the DDL statements of
   `ManageDataBase`, each of which commits by itself.
5. **Lazily loaded, lock-protected statistics** with a double-checked
   singleton, a clock that passes midnight and backups that may fail or tear.
6. **A registration protocol over HTTP** in which answers get lost, abandoned
   requests arrive late, the hub forgets, the service restarts and an operator
   changes its configured id.
7. **One WebSocket for concurrent tool calls**, closed, broken or disposed of
   under calls that hold or wait for its send lock.
8. **Event handlers of a page that await calls**: others run in between, the
   page may be gone when they go on, and calls and answers get lost.
9. **Verdicts that come late** in the form script: for a value since edited, to
   a field since hidden, to a form since reset or waiting to be submitted or
   sent unchecked by a cancel button.
10. **Rounding** in a loop that adds a step to a floating-point number.

`PROJECT.json` lists the hazards one by one, at the line where each bites, with
the properties that would catch it.

Apart from general libraries (jQuery, jQuery Validate, Bootstrap) and minified
copies, the form script is the only JavaScript under `src/` that does anything.
It is vendored, the service serves it from `wwwroot`, and no page of this
repository loads it. It is modelled as the program it is; nothing said about it
bears on the microservice.

## 2. Modules

```
ServiceData ── SqliteStore ──┬── OrderService ── FieldService ──┐
     │                       └── DatabaseCleaner ───────────────┤
     └── RestContract  <────── INSTANCE ──────── GravitationalFieldService
                                                                │
                       ServiceInvariants ── MCGravitationalFieldService
                                └────────── GravitationalFieldService_proofs

DatabaseSchema ──────┬── MCDatabaseSchema     McpHubRegistration
                     └── DatabaseSchema_proofs      └── McpHubRegistration_proofs
CallCounter  <── INSTANCE ── UsageStatistics
UsageStatistics ─────┬── MCUsageStatistics
SumTheorems ─────────┴── UsageStatistics_proofs
McpWebSocketSession ─┬── MCMcpWebSocketSession
                     └── McpWebSocketSession_proofs

RestClient ──┬── OrderPages ─────────┬── WebPages ──┬── MCWebPages
             └── SingleCalculation ──┘              └── WebPages_proofs
RangeGenerator ───── MCRangeGenerator

ValidationAdapters ── UnobtrusiveValidation ──┬── MCUnobtrusiveValidation
                                              └── UnobtrusiveValidation_proofs
```

**ServiceData** has the constants, rows, requests and answers. A payload stands
for a whole raw table; a row of an order keeps the payload, the Guid of its
completed field, the `LastModificationDate` column and the date inside the
light data; a row of a field keeps the payload, the `Type` in its JSON and the
`Type` column, which the code fills separately.

**SqliteStore** is SQLite as the managers use it, plus what a handler keeps on
its stack (`pc`, `request`, `completed`, `ok`, `status`). `orders` and `fields`
are what is committed; `txn` is the one open write transaction with its
snapshot and the tables it has written to. `SeesRow` and `SeesNull` are
`GetById`: the row; or null because there is none, because the SELECT threw, or
because it waited for a table lock until its timeout. `BeginTransaction` takes
the write lock or, after a timeout, throws out of the handler (500).
`EndTransaction` is the `if (success) Commit() else Rollback()` that ends every
writing manager method.

**OrderService** and **FieldService** have one action per step of a handler
between which other connections can run:

| Step | Order POST | Order PUT | DELETE, fields |
|---|---|---|---|
| controller's `GetById`, status decision, `Calculate` | `PostOrderCheck` | `PutOrderCheck` | `...Check` |
| manager's second `GetById` | `RecheckOrder` | - | - |
| `BeginTransaction` | shared | shared | shared |
| statement | `InsertOrder` | `UpdateOrder` | `DeleteOrder`, `InsertField`, ... |
| `AddCompletedGravitationalField` | shared | shared | - |
| commit or rollback, answer | `EndTransaction` | | |

**DatabaseCleaner** is the hosted service: `WakeCleaner` computes the
threshold, `CleanDatabase` is its DELETE, `CleanFails` its failure.

**GravitationalFieldService** composes them: requests arrive (`Receive`),
handlers run, answers leave (`Reply`), the process crashes (`Crash`).

**RestContract** is the abstract specification: a request takes effect at one
moment between its arrival and its answer or not at all, and each status says
something true of that moment. `GravitationalFieldService!Contract` instantiates
it with `phase` computed from `pc`; `KeepsContract` is the refinement.

**ServiceInvariants** has the inductive invariant used in the proofs. A part of
it, `TransactionIsCurrent`, is SQLite's isolation, which the service relies on:
it is a step of the proofs and not a claim about the code.

**DatabaseSchema** is the constructor of `SqlConnectionManager`. `Init` is any
file: the expected tables, tables of the expected names with other fields, and
tables of other names, each with any rows. Each statement is an action;
`found`, `toCreate`, `current` and `success` are the locals of
`ManageDataBase`. In a service that has started, `Serve` is a statement of a
manager: a row comes, goes, or replaces another. `stored` (the rows stored and
not deleted by a manager) and `disturbed` are history variables.

**UsageStatistics** has one action per access to shared state: the look at
`instance_` without the lock, the load under it, and inside the lock of
`IncrementHistory` the comparison with today's date, the entry, the stamp of
`LastSaved` and the write. The clock may tick between any two. The GET of the
statistics counts itself and then serialises the instance one list after the
other without the lock (`SerialiseEntry`, `SendReport`), while others append to
these lists. **CallCounter** is what they promise, as an abstract specification:
one counter per endpoint, raised once for each request between its arrival and
its answer, and a copy that a restart goes on from. `CountsEachCallOnce`
instantiates it: `Phase` is what a handler has done so far, `Live` the counters
in use, whether they have been loaded or not. `expected`, `latest`, `failed`, `report` and `known` are history
variables.

**McpHubRegistration** has the loop of `ExecuteAsync`, `StopAsync` running
beside it, the id file, the hub and the requests that were given up and are
still on their way. `configured` is the optional `InstanceId` of the options,
which every attempt reads anew and `Configure` sets, changes or takes away;
`settings`, what it has been so far, is a history variable. `ResolveInstanceId`
has the three branches of the code: the configured id, that of the file, a new
one.

**McpWebSocketSession** is one connection. `phase` is where
`HandleWebSocketAsync` and `DisposeAsync` are, `loop` where
`ReceiveMessagesAsync` is, `calls[m]` where the call is that message `m` asks
for: being run by `LegacyMcpServerToolAdapter.InvokeAsync`, at the check of
`IsConnected`, waiting for the send lock, sending. Frames of a message travel
one by one; `payload` is `payloadStream`. The MCP library's server is external:
it reads the channel, runs each call as a task, and cancels the calls when it is
disposed. `begun` and `delivered` are history variables.

**RestClient** is the service as the pages see it: what `RestContract` promises
makes each call atomic here, and what happens on the way (`Fail`, `ExecuteLate`)
is added: a call or its answer is lost, or the call is executed after it was
given up. A task is one event handler: `task[t]` says at which await it is and
holds its locals. `versions` is a history variable.

**OrderPages** is the list of orders and its editor. The screen follows the
fields of the list page only when a handler returns or calls
`StateHasChanged`, which is why `Render` is separate from the assignment to
`current`: `BeginReload` assigns, `Listed` renders. **SingleCalculation** is the
page that posts a temporary order, reads it back (a null answer, which clears the
results, is among what the call may return) and deletes it in a `finally`.
**WebPages** composes the two in one circuit: its user, its handlers, the
service, other clients, a page loaded anew while handlers go on (`LoadAgain`,
`orphans`, `LeftStep`), and a stop of the web application.

**RangeGenerator** has the two nested loops of the editor's range generator, one
action per pass. A double is an integer number of small units with `Precision`
significant bits, and `Plus` rounds to the nearest, ties to even, as IEEE
arithmetic does with 53 bits. `End` is `max + step * 1e-9`.

**ValidationAdapters** has the adapters of `jquery.validate.unobtrusive.js` in
the order of their registration and `parseElement`, as operators from an
element to its rules. **UnobtrusiveValidation** is the script at work on one
form: `DocumentReady` and `AddField` parse and attach, `Change`, `Revisit`,
`Toggle`, `Submit` and `Reset` are the browser's events, each run to its end,
and the `Answer...` actions are the answers of the rule `remote`, the only
asynchronous one. A cancel button sets `cancelSubmit` (`ClickCancel`), and the
next submission is not checked (`SubmitUnchecked`). `AnswerSubmits` is the
submission by script when the last answer has come: it checks the form, and
raises the event `submit`, whose handler checks it again; a field that the first
check asked the server about anew has in the second the verdict on its former
value. `jquery.validate.js` is modelled as far as it calls the
script's callbacks.

`PROJECT.json` maps each definition to the lines it stands for. Definitions
whose comment begins with *Variant* are faulty versions of the definition that
follows; replacing the real one by its variant breaks the property named in
`PROJECT.json`, which shows that the property depends on that piece of code.

## 3. What TLC checks

| Run | Properties | Instance |
|---|---|---|
| `orders` | `TypeOK`, `OrderHasCompletedField`, `KeepsContract` | 2 handlers, 1 order id, 3 field Guids, payloads good, good and uncomputable, posted without a date (so that the cleaner may take them), all faults but `completed` |
| `fields` | `KeepsContract`, `EveryRequestAnswered`, `ExpiredOrdersGo` | 2 handlers, 1 field id, 1 order id, which the cleaner may take while a field is written; `lock`, `commit`, `completed`; the cleaner may fail |
| `ageing` | `KeepsContract`, `ExpiredOrdersGo` | 2 handlers, 1 order id, dates none, 0 and 1, clock 0..1, no faults |
| `schema` | `TypeOK`, `NothingLost`, `RunsOnExpectedTables` | 2 expected tables, 1 other, 3 rows, inserted, replaced and deleted; all faults but `copy` |
| `statistics` | `TypeOK`, `EveryCallCounted`, `OneEntryPerDay`, `ReportsAreBracketed`, `OnlyRecentCallsUnsaved`, `FileNeverFallsBack`, `CountsEachCallOnce` | 2 threads, the endpoints `post` and `stat`, which reports, 3 calls, 2 days |
| `hub` | `TypeOK`, `OneRegistrationPerSetting`, `ListedAtLast` | 3 Guids, 2 of which may be configured, all faults |
| `session` | `TypeOK`, `MessagesComeWhole`, `OneSendAtATime`, `SessionEnds`, `CallsEnd` | 4 messages, the second broken, it and the third in 2 frames |
| `pages` | `TypeOK`, `CleanWasStored`, `OnlyConfirmedAreDeleted`, `TemporaryOrdersGo` | 2 orders, 2 handlers, contents `a`, `b` and one out of range, a temporary one and one out of range, 1 abandoned POST |
| `forms` | `TypeOK`, `SentIsConfirmed`, `RefusedFieldsAreMarked` | 3 fields: an e-mail address asked about remotely that may be hidden, one asked about remotely with the rule `nonalphamin`, one required and added late; a cancel button; 3 values |

`KeepsContract` is checked under three sets of faults because each fault weakens
the contract. In `ageing` nothing fails, and the contract is strict: a 404 is
true, a 500 means an uncomputable table or a lost race. In `orders` and
`fields` a 500 or a 404 may also come from the database, but still changes
nothing.

The service counts as correct in these respects: races of POST with POST, PUT
with DELETE and either with the cleaner or a crash never leave half a request,
never lose another's write, and never answer 200 without the whole effect.
What makes it so is `BEGIN IMMEDIATE`, the primary key, the row count of the
UPDATE and the rollback, not the controllers' checks.

`session` shows that the send lock survives its own disposal: a call that waits
for it when it is disposed is woken by its cancelled token and by nothing else
(with a wait that ignores the token `CallsEnd` is violated). `pages` shows that
the editor is right to read back what it has saved (marking the shown content
as clean instead violates `CleanWasStored`), that a temporary order is left only
when its DELETE was not confirmed or the web application stopped, and that a
selection changed during a deletion ends the loop by the enumerator's exception
and deletes nothing else.

`forms` shows that a form whose submission waited for a remote verdict is
checked again when it comes, so that an edit made meanwhile is not sent
unchecked, with two fields whose answers come in any order; only a click on a
cancel button sends it unchecked, and only once. Its properties speak of the
fields the validator enforces: those
parsed before it was attached, present and not hidden. `MCUnobtrusiveValidation`
also has two assumptions that TLC evaluates over every element with any of the
attributes that set a rule of length, and over forms with and without the field
`equalto` names: `LengthRules` and `NamedRules` compare `ParseElement` with what
each rule should be when several attributes speak of it.

### Bounds

* Two handlers meet in every pair of steps; the write lock serialises a third
  behind them. One row of each kind is enough for races, since no statement
  but the cleaner's touches two rows of one table. Field Guids are consumed by
  calculations; `GuidsLeft` takes a request only if every calculation to come
  can still draw one, so that the bound never blocks a handler.
* `MaxClock`: one unit of the clock is far longer than a transaction, hence
  `Tick` needs no open one. `RetireAfter = 0` with clock 0..1 makes dates
  older than, as old as, and younger than the threshold, and lets the clock
  pass between threshold and DELETE.
* `MaxTime = 3`, `DayLength = 2`, `BackUpInterval = 1`: midnight passes, a
  backup becomes due, falls due again and may fail in between. `MaxCalls = 3`:
  two racing calls and one after them. These bounded runs end, so the
  configuration turns deadlock checking off.
* `hub`: one Guid that the service generates and two that an operator may
  configure, so that `InstanceId` is set, changed and taken away again.
* Three rows in `schema`: one in each kind of table, or all in one.
* `MaxMessages = 4`: a broken message between whole ones, a message in frames
  after it, and three calls at once, one sending and two waiting for the lock.
* `pages`: two handlers meet at every pair of awaits; a third would wait for
  nothing the two do not show. Two orders make a selection with something left
  to delete. A new order has the content `a`, other clients write `a` or delete,
  and the user edits to `b` or to `off`, which `Save` refuses (`Drafts`); so a save of `b`
  may meet an `a`, and an editor that shows `b` may be clean or not. `p` and `far`
  are the temporary orders of the other page, within and out of range.
  Only a POST may be executed late (`MaxAbandoned = 1`), because a late PUT or
  DELETE does to the orders what `OtherClient` may do at any time.
  `editor_consent` needs no other clients and no late calls.
  The instance has 2 266 487 states.
* `forms`: two fields asked about, so that the answer for one submits a form in
  which the other was edited meanwhile and is asked about anew; one of them is
  also held to a rule that the empty value passes, the other to one that it
  fails; the late field is never enforced. One good, one bad and the empty value
  make every edit during a request. Nothing depends on the value of the late
  field, so nobody types into it (`Inputs`). A form that was sent ends the run,
  hence no deadlock checking. The instance has 1 042 456 states.
* `range_points`: 10 bits instead of 53, a tolerance of 1/16 of a step instead
  of 1e-9 of it: in both cases more than the rounding errors of a range add up
  to, so that a last point rounded upwards is still generated. With doubles the
  same happens for -90 to 90 degrees in steps of one degree, whose last latitude
  is 1.5707963267949, above pi/2.
* Symmetry is used only for safety.

### Fairness

* `WF(HandlerStep(w))`: the thread pool runs a request that can run. There is
  no fairness between handlers at the write lock: `EveryRequestAnswered` holds
  because the command timeout answers for a handler that is overtaken for ever
  (the run has the fault `lock`).
* `WF(WakeCleaner)`, `SF(CleanDatabase)`: the loop of the cleaner tries every
  day as long as the service runs, so among infinitely many tries one meets a
  free write lock. `ExpiredOrdersGo` also assumes that crashes and failures of
  the cleaning end: an order whose cleaning failed is taken by a later one.
* `WF(LoopStep)` of the hub loop: `Task.Delay` elapses and a request that is
  neither lost nor abandoned is answered. `ListedAtLast` assumes that troubles
  cease, and that the loop has not ended: an incomplete configuration ends it
  for good, even if it is completed later (`ExecuteAsync` returns). The id it
  is listed under is the one configured in the end.
* In `session` the service's own steps are scheduled, a dead connection is
  noticed, and a client that has been sent a close frame closes or goes
  (`CloseAsync` waits for it without a token, so nothing else ends it). A client
  that does not read may keep a send waiting as long as the session lives:
  `Sent` is not fair. `CallsEnd` rests on the library's server cancelling its
  calls when it is disposed.
* Clients, clock, faults, crashes, stops and late messages are never fair.

### Disagreements between documents and code

Each is a run that checks one property and finds it violated.

| Run | Document | Code |
|---|---|---|
| `completed_filter` | "filtered by state" | the filter reads the `Type` column, which a PUT does not update |
| `editor_consent` | the editor asks before it is closed with unsaved changes | an Add or a deletion whose call is answered late reloads the list page, which takes an editor opened meanwhile off the screen |
| `range_points` | "Every latitude must be between -pi/2 and pi/2 radians" (the text shown by `Save`) | a range that ends at a bound, which the generator accepts, gets a last point beyond it by rounding, which `Save` refuses |

Smaller ones are plain from a reading and have no run:

* The MCP tool that deletes an order promises to delete its completed result
  (`GravitationalFieldCalculationOrderMcpTools.cs:229`); the field stays in
  `GravitationalFieldTable`.
* `UnregisterOnShutdown` is said to remove the registration
  (`src/Service/README.md:103`); `StopAsync` withdraws only a registration whose
  answer the loop has heard, and cancels the loop after its DELETE, so a POST
  that the hub has handled and not answered yet, or one sent meanwhile, leaves
  the service listed.
* A PUT builds the light data of an order before it stamps the date
  (`UpdateGravitationalFieldCalculationOrderById`, line 507).
* The doc comment of `CleanDatabase` names `CleaningInterval` where the
  threshold uses `_retirementTime`.
* The backup of an unexpected database is given up when the copy throws, while
  its tables are dropped all the same (fault `copy`).
* In the form script: fields parsed after the validator was attached are shown
  but not enforced, though `parse` is documented to enable validation of what
  it finds; the default `"val"` of `addSingleVal` is extracted and never read;
  `formSubmitted` stays set when the check after a remote answer fails;
  `cancelSubmit` stays set when a script prevents the submission after a click
  on a cancel button; and a lost remote answer keeps the form from ever being
  sent.

## 4. What is proved

The theorems hold for every value of the constants that the named assumptions
admit (`StoreAssumption`, `TransactionAssumption`, `SchemaAssumption`,
`NoTableAssumption`, `HubAssumption`, `SessionAssumption`,
`StatisticsAssumption`, `SentinelAssumption`, `ClientAssumption`,
`PagesAssumption`, `AdapterAssumption`, `FieldAssumption`): any number of
handlers, ids, tables, rows, messages, threads, form fields and any set of
faults. What they assume is that the sentinels (`NoRow`, `NoCall`, ...) are
none of the values they stand beside, that sets named as parts of others
are, and that the threads and endpoints of the statistics are finitely many.

**`GravitationalFieldService_proofs`**: `TypeCorrect`, `ServiceKeepsContract` and
`OrdersHaveTheirFields`.
`TypeOK` is not inductive: to know that a write goes to the row of the handler's
own request one must know that the handler owns the transaction and that its
request passed the controller. `IInv` adds `TransactionIsCurrent` and
`HandlerOK(w)`: what a handler holds at each `pc`, and `pc[w]` is a writing step
iff `w` owns `txn`. The proof groups the actions by their effect: steps that
only read (`ReadStepInv`), `BEGIN` (`BeginStepInv`), writes to the own row
(`WriteStepInv`), the end of a transaction (`EndStepInv`); then one lemma per
family of actions shows that it has that effect.

`ServiceKeepsContract` is the refinement. Every step of the service is a step of
`RestContract` under `phase`, or a stutter.
`ContractInv` says, on top of `IInv`, what the refinement mapping needs to know
at each `pc`: nothing else has the Guid that a calculation has drawn
(`DrawnOK`), what the handler has done to the tables so far (`ProgressOK`), and
the cleaner's threshold is no later than the clock allows (`ThresholdOK`).
`OrdersHaveTheirFields` is `OrderHasCompletedField` under its hypotheses: the
fault `completed` is not among the faults, and clients leave the field
endpoints alone. Without either the property is false, as the code is written.

**`DatabaseSchema_proofs`**: `TypeCorrect`, `NothingIsEverLost` (without the
fault `copy`) and `StartsOnExpectedTables`.
Two strengthenings are needed. From the copy to the end of the creation the
backup has everything on disk (`DiskBackedUp`), so that dropping loses nothing;
and in a start without failure the tables present are exactly those still to
be dropped, or those created so far (`OnItsWay`).

**`McpHubRegistration_proofs`**: `TypeCorrect` and `OneListingPerSetting`. A
generated id is in its file before the first request carries it, and a file once
written is never changed, so every request, late or not, carries an id that the
service was configured with, or that of the file; `IInv` says so of `instanceId`
and `registered`. With n settings of `InstanceId` the hub lists at most n ids.

**`McpWebSocketSession_proofs`**: `TypeCorrect`, `AnswersNeverOverlap` and
`MessagesArriveWhole`. That one call at most is sending is inductive only
together with what a free lock means: nobody sends. A lock that is disposed
under its holder is never granted again, so the promise outlives the lock.
`MessagesComeWhole` compares what the server read with what the client sent, and
nothing in it says what becomes of a frame on its way. `PipeInv` does: what is
unsent, what is on the wire and what is in `payloadStream` are consecutive
pieces of one stream of frames (`UnsentInv`, `WireInv`, `PayloadInv`; `After(f)`
is the frame after `f`), so that the stream always holds the beginning of
exactly one message, `Current`, and all of it when it is parsed. `DeliveredInv`
then says that what is delivered is what is good before `Current`; only when
the loop has been cancelled may the last of it be missing, and then nothing
follows.

**`UsageStatistics_proofs`**: `TypeCorrect`, `DaysAscend`, `CallsAreCounted`,
`FileNeverShrinks`, `ReportsBracketed`, `OnlyRecentIsUnsaved` and the refinement
`StatisticsImplementCounter`. An entry
is appended after its date was compared with the last one and the clock may
pass midnight in between. What saves the order of the days is the lock: `IInv`
says that its holder is alone at the list, that no entry is later than today,
and that the last one is earlier than the one about to be appended. `SavedInv`
relates `LastSaved` to the calls not yet in the file.
`CountInv` says that the instance has exactly the calls expected of it (those of
the file it was loaded from, and every one counted since), and the file no more;
hence a write, which brings what the instance has, never takes calls away.
It also makes the refinement a matter of one step at a time: the counters of
`CallCounter` are `expected`, loading changes nothing, and of the steps between
a call and its answer exactly one counts (a new entry that is incremented as
well would satisfy `EveryCallCounted` and not `CountsEachCallOnce`).
`ReportInv` follows the GET through its loop over the lists: it has written at
most the entries that a list has (or one that is just being added), what it
wrote of them is at most what they count now, and whatever it has to report is
in them or in the entries to come. `BoundInv` bounds the calls counted, and those between their
beginning and their count, by `MaxCalls`, which is what `TypeOK` needs.

**`SumTheorems`** has what these proofs need of sums over finite sets: that the
fold which defines `SumFunctionOnSet` meets its equation, whatever order the
elements are taken in, and what a sum does when one term grows. The library's
induction theorems take an operator, which no installed prover instantiates; here
induction is over *sets* (`NatSetInduction`, `FiniteSetInduction`: a set with 0
that is closed under successor contains `Nat`), from the theorem that `<` is
well-founded on `Nat`. The assumption that `Threads` and `Endpoints` are finite
is needed for sums over them to mean anything.

**`UnobtrusiveValidation_proofs`**: `TypeCorrect`, `SentFormsAreConfirmed` and
`RefusalsAreMarked`. `ApprovalInv` is what a verdict on record means: an
approval whose field is not pending is of a value the server has approved, and
a request under way is about the value on record unless a reset has dropped it.
A check that asks nothing therefore needs no new answer. `SentIsConfirmed` is
proved as an action property: `SubmitConfirms` and `AnswerConfirms` show, from
`IInv`, that a step that sends the form finds it confirmed, unless it is cancelled
(`PassingConfirms`). For `AnswerSubmits`, `JudgedApprovals` carries `ApprovalInv`
through the answer, and `RefusedFieldsAreMarked` follows from the second check's
own labels.

**`WebPages_proofs`**: `TypeCorrect`, `CleanIsStored`, `DeletionsAreConfirmed`
and `TemporaryOrdersAreTracked`. `IInv` says where each handler can be and that
its locals, its call and the answer it gets fit (`HandlersInv`). All three
properties rest on one fact about Guids (`PostInv`): the service holds nothing
under the Guid of a POST that is still on its way, and no two POSTs carry the
same one. Hence an order read back after a save is the one that was saved
(`CleanInv`), and a DELETE answered with 200 leaves no POST that could bring
the temporary order back (`TemporaryInv`).

Only model-checked: the liveness properties (`EveryRequestAnswered`,
`ExpiredOrdersGo`, `ListedAtLast`, `SessionEnds`, `CallsEnd`), since neither
liveness under fairness nor `ENABLED` is within the prover's reach. Every
invariant and every action property of a passing run is the statement of a
theorem. `RangeGenerator` has no theorem: the property of its run is false.

## 5. Not modelled

* The GETs that return lists change nothing; what they read is the committed
  state the invariants speak of.
* Gravity numbers (GeographicLib), JSON text, SQL text, Guids as strings.
* Dates are a total order with "none" first, as the text comparison of the
  cleaner sorts them. The client's UTC offset, which the stored text drops, is
  far below a unit of the clock.
* The MCP library (`McpServer`), Kestrel, `HttpClient`, Blazor's renderer and
  MudBlazor appear only as the code uses them.
* The viewer and the statistics page load once and show what they got. Units,
  search filter, snack bars and dialogs' wording are left out; a dialog is the
  state in which the user is asked. One circuit has one of the two pages; other
  circuits are `OtherClient`.
* `Calculate` is success or failure; its check of each point is the one kind of
  order that cannot be computed.
* The MCP tools parse arguments, call one controller method and convert the
  result; the legacy JSON converter converts text. Neither keeps state.
* Whether `UnregisterOnShutdown` is set and where the hub is do not change
  during a run of `McpHubRegistration`. A registration under a former
  `InstanceId` stays on the hub, since nothing withdraws it;
  `OneRegistrationPerSetting` allows for it.
* A read of the single calculation that answers null is possible in the model
  whenever the order is there; the service of this repository answers 404
  instead.
* Of the form script: messages, CSS, `debug`, the hidden input that jQuery
  Validate sends for a submit button, `submitHandler` (which `validationInfo` does
  not pass), the check of a rule called `undefined` (`maxlength` with a minimum and
  a maximum sets one, and jQuery Validate has no such method), the AMD wrapper, and the blur event that
  the rule `equalTo` of jQuery Validate binds (no field of `forms` has it;
  `FieldAssumption` says so).
* `site.js` has comments only. jQuery, jQuery Validate's own rules, Bootstrap
  and the style sheets are vendored libraries.
* Swagger, the web host, the generated client and its generator: no state of
  their own.

## 6. Plan

Done: the service with its contract, the start of the database, the usage
statistics with their report, the hub registration, the MCP session, the web
pages, the range generator and the form script; a theorem for every safety
property that the passing runs check, among them the refinements of the
contract and of the call counter.

Left, in this order:

1. `RestClient` as a client of `RestContract` itself, so that the composition of
   pages and service rests on a refinement.
2. The argument parsing and `McpActionResultConverter` of the MCP tools and the
   legacy JSON converter, as operators with reference definitions checked over
   bounded inputs.
