# Verification of zkt-dev-scrapper in TLA+

TLA+ models of the attendance collector and of the API it feeds, the TLC
configurations that check them on small instances, and theorems about them that
TLAPS checks for every value of the constants. `PROJECT.json` lists the runs, the
hazards each property is aimed at, the lines each definition models and the
findings. References are to files of the repository at this commit.

## The system

ZKTeco terminals keep a log of punches. `collector.py` (one process) copies them
to PostgreSQL; `app.py`/`api.py` (another process, 8 threads under waitress) show
them; the two share only the database.

| component | state | operations | talks to |
|---|---|---|---|
| attendance table (`database.py`) | `zkt_attendance`: composite UNIQUE key, UNIQUE `record_hash` | `insert_records`, `update_attendance_names` | device threads write, web reads |
| device thread (`collector.py: run_device`) | `device_info`, connection, timers, event queue | check active, connect, `full_sync`, `live_monitor`, retry | terminal (pyzk), database |
| capture thread (`live_monitor.capture_worker`) | the connection's `live_capture()` | queue a punch or an error | device thread through `event_queue` |
| device manager (`device_manager`) | `running_devices` | poll, start, untrack | database, device threads |
| process (`main`, `signal_handler`) | `STOP_REQUESTED` | start, stop, be killed, be restarted by Docker | all threads |
| device registration (`app.py`, `seed_devices.py`, `device_manager.py`) | `zkt_devices`: `device_id` UNIQUE, address, serial number, `status` | look up, test the terminal, insert; remove, activate; `update_device_online` | administrator, deploy script and collector write, collector reads |
| queries (`web_database.py`) | none | `build_filters`, sorting, pages, export | web threads; the table |
| API cursor (`web_database.py`, `api.py`) | none on the server; `since_id` at the client | `/stats`, `/attendance?since_id=` | clients; the table |
| caches and pool (`_TTLCache`, `db_pool.py`) | value, expiry, lock; connections | `get_or_set` | web threads |
| dashboard (`static/attendance.js`) | page, filters, sort | load, filter, page | the API |

What is hard here: a full sync and a live stream that must together miss nothing;
threads that end on their own and are replaced; an identity (`serial` or
`ip:port`) that a failing read changes; two UNIQUE constraints of which ON
CONFLICT covers one; failures at every database and device call, answered by
"disconnect and start over"; ids that are drawn before they are visible; page and
count in two statements; registrations of three steps with one constraint around
them; a cache that is tested without its lock and filled by a loader that waits for
a connection with the lock in its hands; answers to a script's requests that arrive
in any order.

What makes each part correct:

* table: one row per punch of a terminal, rows are permanent, a batch is rejected
  for a known reason only;
* device thread: every punch is stored, reads of the log and live events together
  miss nothing, deactivation and stop are obeyed;
* device manager: exactly one living thread per active device, none for others, and
  no thread ends because something failed;
* cursor: a poll skips nothing, repeats nothing, delivers everything;
* caches: never older than their time to live (by a clock that may be set back),
  never going back, one loader at a time, no circle of waits, the lock always released;
* queries: the pages of a listing partition it, a filter selects what it names, a
  malformed one nothing;
* registration: one row per terminal and per address, no row with two terminals'
  numbers, a removed device stays removed until it is activated;
* dashboard: once everything is answered, the table and the buttons belong to one
  load, and to what the controls say if it is the last one.

## Modules

| module | what it is |
|---|---|
| `AttendanceStore` | the table as a set of rows: constraints, `InsertRecords`, `UpdateNames`, `HashClash` (constant operators) |
| `AttendanceLedger` | abstract specification: the database only gains punches, and only real ones |
| `DeviceThreads` | abstract specification: which device has a thread, and for what reasons it gets and loses it |
| `DeviceCollector` | device and capture threads over `AttendanceStore`; implements `AttendanceLedger` and `DeviceThreads` |
| `DeviceManager` | the supervisor and the life of its threads; implements `DeviceThreads` |
| `AttendanceFeed` | abstract specification: the table is a log that a polling client reads in order |
| `SinceCursor` | the API's polling cursor against inserting transactions; implements `AttendanceFeed` |
| `WebCache` | the read side's caches and connection pool under the web server's threads |
| `Registration` | the device table and everything that writes it |
| `AttendanceQuery` | filters, order, pages and export as operators on a set of records |
| `Dashboard` | `attendance.js` against the API and a growing table, over `AttendanceQuery` |
| `DeviceCollectorProofs`, `DeviceManagerProofs`, `SinceCursorProofs`, `WebCacheProofs`, `RegistrationProofs`, `DashboardProofs` | theorems |
| `AttendanceQueryProofs` | lemmas about the operators of `AttendanceQuery`, for `DashboardProofs` |
| `MCCollectorOne`, `MCCollectorTwo`, `MCDeviceManager`, `MCSinceCursor`, `MCWebCache`, `MCRegistration`, `MCDashboard` | instances for TLC |

Definitions whose comment begins with "Slip" are not part of the model: each is
a variant of the operator after it with a plausible mistake, and shows that the
property named in `PROJECT.json` notices the mistake.

### AttendanceStore and DeviceCollector

A punch is a member of a set: what a pyzk `Attendance` object prints (employee,
time, status, code), which is also what `record_hash` holds. A row is the
identity it is filed under, the punch, and whether the name is filled in. An
identity is `<<"serial", d>>` or `<<"address", d>>`, so that the two identities a
terminal can have are distinct rows' keys, as in the table.

A step of a thread reaches from one point where another actor can be seen to the
next; `pc` says which:

| `pc` | code |
|---|---|
| `check` | top of `run_device`'s loop, `is_device_active` |
| `connect` | `zk.connect()`, `get_device_information`, `update_device_online` |
| `read` | `full_sync`: `conn.get_attendance()` |
| `insert` | `full_sync`: `insert_records`, one transaction |
| `names` | `save_employee_names`, then entry into `live_monitor` |
| `live` | top of `live_monitor`'s loop: stop, or `event_queue.get` and saving |
| `pass` | end of the loop body: status check, safety timeout |
| `ending` | out of the loop, for a stop or a deactivation; `conn.disconnect()` and the return are still to come |

Between the reading of the status and the end of the thread its device may be
activated again: the thread ends all the same (`ThreadEnds`). `Disconnect` ends the
capture thread at once. In the code it may outlive `capture_stop.set()` for as long
as its socket times out, but it has the queue of its own connection only, which
nobody reads any more.

Every failing call has a disjunct with `Fault`, which either leads to
`DeviceError` (`run_device`'s handler: disconnect and retry) or is swallowed where
the code swallows it (status checks, identity, names). Time is the number of loop
passes since a timer was restarted; a timer stops counting when it is due. The
sleeps are not modelled: other actors may take any number of steps anyway.

`unseen` is a ghost: the punches made since the last log read while the terminal
did not report them. It exists only to say what may be missing.

Environment: people punch at any time; `OtherPunch` stands for any amount of other
live traffic; a connection may fail with an error (`CaptureFails`) or silently
(`CaptureGoesDeaf`); the administrator toggles `status`; the process is stopped,
killed and restarted anywhere. A killed transaction is one that did not happen.

### DeviceManager

The loop of `device_manager` is cut where a device thread, a failure or the
administrator can matter: the poll, each element of the starting loop, each
element of the reaping loop. Thread names are thread objects; a name is reused
once it is dead and untracked. A device thread is reduced to the status check,
connecting, live monitoring and disconnecting (`ending`); it may fail or resync any
number of times. A thread that is ending is alive, and the manager goes on tracking
it, as the comment on `running_devices` asks: `OneThreadPerDevice` depends on it, and
`ActiveDeviceRuns` counts only threads that are not ending.

### SinceCursor

Ids are drawn by `InsertRow` (or spent on a row that ON CONFLICT skips), rows
appear at `Commit`, never at `Rollback`. The client takes `latest_id` from cached
stats, polls with `sort_by=id&sort_dir=asc`, reads a page and its count in two
steps, advances its cursor, and either asks from the new cursor (`follow = FALSE`)
or follows `next` (`follow = TRUE`); both are read out of the documentation of
`since_id`. `known`, `delivered`, `twice`, `counted` are ghosts. `AttendanceFeed` has
a table that grows at its end and a reader that takes the next rows of it; what the
reader has is `known` and, for a client that asks from its new cursor, `delivered`.

### DeviceThreads

`DeviceCollector` has the threads in full and a supervisor of two actions;
`DeviceManager` has the supervisor in full and threads of four states. What ties
them is the contract both implement: rounds find active devices only; a device is
given a thread only if a round found it and it has none, not even one that is ending;
a thread notices a stop or that its device is not active (`Notice`), and nothing else
makes it leave; one that has noticed ends later (`End`), whatever its device's status
is by then; and all of them end with the process, which quits after a stop (`Quit`) or
is killed and started again (`Restart`). `process` counts the restarts, so that a
thread's death by a failure cannot pass for one. In `DeviceCollector` a device runs
while `pc` is not `none` and leaves while it is `ending`; in `DeviceManager` while some
living thread, or one that is ending, was started for it; `chosen` is `pending` while
the starting loop runs, and `process` stays 0, as a restart is not part of that
module. Two threads of one device would count as one here: that there are never two
is `OneThreadPerDevice`.

### WebCache

A thread of the web server is cut at the places where another thread can change what
it has seen: the test without the lock (`check`), the return of the value (`hit`),
taking the lock and testing again (`lock`), waiting for a connection (`wait`), the
query (`query`), and the two assignments (`store`, `expiry`). The unlocked test reads
`_value` and then `_expires_at`: the first only tells whether it is `None`, which it
never is again, so the test is one step. A cached value is the time of its query; the
clock ticks whenever it likes. The pool hands a free connection to the thread that
has waited longest. A pool timeout or a failing query ends the request and releases
the lock. The code takes `time.time()`, which may be set back (`SetClockBack`);
`setback` is the ghost that tells real time from it. A clock set forward only lets
values expire early. `WaitsFor` says whom a thread waits for.

### Registration

A terminal stands for its serial number without blanks; what it reports may have
blanks around it (`Padded`, `Reported`). `add_device_page` and `seed_device` strip
`device_id` and store `serial_number` as reported. The collector strips nothing, so
its `update_device_online` finds no row for such a terminal (no document says
otherwise). A serial number of blanks only, which would give an empty `device_id`, is
left out. `at` says which terminal answers at an address, and
`Move` gives an address to another one at any time. A registration is `lookup`
(`get_device_by_ip`), `test` (`test_device`) and `insert` (`add_device`); a form's
registration and the seeder's are the same steps and differ in what follows: the
form redirects, the seeder goes on to its next entry (`Done`), or stops altogether
where `add_device` raises, which nothing catches (`Stop`). `UpdateDeviceOnline` is
the collector's write after a connection: to the row of the serial number it has
read, which need not be the row that the thread was started for. `removed` and
`raced` are history variables. Terminals move between addresses here only; in
`DeviceCollector` an address, and with it the identity `ip:port`, stays with its
terminal.

### AttendanceQuery and Dashboard

`build_filters` is modelled as it builds: block by block, the placeholders in the
text of the query and the list of parameters. For a number that is none, the placeholder is there before
`int()` raises, so the lists differ in length and the database refuses the query
(`QueryError`). `FiltersExact` compares what is selected with what the arguments
mean, stated independently. `Before` is the ORDER BY, `PageOf` is LIMIT and OFFSET.

`Dashboard` has the script's state, its timer and every page load without an answer.
`Query` is what `loadPage` sends; the server reads the page and counts in two steps;
answers and errors arrive in any order. `table` and `pager` hold what an answer
writes, with the number of the load it belongs to and, in `pager.query`, what that
load asked for. An error replaces the table and leaves the rest.

## Runs

| run | instance | result |
|---|---|---|
| `one` | 1 terminal, 2 punches of one employee, timers of 2 passes, 1 fault, 2 status changes, 1 restart, 1 untracked event queued | invariants and liveness hold |
| `two` | 2 terminals, 2 punches, one possible at both, unreadable serial numbers, 1 fault | no duplicates; rejections explained; names filled; ledger implemented |
| `manager` | 2 devices, 3 threads, 1 fault, 3 status changes | holds |
| `cursor` | 1 writer, 5 ids, pages of 2 | holds; the feed implemented, and with it `PollMissesNothing` |
| `cache` | 3 threads, 1 cache, 1 connection, time to live 2, clock up to 3 and set back once, 1 failure | holds |
| `registration` | 2 terminals, one of which reports blanks, 2 addresses, 2 forms, a list of both addresses, 2 moves | holds |
| `dashboard` | 3 page loads, up to 3 records of 2 kinds, pages of 1 and of 2, 2 form values, every pair of API arguments | holds |
| `resync`, `shared`, `gap`, `cursor_writers`, `cursor_pages` | as above, reduced | violated: see Findings |

Why the bounds are enough. Threads of different terminals meet only in the table,
in pairs of rows: two terminals and a shared punch show every kind of collision.
One terminal with two punches has one punch before and one after any event. Two
ticks tell "not yet due" from "due". One fault at every possible place is where a
retry can go wrong; a second only repeats the retry, and the safety theorems hold
for any number. Three threads let two devices have a second thread at once. Five
ids on pages of two give a full page, a following page and a partial one. Three web threads are a loader, one queued behind it for the lock and one ahead of it
in the pool; a time to live of 2 within 3 ticks lets a value be loaded, be served,
expire and be replaced, and one tick back lets it outlive its time. Other caches meet this one only in the pool, as direct requests do.
Two terminals at two addresses have every wiring, the same terminal at both included;
two forms and the seeder race each other over each step. Three loads have one before
and one after any load; three records of two kinds have two that agree in every
column but the id, and fill one page of two and part of another. The dashboard sorts
by one column in the run (two give the same situations five times over), while
`PagesPartition` looks at every column. The
runs of the collector and the manager switch the deadlock check off because both
really end: after a stop signal nothing happens any more. So does the run of the
dashboard, whose page loads are bounded.

`ResyncAccepted` is what the README of the repository says, and is violated
(`resync`, `shared`). `RejectionExplained` is what is true of `insert_records`: it
rejects a batch only after some call has failed, or for a punch that another terminal
has stored. That the premises are met is seen in the runs `resync` and `shared`, and in
`two` itself, where both kinds of rejection occur. `NamesFilled` is checked in `two`,
where the thread of the other terminal inserts while names are filled in.
`EveryPunchStoredIfQuiet` is the promise that is true: a terminal's punches are all
stored if it leaves `SafetyTicks` event-free loop passes in a row again and again
(`QuietHours`), or if its untracked live events stop at some time (`TrafficEnds`).
`EveryPunchStored` without these premises is what the README of the repository says,
and is violated (`gap`, `shared`).

Fairness. `DeviceCollector`: weak fairness of polling, of starting, of each
device thread as a whole and of the registration for live events. The interpreter
schedules every runnable thread, and a thread's calls return (pyzk has a 10 s
timeout; a call that never returns would be a fault outside this model). Faults,
punches, status changes, signals and restarts are not fair. `DeviceManager`: weak
fairness of the manager, of the end of the process after `main`, and of each
thread's status check, connection and end of monitoring, not of `LiveRestarts`.
`SinceCursor`: weak fairness of the client's requests and of the end of each open
transaction. `WebCache`: weak fairness of each thread's own steps as a whole, which
the interpreter's scheduling and the end of each query justify; requests, failures
and the clock are not fair. A thread that waits for the lock is not promised to get
it, as Python's locks promise no order: `LockReleased` says that it becomes free, not
who takes it. `Registration` and `Dashboard` state safety only: nobody has to finish
a registration, and an answer may never come.

## Findings

1. `resync`: re-reading a terminal under its other identity is rejected
   (`record_hash` UNIQUE, ON CONFLICT only on the composite key).
2. `shared`: a punch that prints the same at two terminals blocks the second
   terminal's sync for ever.
3. `gap`: a punch between the log read and the registration for live events is
   not stored while the terminal stays busy.
4. `cursor_writers`: with several device threads the id cursor can skip a row
   that commits late.
5. `cursor_pages`: following `next` can skip rows committed between the page query
   and the count query.

Besides these, the models show behaviour of which no document says otherwise:

* the dashboard keeps the answer to an earlier load when it arrives last, under
  controls that say something else, until the next load: `SettledShowsOneLoad` says
  that what is on the page is that load as a whole, rows, range and buttons; an
  enabled "Next" may do nothing meanwhile, as the page number of the state decides;
* the collector's `update_device_online` never writes the row of a terminal that
  reports blanks around its serial number, as only the registration strips them;
* a request with a malformed number is answered by an error of the database, not by
  an empty list, although "1 = 0" was meant to give one;
* `per_page` above 500 hides pages, and 0 divides by zero (the API description allows
  1 to 500, which is what `PagesPartition` covers);
* a seeding run ends at the first terminal that is registered under another address,
  and the entries behind it are not reached;
* an address whose row belongs to a terminal that was replaced cannot be registered
  again, not even when that device was removed: the lookup finds the old row.

## What is proved

`DeviceCollectorProofs`, from `StoreAssumption` (every punch has an employee) and
`CollectorAssumption` (the types of the constants), for `Spec`, hence for
`FairSpec` too:

* `TypeCorrect`: `[]TypeOK`.
* `HashesUnique`: `[]HashUnique`, inductive with `TypeOK`: `insert_records` either
  raises or adds rows whose hash is new, and `update_attendance_names` changes no
  hash.
* `StoredOnceAlways`: `[]StoredOnce`, from `HashesUnique`. `StoredOnce` is not
  inductive, and this is where UNIQUE(`record_hash`) is needed: the composite key alone would let the two
  identities of a terminal store a punch twice.
* `RowsArePermanent`: the action property, from the fact that every step leaves
  the table, inserts a batch or fills in names.
* `PunchesAreAccounted`: `[]PunchesAccounted`, itself inductive with `TypeOK`. It
  follows a punch through the thread: what the log holds is in `records` at
  `insert`, in the table at `names`, in the table, the queue or `unseen` later;
  nothing is captured or queued outside `live_monitor`.
* `CollectorImplementsLedger`: `Spec => Ledger!Spec`, one case per kind of step.
* `NamesAlwaysFilled`: `[]NamesFilled`, inductive with `TypeOK`. Two lemmas carry
  it: a terminal is monitored after a step only if it was before, over the same
  connection, or the step filled in the names (`MonitoredBefore`); a failed call
  stays on the count (`FaultsStay`).

* `CollectorImplementsThreads`: `Spec => Threads!Spec`. Every step of a thread leads
  to another place of its loop, to `ending` with a stop or an inactive device
  (`Notice`), or from `ending` to `none` (`End`).
* `RejectionsExplained`: `[]RejectionExplained`, with no condition on the constants.
  While no call has failed, every row is filed under a serial number, so a row with
  the hash of a punch in hand either has its key too, and ON CONFLICT covers it, or
  belongs to another terminal, which has logged that punch because the table holds
  genuine punches only.

`DeviceManagerProofs`, from `ManagerAssumption`: `TypeCorrect`, `TableExact`
(`[]RunningDevicesExact`), `NoSecondThread` (`[]OneThreadPerDevice`) and
`ManagerImplementsThreads` (`Spec => Threads!Spec`, in which a thread's end frees its
device because no other thread has it, and a device is leaving only if its one thread
is).
`OneThreadPerDevice` is not inductive: that a new thread is the only one needs
that every living thread is tracked under its device, which is
`RunningDevicesExact`.

`SinceCursorProofs`, from `CursorAssumption`: `TypeCorrect` for any number of
writers, in which `GreatestIs` (MAX(id) exists and is an id, by well-foundedness of
the numbers) is the lemma that matters. From `OneWriter` (at most one thread
inserts at a time; the run `cursor_writers` shows why it is needed):
`OneWriterMissesNothing` (`[]PollMissesNothing`) and `OneWriterNoRowTwice`
(`[]NoRowTwice`), for any page size and any number of ids. Neither is inductive.
The invariant adds that an id whose row is not yet visible is above every visible row
(`IdsInOrder`, the part two writers break), that cached stats and the cursor are
never ahead of the table (`StatsBehind`, `CursorBehind`), that a page is the first
one behind its cursor unless `next` is followed (`FirstPage`), that, unless `next` is followed,
a new row not yet delivered is ahead of the cursor (`AllAhead`), and
that the pages of one poll do not overlap (`PagesApart`). `OneWriterImplementsFeed`
(`Spec => Feed!Spec`) adds where a client begins: behind all rows that `/stats` had
counted and with nothing before that (`Beginning`); then a commit is an `Append`,
`GET /stats` and the answer to a poll are a `Read`, and every other step stutters.

`WebCacheProofs`, from `WebCacheAssumption`, for any number of threads, caches and
connections: `TypeCorrect`, `AlwaysServedFresh`, `LoadsOnlyWhenDue`,
`CacheNeverOlder`, `WaitsEnd`. None of the properties is inductive. `LockInv`: who
loads or stores owns the lock of its cache, so there is one. `TimeInv`: a cached value
expires no later than its query plus the time to live, because real time is never
behind what the clock has shown; between the two assignments the new value has the old
expiry time. `WaitsEnd` (`[]NoCircularWait`) is the part of `LockReleased` that
does not depend on fairness: whom a thread waits for is always nearer to a thread that
runs. It needs that the queue of the pool holds exactly the threads that wait for a
connection, each once (`QueueExact`), and that the owner of a lock is at work on its
cache, not waiting for another lock (`OwnersAtWork`).

`RegistrationProofs`, from `RegistrationAssumption`: `TypeCorrect`, `AddressesOnce`,
`TerminalsOnce`, `SerialNumbersOwn`, `RemovedForGood`, `SeedsAccounted`. `FlowInv`
says what is known at each step of a registration, `IdUnique` that the rows' ids
differ. `RaceInv` carries `AddressOnce`: at an address that did not change hands
during a registration, whoever inserts has read the serial number of the terminal
that answers there, and so did the rows that got in before, so the insert is refused.
`WiringInv` carries `OneRowPerTerminal`: while nothing moves, each row's address leads
to its own terminal. `SerialNumbersOwn` does without it: what the collector writes
into a row is the text that found the row, and stripping a `device_id` changes
nothing. `RemovedInv` adds that a removed device has a row.

`AttendanceQueryProofs` holds what the operators of `AttendanceQuery` do, for every
set of records, sort order, page size and query string. Ids make the order of the
records total, so `Position` numbers any selection from 0 without gaps
(`PositionsExact`: the positions differ and are as many as the records, so each is taken),
the export is that numbering
(`ExportInOrder`) and a page is the stretch of it that LIMIT and OFFSET name
(`PageIsStretch`, `PagesAreStretches`). A block of `build_filters` adds one
placeholder and one parameter or, for a malformed number, only the former, so without
one the two lists pair up (`AllBlocks`, `EveryArgumentCompared`, `SelectMeans`), and
with one they differ in length (`MalformedMismatch`).

`DashboardProofs`, from these lemmas and the assumptions of `AttendanceQuery` and
`Dashboard` (the form sends no malformed number, the page size is one that the API
allows): `SettledPageShowsOneLoad`. `RequestInv` says that
the last load asked for the page number and sorting of the state and, unless a reload
is due, for the filters of the form (`Follows`), and that what the server has read fits
them; `ViewInv` says the same of the load that the page shows, whichever answer came
last and however many records have been added since (`SelectGrows`). It is not
inductive without `RequestInv`, and `FlowInv` adds that a page without a first answer
still waits for one. `FiltersAreExact` and `PagesArePartition`: the
records of the table have ids from 1 on, each once (`RowsInv`), which is all that
the lemmas above ask for. `TypeCorrect`. `RangeAlwaysCovers`: a page of a selection
has at most the records that the displayed range names, and a selection that has grown until it
is counted only widens the range (`ShownStays`); this is carried from the first
statement (`LoadAwaited`, `ServerAwaited`) to the answer.

Only model-checked: the liveness properties (`EveryPunchStoredIfQuiet`,
`DeactivationNoticed`, `StopObeyed`, `ActiveDeviceRuns`, `InactiveDeviceStops`,
`StopEndsAll`, `EveryRowDelivered`, `LockReleased`), as TLAPS does not do liveness under
fairness. Every invariant, action property and refinement that a passing run
checks is stated by a theorem.

## Not modelled

* The text of columns, printing, CSV, HTML: no property is about them.
* `update_device_online` in `DeviceCollector`: it changes no column that the thread
  tests, and its failure is ignored. `Registration` has it.
* Of the dashboard, the statistics and the filter's drop-down values, which are loaded
  once into parts of the page that nothing else touches, the export button, theme and
  menu.
* Of the filters, `device_ip`, `device_serial` and `punch_type`, which are compared as
  `branch` is; of the search, the pattern matching: a text is the set of values that
  contain it.
* `update_device`, `make_record_hash`, `get_all_devices`, `get_total_records`,
  `get_latest_record`, `zkteco.py`: nothing calls them.
* API key, rate limiter, templates, styles, API description, deployment: no state of
  this program. `zkteco_to_csv.py` is a one-shot sequential script.
* NULL status or punch codes: pyzk always delivers integers.
* A process stop that is slow: signals set a flag, `Restart` kills.

## Plan

Done: the collector, the manager, the cursor, the caches, registration, queries and
the dashboard, with a theorem for every safety property of a passing run. What could
follow, in this order:

1. The composition of `Registration` with `DeviceManager`: threads started from
   addresses, so that a terminal at two addresses would have two threads.
2. What a client that follows `next` is promised: that the rows it skips were
   committed while a page was being read (`cursor_pages` shows that it skips some).
3. The part of each liveness property that needs no fairness, as `WaitsEnd` is for
   `LockReleased`.
