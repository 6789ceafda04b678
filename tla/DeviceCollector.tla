---------------------------- MODULE DeviceCollector ----------------------------
(***************************************************************************)
(* The write path of the collector (collector.py): for every terminal one  *)
(* device thread that runs                                                 *)
(*     active? -> connect -> full_sync -> live_monitor -> repeat           *)
(* and one capture thread that feeds live punches to live_monitor through  *)
(* a queue.  Their environment is the terminal (people punch at any time), *)
(* the database (statements may fail), the administrator (activates and    *)
(* deactivates) and the operating system (stops, kills and restarts the    *)
(* process).  A step of a thread goes from one point where another actor   *)
(* can be observed to the next: one database or one device call each.      *)
(*                                                                         *)
(* At most one thread runs per terminal here by the shape of pc; that the  *)
(* device manager guarantees it is the subject of module DeviceManager.    *)
(***************************************************************************)
EXTENDS AttendanceStore, Naturals, Sequences

CONSTANTS
    PunchesAt,      \* the punches that people may make at a terminal
    StatusTicks,    \* loop passes until the status check is due (15 s)
    SafetyTicks,    \* event-free loop passes until the safety sync (60 min)
    SerialFails,    \* TRUE: reading the serial number may fail
    EventLoss,      \* TRUE: a connection may go dead without an error
    Busy,           \* TRUE: live punches other than the tracked ones arrive
    QueueCap,       \* bound: untracked events pile up to this length only
    MaxFaults,      \* bound: failing database, network and device calls
    MaxToggles,     \* bound: activations and deactivations
    MaxRestarts     \* bound: process restarts

ASSUME CollectorAssumption ==
    /\ PunchesAt \in [Device -> SUBSET Punch]
    /\ StatusTicks \in Nat /\ SafetyTicks \in Nat
    /\ SerialFails \in BOOLEAN /\ EventLoss \in BOOLEAN /\ Busy \in BOOLEAN
    /\ QueueCap \in Nat /\ MaxFaults \in Nat
    /\ MaxToggles \in Nat /\ MaxRestarts \in Nat

\* Queue entries: <<"attendance", punch>>, an untracked attendance, an error.
Attendance(p) == <<"attendance", p>>
Untracked == <<"untracked">>
Error == <<"error">>
Event == {Attendance(p) : p \in Punch} \cup {Untracked, Error}

VARIABLES
    status,     \* zkt_devices.status
    log,        \* the punches in the terminal's own memory
    db,         \* the rows of zkt_attendance
    pc,         \* where the device thread is; "none": there is no thread
    ident,      \* device_info: the kind of identity that was read
    user_map,   \* device_info: the employees whose name was read
    records,    \* full_sync: the punches read from the terminal
    capture,    \* the capture thread's connection
    queue,      \* event_queue
    quiet,      \* loop passes since last_event
    unchecked,  \* loop passes since last_status_check
    unseen,     \* ghost: punches made since the last read, capture not on
    polled,     \* device_manager: the active devices it is about to start
    stop,       \* STOP_REQUESTED
    faults, toggles, restarts   \* how much of each bound is used up

connection == <<ident, user_map, records>>
timers == <<quiet, unchecked>>
control == <<polled, stop>>
budgets == <<faults, toggles, restarts>>
monitor == <<capture, queue, timers>>
vars == <<status, log, db, pc, connection, monitor, unseen, control, budgets>>

\* "ending": the thread has left its loop and is about to disconnect and return.
PC == {"none", "check", "connect", "read", "insert", "names", "live", "pass", "ending"}

\* Slips for mutant runs: rows are filed under the registered name of the
\* terminal; all threads share one device_info.
registered_id(d) == d

shared_id(d) == <<ident[d], CHOOSE e \in Device : TRUE>>

device_id(d) == <<ident[d], d>>

\* The punches of terminal d that are in the database, under any identity.
StoredAt(d) == {r.punch : r \in {q \in db : q.device_id \in IdKind \X {d}}}

Init ==
    /\ status = [d \in Device |-> "active"]
    /\ log = [d \in Device |-> {}]
    /\ db = {}
    /\ pc = [d \in Device |-> "none"]
    /\ ident = [d \in Device |-> "serial"]
    /\ user_map = [d \in Device |-> {}]
    /\ records = [d \in Device |-> {}]
    /\ capture = [d \in Device |-> "off"]
    /\ queue = [d \in Device |-> <<>>]
    /\ quiet = [d \in Device |-> 0]
    /\ unchecked = [d \in Device |-> 0]
    /\ unseen = [d \in Device |-> {}]
    /\ polled = {}
    /\ stop = FALSE
    /\ faults = 0 /\ toggles = 0 /\ restarts = 0

--------------------------------------------------------------------------------
(***************************************************************************)
(* Building blocks of the thread's steps.                                  *)
(***************************************************************************)
Goto(d, next) == pc' = [pc EXCEPT ![d] = next]

\* A call fails.
Fault ==
    /\ faults < MaxFaults
    /\ faults' = faults + 1
    /\ UNCHANGED <<toggles, restarts>>

NoFault == UNCHANGED budgets

\* Slip for a mutant run: the queue outlives its connection.
DisconnectKeepsQueue(d) ==
    capture' = [capture EXCEPT ![d] = "off"] /\ UNCHANGED queue

\* finally: capture_stop.set() and conn.disconnect(); the queue is garbage.
Disconnect(d) ==
    /\ capture' = [capture EXCEPT ![d] = "off"]
    /\ queue' = [queue EXCEPT ![d] = <<>>]

\* Slip for a mutant run: an exception leaves run_device's loop.
DeviceErrorEnds(d) ==
    /\ Goto(d, "ending")
    /\ Disconnect(d)
    /\ UNCHANGED <<db, timers>>

(***************************************************************************)
(* run_device's handler of an exception: disconnect, sleep RETRY_SECONDS   *)
(* (time, which the steps of the others stand for), next iteration.        *)
(***************************************************************************)
DeviceError(d) ==
    /\ Goto(d, "check")
    /\ Disconnect(d)
    /\ UNCHANGED <<db, timers>>

Rows(d, punches) == {PrepareRecord(device_id(d), user_map[d], p) : p \in punches}

--------------------------------------------------------------------------------
(***************************************************************************)
(* The device thread.                                                      *)
(***************************************************************************)

\* device_manager: get_active_devices(), while not STOP_REQUESTED.
PollDevices ==
    /\ ~ stop
    /\ polled' = {d \in Device : status[d] = "active" /\ pc[d] = "none"}
    /\ UNCHANGED <<status, log, db, pc, connection, monitor, unseen, stop, budgets>>

\* device_manager: a polled device without a thread gets one, even if it was
\* deactivated, or the collector told to stop, since the poll.
StartThread(d) ==
    /\ d \in polled /\ pc[d] = "none"
    /\ polled' = polled \ {d}
    /\ Goto(d, "check")
    /\ UNCHANGED <<status, log, db, connection, monitor, unseen, stop, budgets>>

\* while not STOP_REQUESTED; a failing is_device_active counts as active.
CheckActive(d) ==
    /\ pc[d] = "check"
    /\ \/ (stop \/ status[d] = "inactive") /\ Goto(d, "ending") /\ NoFault
       \/ ~ stop /\ status[d] = "active" /\ Goto(d, "connect") /\ NoFault
       \/ ~ stop /\ Goto(d, "connect") /\ Fault
    /\ UNCHANGED <<status, log, db, connection, monitor, unseen, control>>

\* get_device_information swallows every failing read: the identity or the user
\* map (get_users) may be missing.
GetDeviceInformation(d) ==
    /\ \/ ident' = [ident EXCEPT ![d] = "serial"] /\ NoFault
       \/ SerialFails /\ ident' = [ident EXCEPT ![d] = "address"] /\ Fault
    /\ \E names \in SUBSET User : user_map' = [user_map EXCEPT ![d] = names]

\* zk.connect(), get_device_information, update_device_online (errors ignored).
Connect(d) ==
    /\ pc[d] = "connect"
    /\ \/ DeviceError(d) /\ Fault /\ UNCHANGED connection
       \/ /\ GetDeviceInformation(d)
          /\ Goto(d, "read")
          /\ UNCHANGED <<db, records, monitor>>
    /\ UNCHANGED <<status, log, unseen, control>>

\* full_sync: conn.get_attendance(); an empty log skips the insert.
ReadLog(d) ==
    /\ pc[d] = "read"
    /\ \/ DeviceError(d) /\ Fault /\ UNCHANGED <<records, unseen>>
       \/ /\ records' = [records EXCEPT ![d] = log[d]]
          /\ unseen' = [unseen EXCEPT ![d] = {}]
          /\ Goto(d, IF log[d] = {} THEN "names" ELSE "insert")
          /\ UNCHANGED <<db, monitor>> /\ NoFault
    /\ UNCHANGED <<status, log, ident, user_map, control>>

\* full_sync: insert_records, one transaction for the whole log.
InsertLog(d) ==
    /\ pc[d] = "insert"
    /\ \/ DeviceError(d) /\ Fault
       \/ HashClash(db, Rows(d, records[d])) /\ DeviceError(d) /\ NoFault
       \/ /\ ~ HashClash(db, Rows(d, records[d]))
          /\ db' = InsertRecords(db, Rows(d, records[d]))
          /\ Goto(d, "names")
          /\ UNCHANGED monitor /\ NoFault
    /\ UNCHANGED <<status, log, connection, unseen, control>>

\* live_monitor: new timers, a new event queue, the capture thread started.
StartMonitor(d) ==
    /\ Goto(d, "live")
    /\ capture' = [capture EXCEPT ![d] = "starting"]
    /\ queue' = [queue EXCEPT ![d] = <<>>]
    /\ quiet' = [quiet EXCEPT ![d] = 0]
    /\ unchecked' = [unchecked EXCEPT ![d] = 0]

\* save_employee_names swallows its errors; then live_monitor is entered.
SaveNames(d) ==
    /\ pc[d] = "names"
    /\ \/ db' = UpdateNames(db, device_id(d), user_map[d]) /\ NoFault
       \/ UNCHANGED db /\ Fault
    /\ StartMonitor(d)
    /\ UNCHANGED <<status, log, connection, unseen, control>>

\* Slip for a mutant run: the loop does not leave on a stop.
LiveStopIgnored(d) == pc[d] = "live" /\ stop /\ UNCHANGED vars

\* live_monitor: STOP_REQUESTED ends the loop, and run_device's with it.
LiveStop(d) ==
    /\ pc[d] = "live" /\ stop
    /\ Goto(d, "ending") /\ Disconnect(d)
    /\ UNCHANGED <<status, log, db, connection, timers, unseen, control, budgets>>

\* event_queue.get(timeout=1) finds nothing.
LiveEmpty(d) ==
    /\ pc[d] = "live" /\ ~ stop /\ queue[d] = <<>>
    /\ quiet' = [quiet EXCEPT ![d] = IF @ < SafetyTicks THEN @ + 1 ELSE @]
    /\ unchecked' = [unchecked EXCEPT ![d] = IF @ < StatusTicks THEN @ + 1 ELSE @]
    /\ Goto(d, "pass")
    /\ UNCHANGED <<status, log, db, connection, capture, queue, unseen, control, budgets>>

\* Slip for a mutant run: an event restarts the status timer too.
LiveSavedRestartsBoth(d) ==
    /\ Goto(d, "pass")
    /\ queue' = [queue EXCEPT ![d] = Tail(@)]
    /\ quiet' = [quiet EXCEPT ![d] = 0]
    /\ unchecked' = [unchecked EXCEPT ![d] = 0]
    /\ UNCHANGED capture /\ NoFault

\* An event is saved by save_live_record: the safety timer restarts.
LiveSaved(d) ==
    /\ Goto(d, "pass")
    /\ queue' = [queue EXCEPT ![d] = Tail(@)]
    /\ quiet' = [quiet EXCEPT ![d] = 0]
    /\ unchecked' = [unchecked EXCEPT ![d] = IF @ < StatusTicks THEN @ + 1 ELSE @]
    /\ UNCHANGED capture /\ NoFault

\* Slip for a mutant run: live records are filed under "ip:port".
LiveEventByAddress(d) ==
    /\ pc[d] = "live" /\ ~ stop /\ queue[d] # <<>>
    /\ \/ Head(queue[d]) = Error /\ DeviceError(d)
       \/ \E p \in Punch :
            /\ Head(queue[d]) = Attendance(p) /\ LiveSaved(d)
            /\ db' = InsertRecords(db, {PrepareRecord(<<"address", d>>, user_map[d], p)})
    /\ UNCHANGED <<status, log, connection, unseen, control, budgets>>

\* The oldest event is taken; an error event is raised again.
LiveEvent(d) ==
    /\ pc[d] = "live" /\ ~ stop /\ queue[d] # <<>>
    /\ \/ Head(queue[d]) = Error /\ DeviceError(d) /\ NoFault
       \/ Head(queue[d]) # Error /\ DeviceError(d) /\ Fault
       \/ Head(queue[d]) = Untracked /\ LiveSaved(d) /\ UNCHANGED db
       \/ \E p \in Punch :
            /\ Head(queue[d]) = Attendance(p)
            /\ \/ HashClash(db, Rows(d, {p})) /\ DeviceError(d) /\ NoFault
               \/ /\ ~ HashClash(db, Rows(d, {p}))
                  /\ db' = InsertRecords(db, Rows(d, {p}))
                  /\ LiveSaved(d)
    /\ UNCHANGED <<status, log, connection, unseen, control>>

(***************************************************************************)
(* The end of a pass of the loop: the status check when it is due, then    *)
(* the safety timeout.  A failing status check counts as active.           *)
(***************************************************************************)
StatusCheckDue(d) == unchecked[d] >= StatusTicks

\* The row that the check reads is inactive: "deactivated", out of both loops.
LiveDeactivated(d) ==
    /\ pc[d] = "pass" /\ StatusCheckDue(d) /\ status[d] = "inactive"
    /\ Goto(d, "ending") /\ Disconnect(d)
    /\ UNCHANGED <<status, log, db, connection, timers, unseen, control, budgets>>

\* Slip for a mutant run: the safety timeout is never looked at.
LivePassNoSafety(d) ==
    /\ pc[d] = "pass"
    /\ StatusCheckDue(d) => status[d] = "active"
    /\ unchecked' = [unchecked EXCEPT ![d] = IF StatusCheckDue(d) THEN 0 ELSE @]
    /\ Goto(d, "live")
    /\ UNCHANGED <<status, log, db, connection, capture, queue, quiet, unseen, control, budgets>>

LivePass(d) ==
    /\ pc[d] = "pass"
    /\ \/ (StatusCheckDue(d) => status[d] = "active") /\ NoFault
       \/ StatusCheckDue(d) /\ Fault
    /\ unchecked' = [unchecked EXCEPT ![d] = IF StatusCheckDue(d) THEN 0 ELSE @]
    /\ IF quiet[d] >= SafetyTicks
          THEN Goto(d, "check") /\ Disconnect(d)
          ELSE Goto(d, "live") /\ UNCHANGED <<capture, queue>>
    /\ UNCHANGED <<status, log, db, connection, quiet, unseen, control>>

\* conn.disconnect() is behind it and run_device returns, whatever the device's
\* status has become since it was read.
ThreadEnds(d) ==
    /\ pc[d] = "ending" /\ Goto(d, "none")
    /\ UNCHANGED <<status, log, db, connection, monitor, unseen, control, budgets>>

Thread(d) ==
    \/ CheckActive(d) \/ Connect(d)
    \/ ReadLog(d) \/ InsertLog(d) \/ SaveNames(d)
    \/ LiveStop(d) \/ LiveEmpty(d) \/ LiveEvent(d)
    \/ LiveDeactivated(d) \/ LivePass(d) \/ ThreadEnds(d)
--------------------------------------------------------------------------------
(***************************************************************************)
(* The capture thread and the terminal.                                    *)
(***************************************************************************)

\* conn.live_capture() has registered for events at the terminal.
CaptureRegisters(d) ==
    /\ capture[d] = "starting"
    /\ capture' = [capture EXCEPT ![d] = "on"]
    /\ UNCHANGED <<status, log, db, pc, connection, queue, timers, unseen, control, budgets>>

\* live_capture() raises: capture_worker queues the error and ends.
CaptureFails(d) ==
    /\ capture[d] # "off" /\ Fault
    /\ capture' = [capture EXCEPT ![d] = "off"]
    /\ queue' = [queue EXCEPT ![d] = Append(@, Error)]
    /\ UNCHANGED <<status, log, db, pc, connection, timers, unseen, control>>

\* The connection dies silently: live_capture() times out for ever.
CaptureGoesDeaf(d) ==
    /\ EventLoss /\ capture[d] = "on" /\ Fault
    /\ capture' = [capture EXCEPT ![d] = "deaf"]
    /\ UNCHANGED <<status, log, db, pc, connection, queue, timers, unseen, control>>

\* Somebody punches: the terminal logs it and reports it if asked to.
MakePunch(d, p) ==
    /\ p \in PunchesAt[d] \ log[d]
    /\ log' = [log EXCEPT ![d] = @ \cup {p}]
    /\ IF capture[d] = "on"
          THEN queue' = [queue EXCEPT ![d] = Append(@, Attendance(p))] /\ UNCHANGED unseen
          ELSE unseen' = [unseen EXCEPT ![d] = @ \cup {p}] /\ UNCHANGED queue
    /\ UNCHANGED <<status, db, pc, connection, capture, timers, control, budgets>>

\* A punch that the model does not track by name.
OtherPunch(d) ==
    /\ Busy /\ capture[d] = "on" /\ Len(queue[d]) < QueueCap
    /\ queue' = [queue EXCEPT ![d] = Append(@, Untracked)]
    /\ UNCHANGED <<status, log, db, pc, connection, capture, timers, unseen, control, budgets>>
--------------------------------------------------------------------------------
(***************************************************************************)
(* The administrator (app.py's remove and activate) and the process.       *)
(***************************************************************************)
SetStatus(d) ==
    /\ toggles < MaxToggles /\ toggles' = toggles + 1
    /\ status' = [status EXCEPT ![d] = IF @ = "active" THEN "inactive" ELSE "active"]
    /\ UNCHANGED <<log, db, pc, connection, monitor, unseen, control, faults, restarts>>

signal_handler ==
    /\ ~ stop /\ stop' = TRUE
    /\ UNCHANGED <<status, log, db, pc, connection, monitor, unseen, polled, budgets>>

(***************************************************************************)
(* The process dies, killed or because main() returned while its daemon    *)
(* threads still ran, and Docker starts it again.                          *)
(***************************************************************************)
Restart ==
    /\ restarts < MaxRestarts /\ restarts' = restarts + 1
    /\ stop' = FALSE /\ polled' = {}
    /\ pc' = [d \in Device |-> "none"]
    /\ capture' = [d \in Device |-> "off"]
    /\ queue' = [d \in Device |-> <<>>]
    /\ UNCHANGED <<status, log, db, connection, timers, unseen, faults, toggles>>

Environment(d) ==
    \/ CaptureRegisters(d) \/ CaptureFails(d) \/ CaptureGoesDeaf(d)
    \/ \E p \in Punch : MakePunch(d, p)
    \/ OtherPunch(d)
    \/ SetStatus(d)

Next ==
    \/ \E d \in Device : StartThread(d) \/ Thread(d) \/ Environment(d)
    \/ PollDevices
    \/ signal_handler
    \/ Restart

(***************************************************************************)
(* Fairness: the interpreter runs every thread that can run, the manager   *)
(* keeps polling, a capture thread gets to register.  Nothing is assumed   *)
(* of people, administrators, signals and faults.                          *)
(***************************************************************************)
Fairness ==
    /\ WF_vars(PollDevices)
    /\ \A d \in Device :
        /\ WF_vars(StartThread(d))
        /\ WF_vars(Thread(d))
        /\ WF_vars(CaptureRegisters(d))

Spec == Init /\ [][Next]_vars

FairSpec == Spec /\ Fairness
--------------------------------------------------------------------------------
(***************************************************************************)
(* Properties.                                                             *)
(***************************************************************************)

\* The values every variable ranges over (all state of collector.py's write path).
TypeOK ==
    /\ status \in [Device -> {"active", "inactive"}]
    /\ log \in [Device -> SUBSET Punch]
    /\ db \subseteq Row
    /\ pc \in [Device -> PC]
    /\ ident \in [Device -> IdKind]
    /\ user_map \in [Device -> SUBSET User]
    /\ records \in [Device -> SUBSET Punch]
    /\ capture \in [Device -> {"off", "starting", "on", "deaf"}]
    /\ queue \in [Device -> Seq(Event)]
    /\ quiet \in [Device -> 0..SafetyTicks]
    /\ unchecked \in [Device -> 0..StatusTicks]
    /\ unseen \in [Device -> SUBSET Punch]
    /\ polled \subseteq Device
    /\ stop \in BOOLEAN
    /\ faults \in 0..MaxFaults
    /\ toggles \in 0..MaxToggles
    /\ restarts \in 0..MaxRestarts

\* A punch of a terminal is in the table once, whichever identities (serial
\* number, ip:port) the connections that delivered it had, however often it
\* was re-read (insert_records; README "re-syncing never creates duplicates").
StoredOnce ==
    \A r, q \in db :
        r.device_id[2] = q.device_id[2] /\ r.punch = q.punch => r = q

\* At every point of the thread of d, what its log holds is in full_sync's
\* hands, in the table, in the event queue or unseen, that is made while nobody
\* listened (between the log read and the registration of live_capture, or on a
\* dead connection); nothing listens or waits outside live_monitor.
Accounted(d) ==
    /\ pc[d] \notin {"live", "pass"} => capture[d] = "off" /\ queue[d] = <<>>
    /\ pc[d] = "insert" => log[d] \subseteq records[d] \cup unseen[d]
    /\ pc[d] = "names" => log[d] \subseteq StoredAt(d) \cup unseen[d]
    /\ pc[d] \in {"live", "pass"} =>
        \A p \in log[d] :
            \/ p \in StoredAt(d) \cup unseen[d]
            \/ \E i \in DOMAIN queue[d] : queue[d][i] = Attendance(p)

\* What is stored, read or queued for d was really made at d: no thread files
\* a punch under a terminal that did not log it.
Genuine(d) ==
    /\ StoredAt(d) \subseteq log[d]
    /\ records[d] \subseteq log[d]
    /\ \A i \in DOMAIN queue[d] : \A p \in Punch :
        queue[d][i] = Attendance(p) => p \in log[d]

\* At every point of every device thread, nothing is lost and nothing invented
\* between the terminal's log, full_sync's records, the queue and the table.
PunchesAccounted == \A d \in Device : Accounted(d) /\ Genuine(d)

\* No call failed so far: then a monitored terminal has named rows for every
\* employee of the user map it was connected with, old rows included
\* (update_attendance_names after the insert, names in live records).
NamesFilled ==
    \A d \in Device : \A r \in db :
        /\ pc[d] \in {"live", "pass"} /\ faults = 0
        /\ r.device_id = device_id(d) /\ UserOf[r.punch] \in user_map[d]
        => r.named

\* No step removes a row, renames its owner or takes a name back: syncs,
\* restarts, re-activations and failures only ever add (ON CONFLICT DO NOTHING,
\* update_attendance_names touching nameless rows only).
RowsPermanent ==
    [][\A r \in db : \E q \in db' : SameKey(r, q) /\ (r.named => q.named)]_vars

\* insert_records never rejects the log that a full sync has read (README "safe to
\* do on every reconnect").  The code does not keep this: see run resync.
ResyncAccepted ==
    \A d \in Device :
        pc[d] = "insert" => ~ HashClash(db, Rows(d, records[d]))

\* What thread d is about to insert: full_sync's records, or the oldest event.
InHand(d) ==
    IF pc[d] = "insert"
       THEN records[d]
       ELSE {p \in Punch : pc[d] = "live" /\ queue[d] # <<>> /\ Head(queue[d]) = Attendance(p)}

\* insert_records rejects what a thread delivers for two reasons only: a call has
\* failed (the serial number may have been unreadable), or another terminal has
\* logged, and stored, a punch that prints the same.  Otherwise full syncs and
\* live events of one terminal, however they alternate, never collide.
RejectionExplained ==
    \A d \in Device :
        HashClash(db, Rows(d, InHand(d))) =>
            \/ faults > 0
            \/ \E e \in Device \ {d} : InHand(d) \cap log[e] \cap StoredAt(e) # {}

\* Terminal d's punches are all in the database in the end, while it is active.
PunchesStoredAt(d) ==
    \A p \in Punch :
        p \in log[d] ~> (p \in StoredAt(d) \/ status[d] = "inactive" \/ stop)

\* Every punch made at an active terminal is in the database in the end (README
\* "saves every new punch").  The code does not keep this: see runs gap, shared.
EveryPunchStored == \A d \in Device : PunchesStoredAt(d)

\* Terminal d's other traffic dries up; or it leaves SafetyTicks loop passes in a
\* row without an event (an hour) again and again, busy as it may be in between.
TrafficEnds(d) == <>[] (\A i \in DOMAIN queue[d] : queue[d][i] # Untracked)

QuietHours(d) == []<> (quiet[d] >= SafetyTicks)

\* At such a terminal every punch is stored in the end: the safety sync recovers
\* what live_capture missed.
EveryPunchStoredIfQuiet ==
    \A d \in Device : TrafficEnds(d) \/ QuietHours(d) => PunchesStoredAt(d)

\* A deactivated terminal's thread ends (unless it is activated again first).
DeactivationNoticed ==
    \A d \in Device :
        status[d] = "inactive" ~> (pc[d] = "none" \/ status[d] = "active")

\* After a stop signal every device thread ends (unless the process restarts).
StopObeyed ==
    \A d \in Device : stop ~> (pc[d] = "none" \/ ~ stop)

\* The abstract ledger: one entry per terminal and punch.
Made == {e \in Device \X Punch : e[2] \in log[e[1]]}

Stored == {e \in Device \X Punch : e[2] \in StoredAt(e[1])}

Ledger == INSTANCE AttendanceLedger
    WITH Entry <- Device \X Punch, made <- Made, stored <- Stored

\* The collector implements the ledger: rows only appear, and only for punches
\* that were made at the terminal they are filed under.
ImplementsLedger == Ledger!Spec

\* The abstract threads of DeviceThreads.
Active == {d \in Device : status[d] = "active"}

Running == {d \in Device : pc[d] # "none"}

Leaving == {d \in Device : pc[d] = "ending"}

Threads == INSTANCE DeviceThreads
    WITH active <- Active, chosen <- polled, running <- Running, leaving <- Leaving,
         process <- restarts

\* The device threads implement the contract: wherever in its work a thread is,
\* no failure makes it leave its loop, only a stop or a deactivation that it saw;
\* and only a thread that has left its loop ends, unless the process does.
ImplementsDeviceThreads == Threads!Spec
================================================================================
