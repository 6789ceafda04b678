----------------------------- MODULE DeviceManager -----------------------------
(***************************************************************************)
(* The supervisor of the collector (collector.py, device_manager): a loop  *)
(* that polls the active devices, starts a thread for each one that it     *)
(* does not track in running_devices, and untracks the threads that have   *)
(* died.  A device thread is run_device reduced to what decides its life:  *)
(* the check that the device is active, the connection, live monitoring.   *)
(* Module DeviceCollector has what the thread does with the data.          *)
(*                                                                         *)
(* Thread names stand for threading.Thread objects; a name is used again   *)
(* once its thread is dead and nothing refers to it.                       *)
(***************************************************************************)
EXTENDS Naturals

CONSTANTS
    Device,         \* zkt_devices.device_id
    Thread,         \* thread objects
    NoThread,       \* no entry in running_devices
    MaxFaults,      \* bound: failing database calls
    MaxToggles      \* bound: registrations, activations, deactivations

ASSUME ManagerAssumption ==
    NoThread \notin Thread /\ MaxFaults \in Nat /\ MaxToggles \in Nat

VARIABLES
    status,             \* zkt_devices.status; "absent": not registered
    running_devices,    \* device_id -> thread
    manager,            \* where the manager's loop is
    pending,            \* the devices its current for loop still visits
    device,             \* thread -> the device it was started for
    life,               \* thread -> where run_device is
    stop,               \* STOP_REQUESTED
    faults, toggles     \* how much of each bound is used up

table == <<running_devices, manager, pending>>
threads == <<device, life>>
vars == <<status, table, threads, stop, faults, toggles>>

Status == {"absent", "active", "inactive"}
\* ending: run_device has left its loop, but not yet disconnected and returned.
Life == {"unused", "check", "connect", "live", "ending", "dead"}

IsAlive(t) == life[t] \in {"check", "connect", "live", "ending"}

Tracked == {d \in Device : running_devices[d] # NoThread}

Init ==
    /\ status \in [Device -> Status]
    /\ running_devices = [d \in Device |-> NoThread]
    /\ manager = "poll" /\ pending = {}
    /\ device \in [Thread -> Device]
    /\ life = [t \in Thread |-> "unused"]
    /\ stop = FALSE
    /\ faults = 0 /\ toggles = 0

Fault == faults < MaxFaults /\ faults' = faults + 1
--------------------------------------------------------------------------------
(***************************************************************************)
(* The manager.                                                            *)
(***************************************************************************)

\* while not STOP_REQUESTED; the sleep between polls ends early on a stop.
ManagerStops ==
    /\ manager = "poll" /\ stop
    /\ manager' = "done"
    /\ UNCHANGED <<status, running_devices, pending, threads, stop, faults, toggles>>

\* Slip for a mutant run: the loop does not look at STOP_REQUESTED.
PollForever ==
    /\ manager = "poll"
    /\ pending' = {d \in Device : status[d] = "active"}
    /\ manager' = "start"
    /\ UNCHANGED <<status, running_devices, threads, stop, faults, toggles>>

\* get_active_devices(); when it fails, sleep and continue: nothing is reaped.
Poll ==
    /\ manager = "poll" /\ ~ stop
    /\ \/ /\ pending' = {d \in Device : status[d] = "active"}
          /\ manager' = "start"
          /\ UNCHANGED faults
       \/ Fault /\ UNCHANGED <<pending, manager>>
    /\ UNCHANGED <<status, running_devices, threads, stop, toggles>>

\* Slips for mutant runs: the device is recorded in place of its thread; a
\* tracked device is started again.
StartDeviceUntracked(d) ==
    /\ manager = "start" /\ d \in pending \ Tracked
    /\ pending' = pending \ {d}
    /\ \E t \in Thread :
        /\ life[t] = "unused"
        /\ life' = [life EXCEPT ![t] = "check"]
        /\ device' = [device EXCEPT ![t] = d]
    /\ running_devices' = [running_devices EXCEPT ![d] = d]
    /\ UNCHANGED <<status, manager, stop, faults, toggles>>

StartDeviceAgain(d) ==
    /\ manager = "start" /\ d \in pending
    /\ pending' = pending \ {d}
    /\ \E t \in Thread :
        /\ life[t] = "unused"
        /\ life' = [life EXCEPT ![t] = "check"]
        /\ device' = [device EXCEPT ![t] = d]
        /\ running_devices' = [running_devices EXCEPT ![d] = t]
    /\ UNCHANGED <<status, manager, stop, faults, toggles>>

\* for db_device in active_devices: skip it if tracked, else start a thread.
StartDevice(d) ==
    /\ manager = "start" /\ d \in pending
    /\ pending' = pending \ {d}
    /\ \/ d \in Tracked /\ UNCHANGED <<running_devices, threads>>
       \/ /\ d \notin Tracked
          /\ \E t \in Thread :
                /\ life[t] = "unused"
                /\ life' = [life EXCEPT ![t] = "check"]
                /\ device' = [device EXCEPT ![t] = d]
                /\ running_devices' = [running_devices EXCEPT ![d] = t]
    /\ UNCHANGED <<status, manager, stop, faults, toggles>>

\* Slip for a mutant run: dead threads stay tracked.
AllStartedNoReap ==
    /\ manager = "start" /\ pending = {}
    /\ manager' = "reap"
    /\ UNCHANGED <<status, running_devices, pending, threads, stop, faults, toggles>>

AllStarted ==
    /\ manager = "start" /\ pending = {}
    /\ manager' = "reap" /\ pending' = Tracked
    /\ UNCHANGED <<status, running_devices, threads, stop, faults, toggles>>

\* Slip for a mutant run: a device that is not active is untracked.
ReapInactive(d) ==
    /\ manager = "reap" /\ d \in pending
    /\ pending' = pending \ {d}
    /\ IF status[d] = "active"
          THEN UNCHANGED running_devices
          ELSE running_devices' = [running_devices EXCEPT ![d] = NoThread]
    /\ UNCHANGED <<status, manager, threads, stop, faults, toggles>>

\* for device_id in list(running_devices): untrack it if its thread is dead.
ReapDevice(d) ==
    /\ manager = "reap" /\ d \in pending
    /\ pending' = pending \ {d}
    /\ LET t == running_devices[d] IN
        \/ IsAlive(t) /\ UNCHANGED <<running_devices, life>>
        \/ /\ ~ IsAlive(t)
           /\ running_devices' = [running_devices EXCEPT ![d] = NoThread]
           /\ life' = [life EXCEPT ![t] = "unused"]
    /\ UNCHANGED <<status, manager, device, stop, faults, toggles>>

AllReaped ==
    /\ manager = "reap" /\ pending = {}
    /\ manager' = "poll"
    /\ UNCHANGED <<status, running_devices, pending, threads, stop, faults, toggles>>

Manager ==
    \/ ManagerStops \/ Poll
    \/ \E d \in Device : StartDevice(d) \/ ReapDevice(d)
    \/ AllStarted \/ AllReaped
--------------------------------------------------------------------------------
(***************************************************************************)
(* A device thread.                                                        *)
(***************************************************************************)
Becomes(t, next) == life' = [life EXCEPT ![t] = next]

\* Slip for a mutant run: a retrying thread does not ask for its device's status.
CheckStopOnly(t) ==
    /\ life[t] = "check"
    /\ \/ stop /\ Becomes(t, "ending")
       \/ ~ stop /\ Becomes(t, "connect")
    /\ UNCHANGED <<status, table, device, stop, faults, toggles>>

\* Slip for a mutant run: a status that cannot be read counts as inactive.
CheckActiveStrictly(t) ==
    /\ life[t] = "check"
    /\ \/ (stop \/ status[device[t]] # "active") /\ Becomes(t, "ending") /\ UNCHANGED faults
       \/ ~ stop /\ status[device[t]] = "active" /\ Becomes(t, "connect") /\ UNCHANGED faults
       \/ ~ stop /\ Fault /\ Becomes(t, "ending")
    /\ UNCHANGED <<status, table, device, stop, toggles>>

\* while not STOP_REQUESTED, is_device_active; if that call fails, go on.
CheckActive(t) ==
    /\ life[t] = "check"
    /\ \/ (stop \/ status[device[t]] # "active") /\ Becomes(t, "ending") /\ UNCHANGED faults
       \/ ~ stop /\ status[device[t]] = "active" /\ Becomes(t, "connect") /\ UNCHANGED faults
       \/ ~ stop /\ Fault /\ Becomes(t, "connect")
    /\ UNCHANGED <<status, table, device, stop, toggles>>

\* connect and full_sync succeed, or fail and the thread retries.
ConnectAndSync(t) ==
    /\ life[t] = "connect"
    /\ Becomes(t, "live") \/ Becomes(t, "check")
    /\ UNCHANGED <<status, table, device, stop, faults, toggles>>

\* live_monitor has seen a stop, or has read that its device is not active, and
\* returns "stop" or "deactivated".
LiveEnds(t) ==
    /\ life[t] = "live"
    /\ stop \/ status[device[t]] # "active"
    /\ Becomes(t, "ending")
    /\ UNCHANGED <<status, table, device, stop, faults, toggles>>

\* conn.disconnect(), if there is a connection; run_device returns, whatever
\* its device's status is by now.
ThreadEnds(t) ==
    /\ life[t] = "ending"
    /\ Becomes(t, "dead")
    /\ UNCHANGED <<status, table, device, stop, faults, toggles>>

\* live_monitor returns "resync" or raises.
LiveRestarts(t) ==
    /\ life[t] = "live"
    /\ Becomes(t, "check")
    /\ UNCHANGED <<status, table, device, stop, faults, toggles>>

\* The manager returned, main() returns, the process and its daemon threads end.
ProcessExits ==
    /\ manager = "done"
    /\ \E t \in Thread : IsAlive(t)
    /\ life' = [t \in Thread |-> IF IsAlive(t) THEN "dead" ELSE life[t]]
    /\ UNCHANGED <<status, table, device, stop, faults, toggles>>
--------------------------------------------------------------------------------
(***************************************************************************)
(* The administrator and the operating system.                             *)
(***************************************************************************)
SetStatus(d) ==
    /\ toggles < MaxToggles /\ toggles' = toggles + 1
    /\ \/ status[d] # "active" /\ status' = [status EXCEPT ![d] = "active"]
       \/ status[d] = "active" /\ status' = [status EXCEPT ![d] = "inactive"]
    /\ UNCHANGED <<table, threads, stop, faults>>

signal_handler ==
    /\ ~ stop /\ stop' = TRUE
    /\ UNCHANGED <<status, table, threads, faults, toggles>>

Next ==
    \/ Manager
    \/ \E t \in Thread :
        \/ CheckActive(t) \/ ConnectAndSync(t) \/ LiveEnds(t) \/ LiveRestarts(t)
        \/ ThreadEnds(t)
    \/ ProcessExits
    \/ \E d \in Device : SetStatus(d)
    \/ signal_handler

(***************************************************************************)
(* Fairness: the interpreter schedules the manager and every thread,       *)
(* live_monitor's status check comes round, and disconnecting returns.     *)
(***************************************************************************)
Fairness ==
    /\ WF_vars(Manager)
    /\ WF_vars(ProcessExits)
    /\ \A t \in Thread :
        /\ WF_vars(CheckActive(t)) /\ WF_vars(ConnectAndSync(t))
        /\ WF_vars(LiveEnds(t)) /\ WF_vars(ThreadEnds(t))

Spec == Init /\ [][Next]_vars

FairSpec == Spec /\ Fairness
--------------------------------------------------------------------------------
(***************************************************************************)
(* Properties.                                                             *)
(***************************************************************************)

\* The values every variable ranges over.
TypeOK ==
    /\ status \in [Device -> Status]
    /\ running_devices \in [Device -> Thread \cup {NoThread}]
    /\ manager \in {"poll", "start", "reap", "done"}
    /\ pending \subseteq Device
    /\ device \in [Thread -> Device]
    /\ life \in [Thread -> Life]
    /\ stop \in BOOLEAN
    /\ faults \in 0..MaxFaults
    /\ toggles \in 0..MaxToggles

\* However fast a device is deactivated and activated again, two threads never
\* work on one device (device_manager's comment on when to untrack a thread).
OneThreadPerDevice ==
    \A t, u \in Thread :
        IsAlive(t) /\ IsAlive(u) /\ device[t] = device[u] => t = u

\* The inductive strengthening: a living thread is the one tracked for its
\* device, a tracked thread was started for that device, and the reaping loop
\* visits tracked devices only.
RunningDevicesExact ==
    /\ \A t \in Thread : life[t] # "unused" => running_devices[device[t]] = t
    /\ \A d \in Tracked :
        /\ device[running_devices[d]] = d
        /\ life[running_devices[d]] # "unused"
    /\ manager = "reap" => pending \subseteq Tracked

Runs(d) == \E t \in Thread : IsAlive(t) /\ device[t] = d

IsCollected(d) == \E t \in Thread : IsAlive(t) /\ life[t] # "ending" /\ device[t] = d

\* A device that stays active gets a thread that is at work, also when it was
\* deactivated and activated again while its previous thread was ending, or was
\* dead but still tracked.
ActiveDeviceRuns ==
    \A d \in Device : status[d] = "active" ~> (IsCollected(d) \/ status[d] # "active" \/ stop)

\* A deactivated device's thread ends, even if the device is never reachable.
InactiveDeviceStops ==
    \A d \in Device : status[d] # "active" ~> (~ Runs(d) \/ status[d] = "active")

\* A stop signal ends the manager's loop and every thread, for good.
StopEndsAll == stop ~> [](manager = "done" /\ \A d \in Device : ~ Runs(d))

\* The abstract threads: one for each device that has a living thread.
Active == {d \in Device : status[d] = "active"}

Chosen == IF manager = "start" THEN pending ELSE {}

Running == {device[t] : t \in {u \in Thread : IsAlive(u)}}

Leaving == {device[t] : t \in {u \in Thread : life[u] = "ending"}}

Threads == INSTANCE DeviceThreads
    WITH active <- Active, chosen <- Chosen, running <- Running, leaving <- Leaving,
         process <- 0

\* The supervisor and its threads implement the contract: a device that runs
\* was found active by a round and had no thread, not even one that was ending,
\* and its thread ends only after it has seen a stop or a deactivation, or with
\* the process after a stop.
ImplementsDeviceThreads == Threads!Spec
================================================================================
