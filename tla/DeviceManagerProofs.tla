-------------------------- MODULE DeviceManagerProofs --------------------------
(***************************************************************************)
(* Proofs about DeviceManager, for any number of devices and threads and   *)
(* any bounds: running_devices is exact, hence no device has two threads.  *)
(***************************************************************************)
EXTENDS DeviceManager, TLAPS

\* The manager's loop ends on a stop only.
DoneIsStop == manager = "done" => stop

Inv == TypeOK /\ RunningDevicesExact /\ DoneIsStop

ThreadStep(t) ==
    \/ CheckActive(t) \/ ConnectAndSync(t) \/ LiveEnds(t) \/ LiveRestarts(t)
    \/ ThreadEnds(t)

LEMMA InitInv == Init => Inv
<1> SUFFICES ASSUME Init PROVE Inv
  OBVIOUS
<1>1. TypeOK
  <2>1. running_devices \in [Device -> Thread \cup {NoThread}]
    BY DEF Init
  <2>2. life \in [Thread -> Life]
    BY DEF Init, Life
  <2>3. faults \in 0..MaxFaults /\ toggles \in 0..MaxToggles
    BY ManagerAssumption DEF Init
  <2> QED
    BY <2>1, <2>2, <2>3 DEF Init, TypeOK
<1>2. RunningDevicesExact
  BY DEF Init, RunningDevicesExact, Tracked
<1>3. DoneIsStop
  BY DEF Init, DoneIsStop
<1> QED
  BY <1>1, <1>2, <1>3 DEF Inv

\* A failing call uses up a part of its bound.
LEMMA FaultType ==
    ASSUME TypeOK, Fault
    PROVE  faults' \in 0..MaxFaults
BY ManagerAssumption DEF TypeOK, Fault

(***************************************************************************)
(* A step that touches neither running_devices nor device, that neither    *)
(* starts nor forgets a thread, and that does not begin to reap.           *)
(***************************************************************************)
LEMMA TrackingUntouched ==
    ASSUME RunningDevicesExact,
           UNCHANGED <<running_devices, device>>,
           \A t \in Thread : life'[t] # "unused" <=> life[t] # "unused",
           \A d \in Tracked : running_devices[d] \in Thread,
           manager' = "reap" => manager = "reap" /\ pending' \subseteq pending
    PROVE  RunningDevicesExact'
BY DEF RunningDevicesExact, Tracked

LEMMA TrackedThreads ==
    ASSUME TypeOK
    PROVE  \A d \in Tracked : running_devices[d] \in Thread
BY DEF TypeOK, Tracked

LEMMA DoneStays ==
    ASSUME DoneIsStop, [Next]_vars
    PROVE  DoneIsStop'
<1> USE DEF DoneIsStop
<1>1. ASSUME Manager PROVE DoneIsStop'
  BY <1>1 DEF Manager, ManagerStops, Poll, StartDevice, AllStarted, ReapDevice, AllReaped
<1>2. ASSUME NEW t \in Thread, ThreadStep(t) PROVE UNCHANGED <<manager, stop>>
  BY <1>2 DEF ThreadStep, CheckActive, ConnectAndSync, LiveEnds, LiveRestarts, ThreadEnds, table
<1>3. CASE ProcessExits \/ UNCHANGED vars \/ \E d \in Device : SetStatus(d)
  BY <1>3 DEF ProcessExits, SetStatus, vars, table
<1>4. CASE signal_handler
  BY <1>4 DEF signal_handler
<1> QED
  BY <1>1, <1>2, <1>3, <1>4 DEF Next, ThreadStep

\* The manager finds a device untracked and starts a thread for it.
LEMMA StartDeviceInv ==
    ASSUME Inv, NEW d \in Device, StartDevice(d)
    PROVE  TypeOK' /\ RunningDevicesExact'
<1> USE DEF Inv
<1>1. CASE d \in Tracked /\ UNCHANGED <<running_devices, threads>>
  <2>1. TypeOK'
    BY <1>1 DEF StartDevice, TypeOK, threads
  <2>2. RunningDevicesExact'
    BY <1>1, TrackedThreads, TrackingUntouched DEF StartDevice, threads
  <2> QED
    BY <2>1, <2>2
<1>2. CASE d \notin Tracked
  <2>1. PICK t \in Thread :
            /\ life[t] = "unused"
            /\ life' = [life EXCEPT ![t] = "check"]
            /\ device' = [device EXCEPT ![t] = d]
            /\ running_devices' = [running_devices EXCEPT ![d] = t]
    BY <1>2 DEF StartDevice
  <2>2. TypeOK'
    BY <2>1 DEF StartDevice, TypeOK, Life
  <2>3. ASSUME NEW u \in Thread, life'[u] # "unused"
        PROVE  running_devices'[device'[u]] = u
    <3>1. CASE u = t
      BY <2>1, <3>1 DEF TypeOK
    <3>2. CASE u # t
      <4>1. life[u] # "unused" /\ device'[u] = device[u]
        BY <2>1, <2>3, <3>2 DEF TypeOK
      <4>2. running_devices[device[u]] = u /\ device[u] # d
        BY <1>2, <4>1, ManagerAssumption DEF RunningDevicesExact, Tracked
      <4> QED
        BY <2>1, <4>1, <4>2 DEF TypeOK
    <3> QED
      BY <3>1, <3>2
  <2>4. ASSUME NEW e \in Tracked'
        PROVE  /\ device'[running_devices'[e]] = e
               /\ life'[running_devices'[e]] # "unused"
    <3>1. CASE e = d
      BY <2>1, <3>1 DEF TypeOK
    <3>2. CASE e # d
      <4>1. e \in Tracked /\ running_devices'[e] = running_devices[e]
        BY <2>1, <2>4, <3>2 DEF Tracked, TypeOK
      <4>2. running_devices[e] \in Thread /\ running_devices[e] # t
        BY <2>1, <4>1, TrackedThreads DEF RunningDevicesExact
      <4> QED
        BY <2>1, <4>1, <4>2 DEF RunningDevicesExact, TypeOK
    <3> QED
      BY <3>1, <3>2
  <2>5. manager' # "reap"
    BY DEF StartDevice
  <2> QED
    BY <2>2, <2>3, <2>4, <2>5 DEF RunningDevicesExact
<1> QED
  BY <1>1, <1>2 DEF StartDevice

\* The manager untracks a device whose thread is dead, and no other.
LEMMA ReapDeviceInv ==
    ASSUME Inv, NEW d \in Device, ReapDevice(d)
    PROVE  TypeOK' /\ RunningDevicesExact'
<1> USE DEF Inv
<1> DEFINE t == running_devices[d]
<1>1. d \in Tracked /\ t \in Thread /\ device[t] = d
  BY TrackedThreads DEF ReapDevice, RunningDevicesExact
<1>2. CASE UNCHANGED <<running_devices, life>>
  <2>1. TypeOK'
    BY <1>2 DEF ReapDevice, TypeOK
  <2>2. RunningDevicesExact'
    BY <1>2, TrackedThreads, TrackingUntouched DEF ReapDevice
  <2> QED
    BY <2>1, <2>2
<1>3. CASE /\ running_devices' = [running_devices EXCEPT ![d] = NoThread]
           /\ life' = [life EXCEPT ![t] = "unused"]
  <2>1. TypeOK'
    BY <1>1, <1>3 DEF ReapDevice, TypeOK, Life
  <2>2. ASSUME NEW u \in Thread, life'[u] # "unused"
        PROVE  running_devices'[device'[u]] = u
    <3>1. u # t /\ life[u] # "unused" /\ device'[u] = device[u]
      BY <1>1, <1>3, <2>2 DEF ReapDevice, TypeOK
    <3>2. running_devices[device[u]] = u /\ device[u] # d
      BY <3>1 DEF RunningDevicesExact
    <3> QED
      BY <1>3, <3>1, <3>2 DEF TypeOK
  <2>3. Tracked' = Tracked \ {d}
    BY <1>3 DEF Tracked, TypeOK
  <2>4. ASSUME NEW e \in Tracked'
        PROVE  /\ device'[running_devices'[e]] = e
               /\ life'[running_devices'[e]] # "unused"
    <3>1. e \in Tracked /\ e # d /\ running_devices'[e] = running_devices[e]
      BY <1>3, <2>3, <2>4 DEF Tracked, TypeOK
    <3>2. running_devices[e] \in Thread /\ running_devices[e] # t
      BY <1>1, <3>1, TrackedThreads DEF RunningDevicesExact
    <3> QED
      BY <1>3, <3>1, <3>2 DEF ReapDevice, RunningDevicesExact, TypeOK
  <2>5. pending' \subseteq Tracked'
    BY <2>3 DEF ReapDevice, RunningDevicesExact
  <2> QED
    BY <2>1, <2>2, <2>4, <2>5 DEF RunningDevicesExact
<1> QED
  BY <1>2, <1>3 DEF ReapDevice

LEMMA NextInv == Inv /\ [Next]_vars => Inv'
<1> SUFFICES ASSUME Inv, [Next]_vars PROVE TypeOK' /\ RunningDevicesExact'
  BY DoneStays DEF Inv
<1> USE DEF Inv
<1>1. CASE ManagerStops \/ Poll \/ AllReaped
  <2>1. TypeOK'
    BY <1>1, FaultType DEF ManagerStops, Poll, AllReaped, TypeOK, threads
  <2>2. RunningDevicesExact'
    BY <1>1, TrackedThreads, TrackingUntouched DEF ManagerStops, Poll, AllReaped, threads
  <2> QED
    BY <2>1, <2>2
<1>2. CASE AllStarted
  <2>1. TypeOK'
    BY <1>2 DEF AllStarted, TypeOK, Tracked, threads
  <2>2. RunningDevicesExact'
    BY <1>2 DEF AllStarted, RunningDevicesExact, Tracked, threads
  <2> QED
    BY <2>1, <2>2
<1>3. ASSUME NEW d \in Device, StartDevice(d) PROVE TypeOK' /\ RunningDevicesExact'
  BY <1>3, StartDeviceInv
<1>4. ASSUME NEW d \in Device, ReapDevice(d) PROVE TypeOK' /\ RunningDevicesExact'
  BY <1>4, ReapDeviceInv
<1>5. ASSUME NEW t \in Thread, ThreadStep(t)
      PROVE  TypeOK' /\ RunningDevicesExact'
  <2>1. life[t] # "unused" /\ \E next \in Life \ {"unused"} : Becomes(t, next)
    BY <1>5 DEF ThreadStep, CheckActive, ConnectAndSync, LiveEnds, LiveRestarts, ThreadEnds, Life
  <2>2. TypeOK'
    BY <1>5, <2>1, FaultType
    DEF ThreadStep, CheckActive, ConnectAndSync, LiveEnds, LiveRestarts, ThreadEnds, Becomes, TypeOK, table
  <2>3. \A u \in Thread : life'[u] # "unused" <=> life[u] # "unused"
    BY <2>1 DEF Becomes, TypeOK
  <2>4. RunningDevicesExact'
    BY <1>5, <2>3, TrackedThreads, TrackingUntouched
    DEF ThreadStep, CheckActive, ConnectAndSync, LiveEnds, LiveRestarts, ThreadEnds, table
  <2> QED
    BY <2>2, <2>4
<1>6. CASE ProcessExits
  <2>1. TypeOK'
    BY <1>6 DEF ProcessExits, TypeOK, Life, table
  <2>2. \A u \in Thread : life'[u] # "unused" <=> life[u] # "unused"
    BY <1>6 DEF ProcessExits, IsAlive, TypeOK
  <2>3. RunningDevicesExact'
    BY <1>6, <2>2, TrackedThreads, TrackingUntouched DEF ProcessExits, table
  <2> QED
    BY <2>1, <2>3
<1>7. ASSUME NEW d \in Device, SetStatus(d) PROVE TypeOK' /\ RunningDevicesExact'
  <2>1. TypeOK'
    BY <1>7, ManagerAssumption DEF SetStatus, TypeOK, Status, table, threads
  <2>2. RunningDevicesExact'
    BY <1>7, TrackedThreads, TrackingUntouched DEF SetStatus, table, threads
  <2> QED
    BY <2>1, <2>2
<1>8. CASE signal_handler
  <2>1. TypeOK'
    BY <1>8 DEF signal_handler, TypeOK, table, threads
  <2>2. RunningDevicesExact'
    BY <1>8, TrackedThreads, TrackingUntouched DEF signal_handler, table, threads
  <2> QED
    BY <2>1, <2>2
<1>9. CASE UNCHANGED vars
  <2>1. TypeOK'
    BY <1>9 DEF vars, TypeOK, table, threads
  <2>2. RunningDevicesExact'
    BY <1>9, TrackedThreads, TrackingUntouched DEF vars, table, threads
  <2> QED
    BY <2>1, <2>2
<1> QED
  BY <1>1, <1>2, <1>3, <1>4, <1>5, <1>6, <1>7, <1>8, <1>9 DEF Next, Manager, ThreadStep

LEMMA Invariance == Spec => []Inv
<1> QED
  BY InitInv, NextInv, PTL DEF Spec

\* device_manager and its threads keep every variable in its type.
THEOREM TypeCorrect == Spec => []TypeOK
<1>1. Inv => TypeOK
  BY DEF Inv
<1> QED
  BY <1>1, Invariance, PTL

\* running_devices tracks exactly the threads that were started and not yet
\* reaped, each under its own device.
THEOREM TableExact == Spec => []RunningDevicesExact
<1>1. Inv => RunningDevicesExact
  BY DEF Inv
<1> QED
  BY <1>1, Invariance, PTL

\* No device ever has two living threads, however it is deactivated and
\* activated again: a thread leaves running_devices only when it is dead.
THEOREM NoSecondThread == Spec => []OneThreadPerDevice
<1>1. Inv => OneThreadPerDevice
  BY DEF Inv, RunningDevicesExact, OneThreadPerDevice, IsAlive
<1> QED
  BY <1>1, Invariance, PTL

(***************************************************************************)
(* The contract of DeviceThreads.                                          *)
(***************************************************************************)

\* While no thread is started, no device's thread changes places with another's:
\* a device has at most one living thread.
LEMMA OneLiving ==
    ASSUME Inv, NEW t \in Thread, NEW u \in Thread,
           IsAlive(t), IsAlive(u), device[t] = device[u]
    PROVE  t = u
BY DEF Inv, RunningDevicesExact, IsAlive

\* A step of a device thread changes neither the rounds nor the stop.
LEMMA ThreadStepImplements ==
    ASSUME Inv, NEW t \in Thread, ThreadStep(t)
    PROVE  [Threads!Next]_(Threads!devices)
<1> USE DEF Inv
<1> DEFINE d == device[t]
<1>1. /\ IsAlive(t) /\ d \in Device
      /\ UNCHANGED <<Active, Chosen, stop, device>>
  BY DEF ThreadStep, CheckActive, ConnectAndSync, LiveEnds, LiveRestarts, ThreadEnds,
         IsAlive, Active, Chosen, table, TypeOK
<1>2. \A u \in Thread : u # t /\ IsAlive(u) => device[u] # d
  BY <1>1, OneLiving
<1>3. CASE life[t] # "ending" /\ (Becomes(t, "check") \/ Becomes(t, "connect") \/ Becomes(t, "live"))
  <2>1. \A u \in Thread : /\ IsAlive(u)' <=> IsAlive(u)
                          /\ life'[u] = "ending" <=> life[u] = "ending"
    BY <1>1, <1>3 DEF Becomes, IsAlive, TypeOK
  <2>2. Running' = Running /\ Leaving' = Leaving
    BY <1>1, <2>1 DEF Running, Leaving
  <2> QED
    BY <1>1, <2>2 DEF Threads!devices, Threads!threads
<1>4. CASE /\ life[t] # "ending" /\ Becomes(t, "ending")
           /\ stop \/ status[d] # "active"
  <2>1. \A u \in Thread : /\ IsAlive(u)' <=> IsAlive(u)
                          /\ life'[u] = "ending" <=> life[u] = "ending" \/ u = t
    BY <1>1, <1>4 DEF Becomes, IsAlive, TypeOK
  <2>2. Running' = Running /\ Leaving' = Leaving \cup {d}
    BY <1>1, <2>1 DEF Running, Leaving
  <2>3. d \in Running \ Leaving
    BY <1>1, <1>2, <1>4 DEF Running, Leaving, IsAlive
  <2>4. Threads!Notice(d)
    BY <1>1, <1>4, <2>2, <2>3 DEF Threads!Notice, Active
  <2> QED
    BY <1>1, <2>4 DEF Threads!Next
<1>5. CASE life[t] = "ending" /\ Becomes(t, "dead")
  <2>1. \A u \in Thread : /\ IsAlive(u)' <=> IsAlive(u) /\ u # t
                          /\ life'[u] = "ending" <=> life[u] = "ending" /\ u # t
    BY <1>5 DEF Becomes, IsAlive, TypeOK
  <2>2. \A u \in Thread : life[u] = "ending" => IsAlive(u)
    BY DEF IsAlive
  <2>3. Running' = Running \ {d} /\ Leaving' = Leaving \ {d} /\ d \in Leaving
    BY <1>1, <1>2, <1>5, <2>1, <2>2 DEF Running, Leaving
  <2>4. Threads!End(d)
    BY <1>1, <2>3 DEF Threads!End
  <2> QED
    BY <1>1, <2>4 DEF Threads!Next
<1> QED
  BY <1>3, <1>4, <1>5
  DEF ThreadStep, CheckActive, ConnectAndSync, LiveEnds, LiveRestarts, ThreadEnds

\* The manager starts a thread for a chosen device, or passes it over.
LEMMA StartDeviceImplements ==
    ASSUME Inv, NEW d \in Device, StartDevice(d)
    PROVE  Threads!Start(d) \/ Threads!Skip(d)
<1> USE DEF Inv
<1>1. /\ d \in Chosen /\ Chosen' = Chosen \ {d}
      /\ UNCHANGED <<Active, stop>>
  BY DEF StartDevice, Chosen, Active
<1>2. CASE d \in Tracked /\ UNCHANGED <<running_devices, threads>>
  <2>1. Running' = Running /\ Leaving' = Leaving
    BY <1>2 DEF Running, Leaving, IsAlive, threads
  <2> QED
    BY <1>1, <2>1 DEF Threads!Skip, Threads!threads
<1>3. CASE d \notin Tracked
  <2>1. PICK t \in Thread :
            /\ life[t] = "unused"
            /\ life' = [life EXCEPT ![t] = "check"]
            /\ device' = [device EXCEPT ![t] = d]
    BY <1>3 DEF StartDevice
  <2>2. d \notin Running
    BY <1>3, ManagerAssumption DEF Running, RunningDevicesExact, Tracked, IsAlive
  <2>3. \A u \in Thread : /\ IsAlive(u)' <=> IsAlive(u) \/ u = t
                          /\ life'[u] = "ending" <=> life[u] = "ending"
                          /\ device'[u] = IF u = t THEN d ELSE device[u]
    BY <2>1 DEF IsAlive, TypeOK
  <2>4. ~ IsAlive(t) /\ life[t] # "ending"
    BY <2>1 DEF IsAlive
  <2>5. Running' = Running \cup {d}
    BY <2>3, <2>4 DEF Running
  <2>6. Leaving' = Leaving
    BY <2>3, <2>4 DEF Leaving
  <2> QED
    BY <1>1, <2>2, <2>5, <2>6 DEF Threads!Start
<1> QED
  BY <1>2, <1>3 DEF StartDevice

\* Reaping forgets dead threads only.
LEMMA ReapDeviceImplements ==
    ASSUME Inv, NEW d \in Device, ReapDevice(d)
    PROVE  UNCHANGED Threads!devices
<1> USE DEF Inv
<1>1. \A u \in Thread : /\ IsAlive(u)' <=> IsAlive(u)
                        /\ life'[u] = "ending" <=> life[u] = "ending"
  BY TrackedThreads DEF ReapDevice, IsAlive, TypeOK
<1>2. Running' = Running /\ Leaving' = Leaving
  BY <1>1 DEF ReapDevice, Running, Leaving
<1> QED
  BY <1>2 DEF ReapDevice, Threads!devices, Threads!threads, Active, Chosen

LEMMA StepImplements == Inv /\ [Next]_vars => [Threads!Next]_(Threads!devices)
<1> SUFFICES ASSUME Inv, [Next]_vars PROVE [Threads!Next]_(Threads!devices)
  OBVIOUS
<1> USE DEF Inv
<1>1. CASE ManagerStops \/ AllStarted \/ AllReaped
  <2>1. UNCHANGED <<Active, Chosen, Running, Leaving, stop>>
    BY <1>1 DEF ManagerStops, AllStarted, AllReaped, Active, Chosen, Running, Leaving,
                IsAlive, threads
  <2> QED
    BY <2>1 DEF Threads!devices, Threads!threads
<1>2. CASE Poll
  <2>1. UNCHANGED <<Active, Running, Leaving, stop>> /\ ~ stop
    BY <1>2 DEF Poll, Active, Running, Leaving, IsAlive, threads
  <2>2. Chosen' \in SUBSET Active
    BY <1>2 DEF Poll, Chosen, Active
  <2> QED
    BY <2>1, <2>2 DEF Threads!Poll, Threads!Next, Threads!threads
<1>3. ASSUME NEW d \in Device, StartDevice(d) PROVE Threads!Next
  BY <1>3, StartDeviceImplements DEF Threads!Next
<1>4. ASSUME NEW d \in Device, ReapDevice(d) PROVE UNCHANGED Threads!devices
  BY <1>4, ReapDeviceImplements
<1>5. ASSUME NEW t \in Thread, ThreadStep(t) PROVE [Threads!Next]_(Threads!devices)
  BY <1>5, ThreadStepImplements
<1>6. CASE ProcessExits
  <2>1. \A u \in Thread : ~ IsAlive(u)' /\ life'[u] # "ending"
    BY <1>6 DEF ProcessExits, IsAlive, TypeOK
  <2>2. Running' = {} /\ Leaving' = {}
    BY <2>1 DEF Running, Leaving
  <2>3. stop /\ Chosen' = {} /\ UNCHANGED <<Active, stop>>
    BY <1>6 DEF ProcessExits, Chosen, Active, table, DoneIsStop
  <2> QED
    BY <2>2, <2>3 DEF Threads!Quit, Threads!Next
<1>7. ASSUME NEW d \in Device, SetStatus(d) PROVE Threads!Switch(d)
  <2>1. UNCHANGED <<Chosen, Running, Leaving, stop>>
    BY <1>7 DEF SetStatus, Chosen, Running, Leaving, IsAlive, table, threads
  <2>2. Active' = IF d \in Active THEN Active \ {d} ELSE Active \cup {d}
    BY <1>7 DEF SetStatus, Active, TypeOK
  <2> QED
    BY <2>1, <2>2 DEF Threads!Switch, Threads!threads
<1>8. CASE signal_handler
  <2>1. UNCHANGED <<Active, Chosen, Running, Leaving>> /\ stop' = TRUE
    BY <1>8 DEF signal_handler, Active, Chosen, Running, Leaving, IsAlive, table, threads
  <2> QED
    BY <2>1 DEF Threads!Signal, Threads!Next, Threads!threads
<1>9. CASE UNCHANGED vars
  BY <1>9 DEF vars, Threads!devices, Threads!threads, Active, Chosen, Running, Leaving,
              IsAlive, table, threads
<1> QED
  BY <1>1, <1>2, <1>3, <1>4, <1>5, <1>6, <1>7, <1>8, <1>9 DEF Next, Manager, ThreadStep, Threads!Next

\* The supervisor implements the contract of DeviceThreads: a device's thread ends
\* only after it has seen a stop or a deactivation, or with the process after a
\* stop, and only a device that was found active and has no thread, not even one
\* that is ending, is given one.
THEOREM ManagerImplementsThreads == Spec => ImplementsDeviceThreads
<1>1. Init => Threads!Init
  BY DEF Init, Threads!Init, Active, Chosen, Running, Leaving, IsAlive
<1> QED
  BY <1>1, StepImplements, Invariance, PTL DEF Spec, ImplementsDeviceThreads, Threads!Spec
================================================================================
