------------------------------ MODULE Registration ------------------------------
(***************************************************************************)
(* The table of devices (zkt_devices) and everything that writes it: the   *)
(* "Add Device" form (app.py), seed_devices.py, which deploy.sh may run    *)
(* again and again with the same list, the administrator's "Remove" and    *)
(* "Activate", and the collector's threads, which note what they read from *)
(* the terminal they reach.                                                *)
(*                                                                         *)
(* A registration is three steps with nothing around them: look for the    *)
(* address, ask the terminal for its serial number, insert.  The only      *)
(* constraint of the table is UNIQUE(device_id); device_id is the serial   *)
(* number without the blanks that the terminal may report around it, and   *)
(* a terminal stands for that.                                             *)
(***************************************************************************)
EXTENDS Naturals, Sequences, FiniteSets

CONSTANTS
    Terminal,       \* terminals, each with its own serial number
    Address,        \* pairs of IP address and port
    Padded,         \* those that report it with blanks around it
    NoSerial,       \* no serial number has been read
    NoAddress,      \* nothing to register
    Form,           \* requests of the "Add Device" form
    Seeder,         \* the process that runs seed_devices.py
    Seeds,          \* its list of addresses (DEVICES)
    MaxMoves        \* bound: how often an address is given to another terminal

ASSUME RegistrationAssumption ==
    /\ Padded \subseteq Terminal
    /\ NoSerial \notin [number : Terminal, blanks : BOOLEAN] /\ NoAddress \notin Address
    /\ Seeder \notin Form
    /\ Seeds \in Seq(Address) /\ Seeds # <<>>
    /\ MaxMoves \in Nat

VARIABLES
    devices,    \* the rows of zkt_devices
    at,         \* address -> the terminal that answers there
    pc,         \* registration -> where it is
    address,    \* registration -> the address it is about
    serial,     \* registration -> what test_device returned
    entry,      \* the seeder's place in Seeds, 0 when it is not running
    failed,     \* the addresses of this run that test_device failed for
    removed,    \* history: the devices that "Remove" has set aside
    raced,      \* history: addresses that changed hands under a registration
    moves       \* how much of the bound is used up

seeding == <<entry, failed>>
network == <<at, raced, moves>>
vars == <<devices, removed, network, pc, address, serial, seeding>>

Registrar == Form \cup {Seeder}

\* The texts of serial numbers; what a terminal reports; Python's strip().
Serial == [number : Terminal, blanks : BOOLEAN]

Reported(t) == [number |-> t, blanks |-> t \in Padded]

strip(s) == [number |-> s.number, blanks |-> FALSE]

\* seen: last_seen was written by a connection.
Device == [device_id : Serial, address : Address, status : {"active", "inactive"},
           serial_number : Serial, seen : BOOLEAN]

Init ==
    /\ devices = {}
    /\ at \in [Address -> Terminal]
    /\ pc = [p \in Registrar |-> "idle"]
    /\ address = [p \in Registrar |-> NoAddress]
    /\ serial = [p \in Registrar |-> NoSerial]
    /\ entry = 0 /\ failed = {}
    /\ removed = {} /\ raced = {} /\ moves = 0

Goto(p, next) == pc' = [pc EXCEPT ![p] = next]

Registered(a) == \E d \in devices : d.address = a

\* UNIQUE(device_id)
Taken(id) == \E d \in devices : d.device_id = id

\* The registration stops here: the form redirects; for the seeder this is an
\* exception that nothing catches, and the rest of its list is not reached.
Stop(p) ==
    /\ Goto(p, "idle")
    /\ address' = [address EXCEPT ![p] = NoAddress]
    /\ serial' = [serial EXCEPT ![p] = NoSerial]
    /\ entry' = IF p = Seeder THEN 0 ELSE entry

\* The registration has its outcome: the seeder goes on to its next entry.
Done(p) ==
    IF p = Seeder /\ entry < Len(Seeds)
      THEN /\ Goto(p, "lookup")
           /\ address' = [address EXCEPT ![p] = Seeds[entry + 1]]
           /\ serial' = [serial EXCEPT ![p] = NoSerial]
           /\ entry' = entry + 1
      ELSE Stop(p)
--------------------------------------------------------------------------------
(***************************************************************************)
(* Registration.                                                           *)
(***************************************************************************)

\* POST /devices/add with a branch, an address and a numeric port.
Submit(f, a) ==
    /\ pc[f] = "idle"
    /\ Goto(f, "lookup") /\ address' = [address EXCEPT ![f] = a]
    /\ UNCHANGED <<devices, removed, network, serial, seeding>>

\* deploy.sh runs seed_devices.py.
StartSeeding ==
    /\ entry = 0
    /\ entry' = 1 /\ failed' = {}
    /\ Goto(Seeder, "lookup") /\ address' = [address EXCEPT ![Seeder] = Seeds[1]]
    /\ UNCHANGED <<devices, removed, network, serial>>

\* Slip for a mutant run: only active devices are looked at.
GetActiveDeviceByIp(p) ==
    /\ pc[p] = "lookup"
    /\ \/ (\E d \in devices : d.address = address[p] /\ d.status = "active") /\ Done(p)
       \/ /\ ~ \E d \in devices : d.address = address[p] /\ d.status = "active"
          /\ Goto(p, "test") /\ UNCHANGED <<address, serial, entry>>
    /\ UNCHANGED <<devices, removed, network, failed>>

\* Removed devices count: an address that has a row is not registered again.
GetDeviceByIp(p) ==
    /\ pc[p] = "lookup"
    /\ \/ Registered(address[p]) /\ Done(p)
       \/ /\ ~ Registered(address[p])
          /\ Goto(p, "test") /\ UNCHANGED <<address, serial, entry>>
    /\ UNCHANGED <<devices, removed, network, failed>>

\* The terminal answers with its serial number; or it cannot be reached, or
\* answers without one.
TestDevice(p) ==
    /\ pc[p] = "test"
    /\ \/ /\ serial' = [serial EXCEPT ![p] = Reported(at[address[p]])]
          /\ Goto(p, "insert") /\ UNCHANGED <<address, seeding>>
       \/ /\ Done(p)
          /\ failed' = IF p = Seeder THEN failed \cup {address[p]} ELSE failed
    /\ UNCHANGED <<devices, removed, network>>

\* Slip for a mutant run: the serial number is not handed on.
NewDeviceUnread(p) ==
    [device_id |-> strip(serial[p]), address |-> address[p], status |-> "active",
     serial_number |-> NoSerial, seen |-> FALSE]

\* device_id is stripped, serial_number is stored as it was reported.
NewDevice(p) ==
    [device_id |-> strip(serial[p]), address |-> address[p], status |-> "active",
     serial_number |-> serial[p], seen |-> FALSE]

\* Slips for mutant runs: device_id is not unique; a device that is there
\* already is taken for registered.
AddDeviceAnyway(p) ==
    /\ pc[p] = "insert"
    /\ devices' = devices \cup {NewDevice(p)} /\ Done(p)
    /\ UNCHANGED <<removed, network, failed>>

AddDeviceOrSkip(p) ==
    /\ pc[p] = "insert"
    /\ devices' = IF Taken(strip(serial[p])) THEN devices ELSE devices \cup {NewDevice(p)}
    /\ Done(p)
    /\ UNCHANGED <<removed, network, failed>>

\* INSERT INTO zkt_devices, with a commit; a device_id that is there already is
\* a UniqueViolation.
AddDevice(p) ==
    /\ pc[p] = "insert"
    /\ \/ /\ ~ Taken(strip(serial[p]))
          /\ devices' = devices \cup {NewDevice(p)} /\ Done(p)
       \/ Taken(strip(serial[p])) /\ UNCHANGED devices /\ Stop(p)
    /\ UNCHANGED <<removed, network, failed>>

\* The database fails a lookup or an insert.
DatabaseError(p) ==
    /\ pc[p] \in {"lookup", "insert"}
    /\ Stop(p)
    /\ UNCHANGED <<devices, removed, network, failed>>
--------------------------------------------------------------------------------
(***************************************************************************)
(* The administrator, the collector, the network.                          *)
(***************************************************************************)

\* remove_device and activate_device_page.
SetStatus(id, status) ==
    /\ Taken(id)
    /\ devices' = {IF d.device_id = id THEN [d EXCEPT !.status = status] ELSE d : d \in devices}
    /\ UNCHANGED <<network, pc, address, serial, seeding>>

ActivateDevice(id) == SetStatus(id, "active") /\ removed' = removed \ {id}
DeactivateDevice(id) == SetStatus(id, "inactive") /\ removed' = removed \cup {id}

\* Slips for mutant runs: what a thread reads goes into the row it was started
\* for; a device that is reached becomes active.
UpdateOwnDeviceOnline(d) ==
    /\ devices' = {IF e = d THEN [e EXCEPT !.serial_number = Reported(at[d.address]),
                                                !.seen = TRUE]
                            ELSE e : e \in devices}
    /\ UNCHANGED <<removed, network, pc, address, serial, seeding>>

UpdateDeviceActive(d) ==
    /\ devices' = {IF e.device_id = Reported(at[d.address])
                     THEN [e EXCEPT !.status = "active"]
                     ELSE e : e \in devices}
    /\ UNCHANGED <<removed, network, pc, address, serial, seeding>>

\* The thread of device d has connected to d's address: update_device_online
\* writes the row of the serial number it has read there, whichever device the
\* thread was started for; without one it writes nothing.  It does not strip what
\* it has read: no row matches a serial number with blanks.  The thread may have
\* been started before the device was removed, and never looks at the status
\* between the connection and the write.
UpdateDeviceOnline(d) ==
    /\ devices' = {IF e.device_id = Reported(at[d.address])
                     THEN [e EXCEPT !.serial_number = Reported(at[d.address]), !.seen = TRUE]
                     ELSE e : e \in devices}
    /\ UNCHANGED <<removed, network, pc, address, serial, seeding>>

\* An address is given to another terminal.
UnderWay(p, a) == pc[p] \in {"test", "insert"} /\ address[p] = a

Move(a, t) ==
    /\ moves < MaxMoves /\ moves' = moves + 1
    /\ at[a] # t /\ at' = [at EXCEPT ![a] = t]
    /\ raced' = IF \E p \in Registrar : UnderWay(p, a) THEN raced \cup {a} ELSE raced
    /\ UNCHANGED <<devices, removed, pc, address, serial, seeding>>

Register(p) == GetDeviceByIp(p) \/ TestDevice(p) \/ AddDevice(p) \/ DatabaseError(p)

Next ==
    \/ \E f \in Form, a \in Address : Submit(f, a)
    \/ StartSeeding
    \/ \E p \in Registrar : Register(p)
    \/ \E id \in Serial : ActivateDevice(id) \/ DeactivateDevice(id)
    \/ \E d \in devices : UpdateDeviceOnline(d)
    \/ \E a \in Address, t \in Terminal : Move(a, t)

Spec == Init /\ [][Next]_vars
--------------------------------------------------------------------------------
(***************************************************************************)
(* Properties.                                                             *)
(***************************************************************************)

\* The values every variable ranges over.
TypeOK ==
    /\ devices \subseteq Device
    /\ at \in [Address -> Terminal]
    /\ pc \in [Registrar -> {"idle", "lookup", "test", "insert"}]
    /\ address \in [Registrar -> Address \cup {NoAddress}]
    /\ serial \in [Registrar -> Serial \cup {NoSerial}]
    /\ entry \in 0..Len(Seeds)
    /\ failed \subseteq Address
    /\ removed \subseteq Serial /\ raced \subseteq Address
    /\ moves \in 0..MaxMoves

\* Two registrations of one address may both find it free; the second insert is
\* then refused, because both have read the same serial number.  An address gets
\* a second row only if it changed hands while somebody was registering it
\* (deploy.sh: "a device already registered at a given ip/port is skipped, never
\* duplicated").
AddressOnce ==
    \A d, e \in devices : d.address = e.address /\ d.address \notin raced => d = e

\* While no address changes hands, no two rows lead to one terminal, not even
\* when it answers at two addresses.  It follows that a terminal has one thread
\* (DeviceManager starts one for each active row), and that removing its device
\* ends its collection.
OneRowPerTerminal ==
    moves = 0 =>
        \A d, e \in devices : at[d.address] = at[e.address] => d = e

\* Even when a thread reaches another terminal than the one its device was
\* registered for, no row takes over the other's serial number: a row's two
\* columns name one terminal, the one with the blanks it reports, the other
\* without.
SerialNumberIsOwn == \A d \in devices : d.device_id = strip(d.serial_number)

\* Only "Activate" makes a removed device active again; neither seeding nor the
\* collector does (database.py: "only admin actions are allowed to change it").
RemovedStaysRemoved ==
    \A d \in devices : d.status = "inactive" <=> d.device_id \in removed

\* As long as a seeding run goes on, every entry behind it has a row, or its
\* terminal could not be asked: a refused insert ends the run, and is not
\* passed over.
SeedAccounted ==
    \A i \in 1..(entry - 1) : Registered(Seeds[i]) \/ Seeds[i] \in failed
================================================================================
