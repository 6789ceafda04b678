--------------------------- MODULE RegistrationProofs ---------------------------
(***************************************************************************)
(* Proofs about Registration, for any terminals, addresses, requests and   *)
(* list of seeds, and any number of moves.                                 *)
(***************************************************************************)
EXTENDS Registration, TLAPS

(***************************************************************************)
(* Types.                                                                  *)
(***************************************************************************)
LEMMA SeedsType == /\ Len(Seeds) \in Nat /\ Len(Seeds) >= 1
                   /\ \A i \in 1..Len(Seeds) : Seeds[i] \in Address
  BY RegistrationAssumption

\* Reported serial numbers are texts, and stripping one twice strips it once.
LEMMA SerialTexts ==
    /\ \A t \in Terminal : Reported(t) \in Serial
    /\ \A s \in Serial : strip(s) \in Serial /\ strip(strip(s)) = strip(s)
<1>1. \A t \in Terminal : Reported(t) \in Serial
  BY DEF Reported, Serial
<1>2. ASSUME NEW s \in Serial PROVE strip(s) \in Serial
  <2>1. s.number \in Terminal
    BY DEF Serial
  <2> QED
    BY <2>1 DEF Serial, strip
<1>3. ASSUME NEW s \in Serial PROVE strip(strip(s)) = strip(s)
  BY DEF strip
<1> QED
  BY <1>1, <1>2, <1>3

\* What stopping and going on do to the variables of a registration.
LEMMA OutcomeType ==
    ASSUME TypeOK, NEW p \in Registrar, Stop(p) \/ Done(p)
    PROVE  /\ pc' \in [Registrar -> {"idle", "lookup", "test", "insert"}]
           /\ address' \in [Registrar -> Address \cup {NoAddress}]
           /\ serial' \in [Registrar -> Serial \cup {NoSerial}]
           /\ entry' \in 0..Len(Seeds)
<1>1. CASE Stop(p)
  BY <1>1, SeedsType DEF Stop, Goto, TypeOK
<1>2. CASE Done(p) /\ p = Seeder /\ entry < Len(Seeds)
  <2>1. Seeds[entry + 1] \in Address
    BY <1>2, SeedsType DEF TypeOK
  <2> QED
    BY <1>2, <2>1, SeedsType DEF Done, Goto, TypeOK
<1> QED
  BY <1>1, <1>2 DEF Done

\* Rows that are rewritten keep their identity and their address.
Rewritten ==
    \E f \in [devices -> Device] :
        /\ devices' = {f[d] : d \in devices}
        /\ \A d \in devices : f[d].device_id = d.device_id /\ f[d].address = d.address

\* The administrator's and the collector's updates rewrite rows.
LEMMA SetStatusRewrites ==
    ASSUME TypeOK, NEW id \in Serial, NEW s \in {"active", "inactive"}, SetStatus(id, s)
    PROVE  Rewritten
<1> DEFINE f == [d \in devices |-> IF d.device_id = id THEN [d EXCEPT !.status = s] ELSE d]
<1>1. ASSUME NEW d \in devices
      PROVE  f[d] \in Device /\ f[d].device_id = d.device_id /\ f[d].address = d.address
  BY DEF TypeOK, Device
<1>2. devices' = {f[d] : d \in devices}
  BY DEF SetStatus
<1>3. f \in [devices -> Device]
  BY <1>1
<1> QED
  BY <1>1, <1>2, <1>3 DEF Rewritten

LEMMA OnlineRewrites ==
    ASSUME TypeOK, NEW d \in devices, UpdateDeviceOnline(d)
    PROVE  Rewritten
<1> DEFINE s == Reported(at[d.address])
           f == [e \in devices |-> IF e.device_id = s
                                     THEN [e EXCEPT !.serial_number = s, !.seen = TRUE] ELSE e]
<1>1. s \in Serial
  BY SerialTexts DEF TypeOK, Device
<1> HIDE DEF s
<1>2. ASSUME NEW e \in devices
      PROVE  f[e] \in Device /\ f[e].device_id = e.device_id /\ f[e].address = e.address
  BY <1>1 DEF TypeOK, Device
<1>3. devices' = {f[e] : e \in devices}
  BY DEF UpdateDeviceOnline, s
<1>4. f \in [devices -> Device]
  BY <1>2
<1> QED
  BY <1>2, <1>3, <1>4 DEF Rewritten

LEMMA RewrittenType == ASSUME Rewritten PROVE devices' \subseteq Device
  BY DEF Rewritten

\* Where a registration is: it has an address, and before it inserts, a serial
\* number; the seeder is at its entry.
FlowInv ==
    /\ \A p \in Registrar : pc[p] # "idle" => address[p] \in Address
    /\ \A p \in Registrar : pc[p] = "insert" => serial[p] \in Serial
    /\ pc[Seeder] # "idle" => entry # 0 /\ address[Seeder] = Seeds[entry]

\* Every variable keeps its type, and registrations their place.
LEMMA TypeStep == TypeOK /\ FlowInv /\ [Next]_vars => TypeOK' /\ FlowInv'
<1> SUFFICES ASSUME TypeOK, FlowInv, [Next]_vars PROVE TypeOK' /\ FlowInv'
  OBVIOUS
<1> USE RegistrationAssumption DEF network, seeding, Goto
<1>0. Seeder \in Registrar /\ Form \subseteq Registrar
  BY DEF Registrar
<1>t. /\ pc \in [Registrar -> {"idle", "lookup", "test", "insert"}]
      /\ address \in [Registrar -> Address \cup {NoAddress}]
      /\ serial \in [Registrar -> Serial \cup {NoSerial}]
      /\ entry \in 0..Len(Seeds) /\ at \in [Address -> Terminal]
  BY DEF TypeOK
<1>s. ASSUME NEW p \in Registrar, Stop(p) \/ Done(p) PROVE FlowInv'
  <2>1. CASE Stop(p)
    BY <2>1, <1>0, <1>t DEF Stop, FlowInv
  <2>2. CASE Done(p) /\ p = Seeder /\ entry < Len(Seeds)
    <3>1. Seeds[entry + 1] \in Address
      BY <2>2, <1>t, SeedsType
    <3>2. entry' = entry + 1 /\ entry' # 0
      BY <2>2, <1>t DEF Done
    <3> QED
      BY <2>2, <3>1, <3>2, <1>0, <1>t DEF Done, FlowInv
  <2> QED
    BY <1>s, <2>1, <2>2 DEF Done
<1>1. ASSUME NEW f \in Form, NEW a \in Address, Submit(f, a) PROVE TypeOK' /\ FlowInv'
  BY <1>1, <1>0 DEF Submit, TypeOK, FlowInv
<1>2. CASE StartSeeding
  BY <1>2, <1>0, SeedsType DEF StartSeeding, TypeOK, FlowInv
<1>3. ASSUME NEW p \in Registrar, GetDeviceByIp(p) PROVE TypeOK' /\ FlowInv'
  <2>1. CASE Done(p)
    BY <1>3, <1>s, <2>1, OutcomeType DEF GetDeviceByIp, TypeOK
  <2>2. CASE Goto(p, "test") /\ UNCHANGED <<address, serial, entry>>
    BY <1>3, <1>0, <2>2 DEF GetDeviceByIp, TypeOK, FlowInv
  <2> QED
    BY <1>3, <2>1, <2>2 DEF GetDeviceByIp
<1>4. ASSUME NEW p \in Registrar, TestDevice(p) PROVE TypeOK' /\ FlowInv'
  <2>1. address[p] \in Address
    BY <1>4 DEF TestDevice, FlowInv
  <2>2. CASE Done(p) /\ failed' = IF p = Seeder THEN failed \cup {address[p]} ELSE failed
    BY <1>4, <1>s, <2>1, <2>2, OutcomeType DEF TestDevice, TypeOK
  <2>3. CASE /\ serial' = [serial EXCEPT ![p] = Reported(at[address[p]])]
             /\ Goto(p, "insert") /\ UNCHANGED <<address, seeding>>
    <3>1. Reported(at[address[p]]) \in Serial
      BY <1>t, <2>1, SerialTexts
    <3> QED
      BY <1>4, <1>0, <2>1, <2>3, <3>1 DEF TestDevice, TypeOK, FlowInv
  <2> QED
    BY <1>4, <2>2, <2>3 DEF TestDevice
<1>5. ASSUME NEW p \in Registrar, AddDevice(p) PROVE TypeOK' /\ FlowInv'
  <2>1. NewDevice(p) \in Device
    BY <1>5, SerialTexts DEF AddDevice, FlowInv, NewDevice, Device
  <2> QED
    BY <1>5, <1>s, <2>1, OutcomeType DEF AddDevice, TypeOK
<1>6. ASSUME NEW p \in Registrar, DatabaseError(p) PROVE TypeOK' /\ FlowInv'
  BY <1>6, <1>s, OutcomeType DEF DatabaseError, TypeOK
<1>7. ASSUME NEW id \in Serial, ActivateDevice(id) PROVE TypeOK' /\ FlowInv'
  BY <1>7, SetStatusRewrites, RewrittenType DEF ActivateDevice, SetStatus, TypeOK, FlowInv
<1>8. ASSUME NEW id \in Serial, DeactivateDevice(id) PROVE TypeOK' /\ FlowInv'
  BY <1>8, SetStatusRewrites, RewrittenType DEF DeactivateDevice, SetStatus, TypeOK, FlowInv
<1>9. ASSUME NEW d \in devices, UpdateDeviceOnline(d) PROVE TypeOK' /\ FlowInv'
  BY <1>9, OnlineRewrites, RewrittenType DEF UpdateDeviceOnline, TypeOK, FlowInv
<1>10. ASSUME NEW a \in Address, NEW t \in Terminal, Move(a, t) PROVE TypeOK' /\ FlowInv'
  BY <1>10 DEF Move, TypeOK, FlowInv
<1>11. CASE UNCHANGED vars
  BY <1>11 DEF vars, TypeOK, FlowInv
<1> QED
  BY <1>1, <1>2, <1>3, <1>4, <1>5, <1>6, <1>7, <1>8, <1>9, <1>10, <1>11
  DEF Next, Register

LEMMA FlowCorrect == Spec => [](TypeOK /\ FlowInv)
<1>1. Init => TypeOK /\ FlowInv
  BY RegistrationAssumption DEF Init, TypeOK, FlowInv, Registrar
<1> QED
  BY <1>1, TypeStep, PTL DEF Spec

\* Every variable keeps its type.
THEOREM TypeCorrect == Spec => []TypeOK
  BY FlowCorrect, PTL

(***************************************************************************)
(* What a step can do to the table: nothing, rewrite rows, or add one for  *)
(* a registration whose stripped serial number has no row.                 *)
(***************************************************************************)
Added(p) ==
    /\ pc[p] = "insert" /\ ~ Taken(strip(serial[p]))
    /\ devices' = devices \cup {NewDevice(p)}

LEMMA TableStep ==
    ASSUME TypeOK, [Next]_vars
    PROVE  \/ devices' = devices
           \/ Rewritten /\ UNCHANGED <<network, pc, address, serial, seeding>>
           \/ (\E p \in Registrar : Added(p) /\ (Stop(p) \/ Done(p))) /\ UNCHANGED network
<1>1. CASE \E id \in Serial : ActivateDevice(id) \/ DeactivateDevice(id)
  BY <1>1, SetStatusRewrites DEF ActivateDevice, DeactivateDevice, SetStatus
<1>2. CASE \E d \in devices : UpdateDeviceOnline(d)
  BY <1>2, OnlineRewrites DEF UpdateDeviceOnline
<1>3. CASE \E p \in Registrar : AddDevice(p)
  BY <1>3 DEF AddDevice, Added
<1> QED
  BY <1>1, <1>2, <1>3
  DEF Next, Register, vars, Submit, StartSeeding, GetDeviceByIp, TestDevice, DatabaseError, Move

\* No row is removed, and none changes its identity or its address.
LEMMA RowsStay ==
    ASSUME TypeOK, [Next]_vars, NEW d \in devices
    PROVE  \E e \in devices' : e.device_id = d.device_id /\ e.address = d.address
<1>1. CASE Rewritten
  BY <1>1 DEF Rewritten
<1>2. CASE \E p \in Registrar : Added(p)
  BY <1>2 DEF Added
<1> QED
  BY <1>1, <1>2, TableStep

\* A row was there before, or has just been added.
LEMMA RowsFrom ==
    ASSUME TypeOK, [Next]_vars, NEW e \in devices'
    PROVE  \/ \E d \in devices : d.device_id = e.device_id /\ d.address = e.address
           \/ \E p \in Registrar : Added(p) /\ e = NewDevice(p) /\ (Stop(p) \/ Done(p))
                               /\ UNCHANGED network
<1>1. CASE Rewritten
  BY <1>1 DEF Rewritten
<1>2. CASE (\E p \in Registrar : Added(p) /\ (Stop(p) \/ Done(p))) /\ UNCHANGED network
  BY <1>2 DEF Added
<1> QED
  BY <1>1, <1>2, TableStep

(***************************************************************************)
(* UNIQUE(device_id), and the address of a terminal that is not exchanged  *)
(* while it is registered.                                                 *)
(***************************************************************************)
IdUnique == \A d, e \in devices : d.device_id = e.device_id => d = e

\* Rows that agree in identity agree; after rewriting they still do.
LEMMA IdUniqueStep == TypeOK /\ IdUnique /\ [Next]_vars => IdUnique'
<1> SUFFICES ASSUME TypeOK, IdUnique, [Next]_vars PROVE IdUnique'
  OBVIOUS
<1>1. CASE devices' = devices
  BY <1>1 DEF IdUnique
<1>2. CASE Rewritten
  <2>1. PICK f \in [devices -> Device] :
          /\ devices' = {f[d] : d \in devices}
          /\ \A d \in devices : f[d].device_id = d.device_id /\ f[d].address = d.address
    BY <1>2 DEF Rewritten
  <2> QED
    BY <2>1 DEF IdUnique
<1>3. CASE \E p \in Registrar : Added(p)
  <2>1. PICK p \in Registrar : Added(p)
    BY <1>3
  <2>2. NewDevice(p).device_id = strip(serial[p])
    BY DEF NewDevice
  <2> QED
    BY <2>1, <2>2 DEF Added, Taken, IdUnique
<1> QED
  BY <1>1, <1>2, <1>3, TableStep

\* The device_id that a registration of an address computes now.
IdAt(a) == strip(Reported(at[a]))

\* For an address that has not changed hands under a registration: whoever is
\* past the lookup will read, or has read, the terminal that every row of the
\* address was registered for.
RaceInv ==
    \A a \in Address \ raced :
        /\ \A d, e \in devices : d.address = a /\ e.address = a => d.device_id = e.device_id
        /\ \A p \in Registrar : UnderWay(p, a) =>
            /\ pc[p] = "insert" => serial[p] = Reported(at[a])
            /\ \A d \in devices : d.address = a => d.device_id = IdAt(a)

LEMMA RaceStep == TypeOK /\ FlowInv /\ RaceInv /\ [Next]_vars => RaceInv'
<1> SUFFICES ASSUME TypeOK, FlowInv, RaceInv, [Next]_vars PROVE RaceInv'
  OBVIOUS
<1> USE RegistrationAssumption DEF network, seeding, Goto, IdAt
<1>t. /\ pc \in [Registrar -> {"idle", "lookup", "test", "insert"}]
      /\ address \in [Registrar -> Address \cup {NoAddress}]
      /\ serial \in [Registrar -> Serial \cup {NoSerial}]
      /\ at \in [Address -> Terminal] /\ Form \subseteq Registrar /\ Seeder \in Registrar
  BY DEF TypeOK, Registrar
\* A registration that ends is no longer under way; the others do not notice.
<1>s. ASSUME NEW p \in Registrar, Stop(p) \/ Done(p)
      PROVE  /\ pc'[p] \in {"idle", "lookup"}
             /\ \A q \in Registrar \ {p} :
                  UNCHANGED <<pc[q], address[q], serial[q]>>
  BY <1>s, <1>t DEF Stop, Done
<1>f. ASSUME NEW p \in Registrar, Stop(p) \/ Done(p), UNCHANGED <<devices, network>>
      PROVE  RaceInv'
  BY <1>f, <1>s DEF RaceInv, UnderWay
<1>1. ASSUME NEW f \in Form, NEW b \in Address, Submit(f, b) PROVE RaceInv'
  BY <1>1, <1>t DEF Submit, RaceInv, UnderWay
<1>2. CASE StartSeeding
  BY <1>2, <1>t DEF StartSeeding, RaceInv, UnderWay
<1>3. ASSUME NEW p \in Registrar, GetDeviceByIp(p) PROVE RaceInv'
  <2>1. CASE Done(p)
    BY <1>3, <1>f, <2>1 DEF GetDeviceByIp
  <2>2. CASE /\ ~ Registered(address[p])
             /\ Goto(p, "test") /\ UNCHANGED <<address, serial, entry>>
    <3>1. \A q \in Registrar : pc'[q] = IF q = p THEN "test" ELSE pc[q]
      BY <1>t, <2>2
    <3> QED
      BY <1>3, <2>2, <3>1 DEF GetDeviceByIp, RaceInv, UnderWay, Registered
  <2> QED
    BY <1>3, <2>1, <2>2 DEF GetDeviceByIp
<1>4. ASSUME NEW p \in Registrar, TestDevice(p) PROVE RaceInv'
  <2>1. CASE Done(p)
    BY <1>4, <1>f, <2>1 DEF TestDevice
  <2>2. CASE /\ serial' = [serial EXCEPT ![p] = Reported(at[address[p]])]
             /\ Goto(p, "insert") /\ UNCHANGED <<address, seeding>>
    <3>1. \A q \in Registrar :
            /\ pc'[q] = IF q = p THEN "insert" ELSE pc[q]
            /\ serial'[q] = IF q = p THEN Reported(at[address[p]]) ELSE serial[q]
      BY <1>t, <2>2
    <3>2. pc[p] = "test"
      BY <1>4 DEF TestDevice
    <3> QED
      BY <1>4, <2>2, <3>1, <3>2 DEF TestDevice, RaceInv, UnderWay
  <2> QED
    BY <1>4, <2>1, <2>2 DEF TestDevice
<1>5. ASSUME NEW p \in Registrar, Added(p), Stop(p) \/ Done(p), UNCHANGED network
      PROVE  RaceInv'
  <2>1. NewDevice(p).device_id = strip(serial[p]) /\ NewDevice(p).address = address[p]
    BY DEF NewDevice
  <2>2. address[p] \in Address /\ UnderWay(p, address[p])
    BY <1>5 DEF Added, FlowInv, UnderWay
  <2>3. ASSUME NEW b \in Address \ raced, b = address[p]
        PROVE  serial[p] = Reported(at[b]) /\ \A d \in devices : d.address # b
    BY <1>5, <2>2, <2>3 DEF Added, Taken, RaceInv
  <2>4. ASSUME NEW b \in Address \ raced
        PROVE  /\ \A d, e \in devices' : d.address = b /\ e.address = b =>
                      d.device_id = e.device_id
               /\ \A q \in Registrar : UnderWay(q, b)' =>
                    /\ pc'[q] = "insert" => serial'[q] = Reported(at[b])
                    /\ \A d \in devices' : d.address = b => d.device_id = IdAt(b)
    <3>1. CASE b = address[p]
      BY <1>5, <1>s, <2>1, <2>3, <3>1 DEF Added, RaceInv, UnderWay
    <3>2. CASE b # address[p]
      BY <1>5, <1>s, <2>1, <3>2 DEF Added, RaceInv, UnderWay
    <3> QED
      BY <3>1, <3>2
  <2> QED
    BY <1>5, <2>4 DEF RaceInv
<1>6. ASSUME NEW p \in Registrar, AddDevice(p) PROVE RaceInv'
  BY <1>5, <1>6, <1>f DEF AddDevice, Added
<1>7. ASSUME NEW p \in Registrar, DatabaseError(p) PROVE RaceInv'
  BY <1>7, <1>f DEF DatabaseError
<1>8. CASE Rewritten /\ UNCHANGED <<network, pc, address, serial>>
  BY <1>8 DEF Rewritten, RaceInv, UnderWay
<1>9. ASSUME NEW b \in Address, NEW t \in Terminal, Move(b, t) PROVE RaceInv'
  <2>1. \A c \in Address : at'[c] = IF c = b THEN t ELSE at[c]
    BY <1>9, <1>t DEF Move
  <2>2. \A c \in Address \ raced' : c # b \/ \A p \in Registrar : ~ UnderWay(p, b)
    BY <1>9 DEF Move
  <2> QED
    BY <1>9, <2>1, <2>2 DEF Move, RaceInv, UnderWay
<1>10. CASE UNCHANGED vars
  BY <1>10 DEF vars, RaceInv, UnderWay
<1> QED
  BY <1>1, <1>2, <1>3, <1>4, <1>6, <1>7, <1>8, <1>9, <1>10, SetStatusRewrites, OnlineRewrites
  DEF Next, Register, ActivateDevice, DeactivateDevice, SetStatus, UpdateDeviceOnline

(***************************************************************************)
(* While no address has changed hands, every row leads to the terminal it  *)
(* was registered for.                                                     *)
(***************************************************************************)
WiringInv ==
    moves = 0 =>
        /\ \A d \in devices : d.device_id = IdAt(d.address)
        /\ \A p \in Registrar : pc[p] = "insert" => serial[p] = Reported(at[address[p]])

LEMMA WiringStep == TypeOK /\ FlowInv /\ WiringInv /\ [Next]_vars => WiringInv'
<1> SUFFICES ASSUME TypeOK, FlowInv, WiringInv, [Next]_vars PROVE WiringInv'
  OBVIOUS
<1> USE DEF IdAt
<1>1. CASE \E a \in Address, t \in Terminal : Move(a, t)
  BY <1>1 DEF Move, WiringInv, TypeOK
<1>2. CASE UNCHANGED network
  <2> SUFFICES ASSUME moves = 0
               PROVE  /\ \A d \in devices' : d.device_id = IdAt(d.address)
                      /\ \A p \in Registrar : pc'[p] = "insert" => serial'[p] = Reported(at[address'[p]])
    BY <1>2 DEF WiringInv, network
  <2>1. ASSUME NEW e \in devices' PROVE e.device_id = IdAt(e.address)
    <3>1. CASE \E d \in devices : d.device_id = e.device_id /\ d.address = e.address
      BY <3>1 DEF WiringInv
    <3>2. CASE \E p \in Registrar : Added(p) /\ e = NewDevice(p)
      BY <3>2 DEF Added, NewDevice, WiringInv
    <3> QED
      BY <3>1, <3>2, RowsFrom
  <2>2. ASSUME NEW p \in Registrar, pc'[p] = "insert"
        PROVE  serial'[p] = Reported(at[address'[p]])
    <3>1. CASE UNCHANGED <<pc[p], address[p], serial[p]>>
      BY <2>2, <3>1 DEF WiringInv
    <3>2. CASE TestDevice(p)
      BY <2>2, <3>2 DEF TestDevice, Done, Stop, Goto, TypeOK
    <3>3. ~ UNCHANGED <<pc[p], address[p], serial[p]>> => TestDevice(p)
      BY <2>2
      DEF Next, Register, vars, Submit, StartSeeding, GetDeviceByIp, TestDevice, AddDevice,
          DatabaseError, ActivateDevice, DeactivateDevice, SetStatus, UpdateDeviceOnline, Move,
          Done, Stop, Goto, TypeOK, Registrar
    <3> QED
      BY <3>1, <3>2, <3>3
  <2> QED
    BY <2>1, <2>2
<1> QED
  BY <1>1, <1>2
  DEF Next, Register, vars, Submit, StartSeeding, GetDeviceByIp, TestDevice, AddDevice,
      DatabaseError, ActivateDevice, DeactivateDevice, SetStatus, UpdateDeviceOnline, network

(***************************************************************************)
(* Serial numbers and statuses.                                            *)
(***************************************************************************)
LEMMA SerialStep == TypeOK /\ SerialNumberIsOwn /\ [Next]_vars => SerialNumberIsOwn'
<1> SUFFICES ASSUME TypeOK, SerialNumberIsOwn, [Next]_vars PROVE SerialNumberIsOwn'
  OBVIOUS
<1>1. ASSUME NEW id \in Serial, NEW s \in {"active", "inactive"}, SetStatus(id, s)
      PROVE  SerialNumberIsOwn'
  BY <1>1 DEF SetStatus, SerialNumberIsOwn, TypeOK, Device
\* The row that is written has the serial number that was read as its device_id,
\* which has no blanks: then neither has what was read.
<1>2. ASSUME NEW d \in devices, UpdateDeviceOnline(d) PROVE SerialNumberIsOwn'
  <2> DEFINE read == Reported(at[d.address])
  <2>1. ASSUME NEW e \in devices, e.device_id = read PROVE strip(read) = read
    <3>1. e.device_id = strip(e.serial_number) /\ e.serial_number \in Serial
      BY DEF SerialNumberIsOwn, TypeOK, Device
    <3> QED
      BY <2>1, <3>1, SerialTexts
  <2>2. \A e \in devices' : \E c \in devices :
          e = IF c.device_id = read THEN [c EXCEPT !.serial_number = read, !.seen = TRUE] ELSE c
    BY <1>2 DEF UpdateDeviceOnline
  <2> HIDE DEF read
  <2> QED
    BY <2>1, <2>2 DEF SerialNumberIsOwn, TypeOK, Device
<1>3. ASSUME NEW p \in Registrar, AddDevice(p) PROVE SerialNumberIsOwn'
  BY <1>3 DEF AddDevice, NewDevice, SerialNumberIsOwn
<1>4. CASE UNCHANGED devices
  BY <1>4 DEF SerialNumberIsOwn
<1> QED
  BY <1>1, <1>2, <1>3, <1>4
  DEF Next, Register, vars, Submit, StartSeeding, GetDeviceByIp, TestDevice,
      DatabaseError, ActivateDevice, DeactivateDevice, Move

\* Every device that was removed still has its row.
RemovedInv ==
    /\ \A id \in removed : Taken(id)
    /\ RemovedStaysRemoved

LEMMA RemovedStep == TypeOK /\ RemovedInv /\ [Next]_vars => RemovedInv'
<1> SUFFICES ASSUME TypeOK, RemovedInv, [Next]_vars PROVE RemovedInv'
  OBVIOUS
<1> USE DEF RemovedInv, RemovedStaysRemoved, Taken
<1>k. ASSUME NEW id \in removed
      PROVE  \E e \in devices' : e.device_id = id
  BY RowsStay
<1>1. ASSUME NEW id \in Serial, ActivateDevice(id) PROVE RemovedInv'
  <2>1. \A e \in devices' : \E d \in devices :
          e = IF d.device_id = id THEN [d EXCEPT !.status = "active"] ELSE d
    BY <1>1 DEF ActivateDevice, SetStatus
  <2>2. \A e \in devices' : e.status = "inactive" <=> e.device_id \in removed'
    BY <1>1, <2>1 DEF ActivateDevice, TypeOK, Device
  <2> QED
    BY <1>1, <1>k, <2>2 DEF ActivateDevice
<1>2. ASSUME NEW id \in Serial, DeactivateDevice(id) PROVE RemovedInv'
  <2>1. \A e \in devices' : \E d \in devices :
          e = IF d.device_id = id THEN [d EXCEPT !.status = "inactive"] ELSE d
    BY <1>2 DEF DeactivateDevice, SetStatus
  <2>2. \A e \in devices' : e.status = "inactive" <=> e.device_id \in removed'
    BY <1>2, <2>1 DEF DeactivateDevice, TypeOK, Device
  <2>3. \E e \in devices' : e.device_id = id
    BY <1>2, RowsStay DEF DeactivateDevice, SetStatus
  <2> QED
    BY <1>2, <1>k, <2>2, <2>3 DEF DeactivateDevice
<1>3. ASSUME NEW d \in devices, UpdateDeviceOnline(d) PROVE RemovedInv'
  <2>1. \A e \in devices' : \E c \in devices :
          e.device_id = c.device_id /\ e.status = c.status
    BY <1>3 DEF UpdateDeviceOnline, TypeOK, Device
  <2>2. removed' = removed
    BY <1>3 DEF UpdateDeviceOnline
  <2> QED
    BY <1>k, <2>1, <2>2
<1>4. ASSUME NEW p \in Registrar, AddDevice(p) PROVE RemovedInv'
  <2>1. CASE Taken(strip(serial[p]))
    BY <1>4, <2>1 DEF AddDevice
  <2>2. CASE ~ Taken(strip(serial[p]))
    <3>1. NewDevice(p).status = "active" /\ NewDevice(p).device_id = strip(serial[p])
      BY DEF NewDevice
    <3>2. strip(serial[p]) \notin removed
      BY <2>2
    <3> QED
      BY <1>4, <1>k, <2>2, <3>1, <3>2 DEF AddDevice
  <2> QED
    BY <2>1, <2>2
<1>5. CASE UNCHANGED <<devices, removed>>
  BY <1>5
<1> QED
  BY <1>1, <1>2, <1>3, <1>4, <1>5
  DEF Next, Register, vars, Submit, StartSeeding, GetDeviceByIp, TestDevice,
      DatabaseError, Move

(***************************************************************************)
(* Seeding: the seeder leaves an entry when its address has a row or its   *)
(* terminal could not be asked.                                            *)
(***************************************************************************)
RegisteredNext(a) == \E d \in devices' : d.address = a

LEMMA SeedStep == TypeOK /\ FlowInv /\ SeedAccounted /\ [Next]_vars => SeedAccounted'
<1> SUFFICES ASSUME TypeOK, FlowInv, SeedAccounted, [Next]_vars,
                    NEW i \in 1..(entry' - 1)
             PROVE  RegisteredNext(Seeds[i]) \/ Seeds[i] \in failed'
  BY DEF SeedAccounted, Registered, RegisteredNext
<1> USE RegistrationAssumption
<1>t. entry \in 0..Len(Seeds) /\ Len(Seeds) \in Nat /\ Seeder \notin Form
  BY SeedsType DEF TypeOK
<1>k. ASSUME NEW a \in Address, Registered(a) PROVE RegisteredNext(a)
  BY <1>k, RowsStay DEF Registered, RegisteredNext
<1>o. CASE entry' = entry /\ failed \subseteq failed'
  <2>1. Registered(Seeds[i]) \/ Seeds[i] \in failed
    BY <1>o DEF SeedAccounted
  <2> QED
    BY <1>o, <1>k, <1>t, <2>1, SeedsType
<1>n. CASE /\ entry' = entry + 1 /\ failed \subseteq failed'
           /\ RegisteredNext(Seeds[entry]) \/ Seeds[entry] \in failed'
  <2>1. CASE i = entry
    BY <1>n, <2>1
  <2>2. CASE i \in 1..(entry - 1)
    <3>1. Registered(Seeds[i]) \/ Seeds[i] \in failed
      BY <2>2 DEF SeedAccounted
    <3> QED
      BY <1>n, <1>k, <1>t, <2>2, <3>1, SeedsType
  <2> QED
    BY <1>n, <1>t, <2>1, <2>2
<1>z. entry' # 0 /\ entry' # 1
  BY <1>t
<1>s. ASSUME NEW p \in Registrar, Stop(p), failed' = failed
      PROVE  entry' = entry /\ failed \subseteq failed'
  BY <1>s, <1>z DEF Stop
<1>d. ASSUME NEW p \in Registrar, Done(p), failed \subseteq failed', pc[p] # "idle",
             p = Seeder => RegisteredNext(Seeds[entry]) \/ Seeds[entry] \in failed'
      PROVE  RegisteredNext(Seeds[i]) \/ Seeds[i] \in failed'
  <2>1. CASE entry' = entry
    BY <1>d, <1>o, <2>1
  <2>2. CASE entry' # entry
    <3>1. p = Seeder /\ entry' = entry + 1
      BY <1>d, <1>z, <2>2 DEF Done, Stop
    <3> QED
      BY <1>d, <1>n, <3>1
  <2> QED
    BY <2>1, <2>2
<1>a. pc[Seeder] # "idle" => address[Seeder] = Seeds[entry] /\ Seeds[entry] \in Address
  BY DEF FlowInv, Registrar
<1>1. ASSUME NEW p \in Registrar, GetDeviceByIp(p)
      PROVE  RegisteredNext(Seeds[i]) \/ Seeds[i] \in failed'
  <2>1. CASE Registered(address[p]) /\ Done(p)
    BY <1>1, <1>a, <1>d, <1>k, <2>1 DEF GetDeviceByIp
  <2>2. CASE entry' = entry
    BY <1>1, <1>o, <2>2 DEF GetDeviceByIp
  <2> QED
    BY <1>1, <2>1, <2>2 DEF GetDeviceByIp
<1>2. ASSUME NEW p \in Registrar, TestDevice(p)
      PROVE  RegisteredNext(Seeds[i]) \/ Seeds[i] \in failed'
  <2>1. CASE /\ Done(p)
             /\ failed' = IF p = Seeder THEN failed \cup {address[p]} ELSE failed
    BY <1>2, <1>a, <1>d, <2>1 DEF TestDevice
  <2>2. CASE UNCHANGED seeding
    BY <1>o, <2>2 DEF seeding
  <2> QED
    BY <1>2, <2>1, <2>2 DEF TestDevice
<1>3. ASSUME NEW p \in Registrar, AddDevice(p)
      PROVE  RegisteredNext(Seeds[i]) \/ Seeds[i] \in failed'
  <2>1. CASE devices' = devices \cup {NewDevice(p)} /\ Done(p)
    <3>1. NewDevice(p) \in devices' /\ NewDevice(p).address = address[p]
      BY <2>1 DEF NewDevice
    <3>2. p = Seeder => RegisteredNext(Seeds[entry])
      BY <1>3, <1>a, <3>1 DEF AddDevice, RegisteredNext
    <3> QED
      BY <1>3, <1>d, <2>1, <3>2 DEF AddDevice
  <2>2. CASE Stop(p)
    BY <1>3, <1>o, <1>s, <2>2 DEF AddDevice
  <2> QED
    BY <1>3, <2>1, <2>2 DEF AddDevice
<1>4. ASSUME NEW p \in Registrar, DatabaseError(p)
      PROVE  RegisteredNext(Seeds[i]) \/ Seeds[i] \in failed'
  BY <1>4, <1>o, <1>s DEF DatabaseError
<1>5. CASE StartSeeding
  BY <1>5, <1>z DEF StartSeeding
<1>6. CASE UNCHANGED seeding
  BY <1>6, <1>o DEF seeding
<1> QED
  BY <1>1, <1>2, <1>3, <1>4, <1>5, <1>6
  DEF Next, Register, vars, Submit, ActivateDevice, DeactivateDevice, SetStatus,
      UpdateDeviceOnline, Move

(***************************************************************************)
(* The theorems.                                                           *)
(***************************************************************************)
LEMMA Invariants ==
    Spec => [](/\ TypeOK /\ FlowInv /\ IdUnique /\ RaceInv /\ WiringInv
               /\ SerialNumberIsOwn /\ RemovedInv /\ SeedAccounted)
<1>1. Init => /\ IdUnique /\ RaceInv /\ WiringInv
              /\ SerialNumberIsOwn /\ RemovedInv /\ SeedAccounted
  BY DEF Init, IdUnique, RaceInv, WiringInv, UnderWay, SerialNumberIsOwn, RemovedInv,
         RemovedStaysRemoved, SeedAccounted
<1> QED
  BY <1>1, FlowCorrect, IdUniqueStep, RaceStep, WiringStep, SerialStep, RemovedStep, SeedStep, PTL
  DEF Spec

\* However registrations of one address interleave, the address gets a second
\* row only if it changed hands while one of them was under way.
THEOREM AddressesOnce == Spec => []AddressOnce
<1>1. TypeOK /\ IdUnique /\ RaceInv => AddressOnce
  BY DEF TypeOK, Device, IdUnique, RaceInv, AddressOnce
<1> QED
  BY <1>1, Invariants, PTL

\* While the addresses stay as they are, every terminal has at most one row,
\* whichever of its addresses it was registered under.
THEOREM TerminalsOnce == Spec => []OneRowPerTerminal
<1>1. IdUnique /\ WiringInv => OneRowPerTerminal
  BY DEF IdUnique, WiringInv, IdAt, OneRowPerTerminal
<1> QED
  BY <1>1, Invariants, PTL

\* No row ever shows the serial number of another terminal than the one its
\* device_id names, blanks aside.
THEOREM SerialNumbersOwn == Spec => []SerialNumberIsOwn
  BY Invariants, PTL

\* A device is inactive exactly if the administrator has removed it.
THEOREM RemovedForGood == Spec => []RemovedStaysRemoved
  BY Invariants, PTL DEF RemovedInv

\* A seeding run passes over no entry.
THEOREM SeedsAccounted == Spec => []SeedAccounted
  BY Invariants, PTL
================================================================================
