------------------------- MODULE DeviceCollectorProofs -------------------------
(***************************************************************************)
(* Proofs about DeviceCollector, for any number of terminals, punches and  *)
(* employees and any bounds.                                               *)
(***************************************************************************)
EXTENDS DeviceCollector, TLAPS

(***************************************************************************)
(* Lemmas about the table operators of AttendanceStore.                    *)
(***************************************************************************)

\* A prepared record is a row.
LEMMA RecordIsRow ==
    ASSUME NEW id \in DeviceId, NEW names, NEW p \in Punch
    PROVE  PrepareRecord(id, names, p) \in Row
BY DEF PrepareRecord, Row

\* insert_records and update_attendance_names keep a table a set of rows.
LEMMA InsertIsTable ==
    ASSUME NEW table \in SUBSET Row, NEW batch \in SUBSET Row
    PROVE  InsertRecords(table, batch) \in SUBSET Row
BY DEF InsertRecords, Fresh

LEMMA NamedIsRow ==
    ASSUME NEW r \in Row
    PROVE  [r EXCEPT !.named = TRUE] \in Row
BY DEF Row

LEMMA UpdateIsTable ==
    ASSUME NEW table \in SUBSET Row, NEW id, NEW names
    PROVE  UpdateNames(table, id, names) \in SUBSET Row
BY NamedIsRow DEF UpdateNames
--------------------------------------------------------------------------------
(***************************************************************************)
(* Type correctness.                                                       *)
(***************************************************************************)

LEMMA RowsAreRows ==
    ASSUME TypeOK, NEW d \in Device, NEW S \in SUBSET Punch
    PROVE  Rows(d, S) \in SUBSET Row
<1>1. device_id(d) \in DeviceId
  BY DEF TypeOK, device_id, DeviceId
<1> QED
  BY <1>1, RecordIsRow DEF Rows

\* Every queue entry is an event.
LEMMA Events ==
    Error \in Event /\ Untracked \in Event /\ \A p \in Punch : Attendance(p) \in Event
BY DEF Event

\* What a failing call, a failing iteration and a disconnect do to the types.
LEMMA BudgetType ==
    ASSUME TypeOK, Fault \/ NoFault
    PROVE  faults' \in 0..MaxFaults /\ toggles' = toggles /\ restarts' = restarts
BY CollectorAssumption DEF TypeOK, Fault, NoFault, budgets

LEMMA DisconnectType ==
    ASSUME TypeOK, NEW d \in Device, Disconnect(d)
    PROVE  /\ capture' \in [Device -> {"off", "starting", "on", "deaf"}]
           /\ queue' \in [Device -> Seq(Event)]
BY DEF TypeOK, Disconnect

LEMMA GotoType ==
    ASSUME TypeOK, NEW d \in Device, NEW next \in PC, Goto(d, next)
    PROVE  pc' \in [Device -> PC]
BY DEF TypeOK, Goto

LEMMA DeviceErrorType ==
    ASSUME TypeOK, NEW d \in Device, DeviceError(d)
    PROVE  /\ pc' \in [Device -> PC] /\ db' = db
           /\ capture' \in [Device -> {"off", "starting", "on", "deaf"}]
           /\ queue' \in [Device -> Seq(Event)]
           /\ quiet' = quiet /\ unchecked' = unchecked
<1>1. pc' \in [Device -> PC]
  BY GotoType DEF DeviceError, PC
<1> QED
  BY <1>1, DisconnectType DEF DeviceError, timers

\* Every step of a device thread keeps the variables in their types.
LEMMA ThreadType ==
    ASSUME TypeOK, NEW d \in Device, StartThread(d) \/ Thread(d)
    PROVE  TypeOK'
<1> USE DEF control
<1>1. CASE StartThread(d)
  BY <1>1 DEF StartThread, PC, TypeOK, Goto, budgets, timers, monitor, connection
<1>2. CASE CheckActive(d)
  <2>1. pc' \in [Device -> PC]
    BY <1>2, GotoType DEF CheckActive, PC
  <2>2. faults' \in 0..MaxFaults /\ toggles' = toggles /\ restarts' = restarts
    BY <1>2, BudgetType DEF CheckActive
  <2> QED
    BY <1>2, <2>1, <2>2 DEF CheckActive, TypeOK, timers, monitor, connection
<1>3. CASE Connect(d)
  <2>1. faults' \in 0..MaxFaults /\ toggles' = toggles /\ restarts' = restarts
    BY <1>3, BudgetType DEF Connect, GetDeviceInformation
  <2>2. CASE DeviceError(d) /\ UNCHANGED connection
    BY <1>3, <2>1, <2>2, DeviceErrorType DEF Connect, GetDeviceInformation, TypeOK, connection
  <2>3. CASE /\ \E kind \in IdKind : ident' = [ident EXCEPT ![d] = kind]
             /\ \E names \in SUBSET User : user_map' = [user_map EXCEPT ![d] = names]
             /\ Goto(d, "read") /\ UNCHANGED <<db, records, monitor>>
    <3>1. ident' \in [Device -> IdKind] /\ user_map' \in [Device -> SUBSET User]
      BY <2>3 DEF TypeOK
    <3>2. pc' \in [Device -> PC]
      BY <2>3, GotoType DEF PC
    <3> QED
      BY <1>3, <2>1, <2>3, <3>1, <3>2 DEF Connect, GetDeviceInformation, TypeOK, monitor, timers
  <2> QED
    BY <1>3, <2>2, <2>3 DEF Connect, GetDeviceInformation, IdKind
<1>4. CASE ReadLog(d)
  <2>1. faults' \in 0..MaxFaults /\ toggles' = toggles /\ restarts' = restarts
    BY <1>4, BudgetType DEF ReadLog
  <2>2. CASE DeviceError(d) /\ UNCHANGED <<records, unseen>>
    BY <1>4, <2>1, <2>2, DeviceErrorType DEF ReadLog, TypeOK
  <2>3. CASE /\ records' = [records EXCEPT ![d] = log[d]]
             /\ unseen' = [unseen EXCEPT ![d] = {}]
             /\ Goto(d, IF log[d] = {} THEN "names" ELSE "insert")
             /\ UNCHANGED <<db, monitor>>
    <3>1. pc' \in [Device -> PC]
      BY <2>3, GotoType DEF PC
    <3>2. records' \in [Device -> SUBSET Punch] /\ unseen' \in [Device -> SUBSET Punch]
      BY <2>3 DEF TypeOK
    <3> QED
      BY <1>4, <2>1, <2>3, <3>1, <3>2 DEF ReadLog, TypeOK, monitor, timers
  <2> QED
    BY <1>4, <2>2, <2>3 DEF ReadLog
<1>5. CASE InsertLog(d)
  <2>1. faults' \in 0..MaxFaults /\ toggles' = toggles /\ restarts' = restarts
    BY <1>5, BudgetType DEF InsertLog
  <2>2. CASE DeviceError(d)
    BY <1>5, <2>1, <2>2, DeviceErrorType DEF InsertLog, TypeOK, connection
  <2>3. CASE /\ db' = InsertRecords(db, Rows(d, records[d]))
             /\ Goto(d, "names") /\ UNCHANGED monitor
    <3>1. db' \in SUBSET Row
      BY <2>3, RowsAreRows, InsertIsTable DEF TypeOK
    <3>2. pc' \in [Device -> PC]
      BY <2>3, GotoType DEF PC
    <3> QED
      BY <1>5, <2>1, <2>3, <3>1, <3>2
      DEF InsertLog, TypeOK, connection, monitor, timers
  <2> QED
    BY <1>5, <2>2, <2>3 DEF InsertLog
<1>6. CASE SaveNames(d)
  <2>1. db' \in SUBSET Row
    BY <1>6, UpdateIsTable DEF SaveNames, StartMonitor, TypeOK
  <2>2. faults' \in 0..MaxFaults /\ toggles' = toggles /\ restarts' = restarts
    BY <1>6, BudgetType DEF SaveNames, StartMonitor
  <2>3. /\ pc' \in [Device -> PC]
        /\ capture' \in [Device -> {"off", "starting", "on", "deaf"}]
        /\ queue' \in [Device -> Seq(Event)]
    BY <1>6 DEF SaveNames, StartMonitor, TypeOK, Goto, PC
  <2>4. quiet' \in [Device -> 0..SafetyTicks] /\ unchecked' \in [Device -> 0..StatusTicks]
    BY <1>6, CollectorAssumption DEF SaveNames, StartMonitor, TypeOK
  <2> QED
    BY <1>6, <2>1, <2>2, <2>3, <2>4 DEF SaveNames, StartMonitor, TypeOK, connection
<1>7. CASE LiveStop(d)
  <2>1. pc' \in [Device -> PC]
    BY <1>7, GotoType DEF LiveStop, PC
  <2> QED
    BY <1>7, <2>1, DisconnectType DEF LiveStop, TypeOK, connection, timers, budgets
<1>8. CASE LiveEmpty(d)
  <2>1. pc' \in [Device -> PC]
    BY <1>8, GotoType DEF LiveEmpty, PC
  <2>2. quiet' \in [Device -> 0..SafetyTicks] /\ unchecked' \in [Device -> 0..StatusTicks]
    BY <1>8, CollectorAssumption DEF LiveEmpty, TypeOK
  <2> QED
    BY <1>8, <2>1, <2>2 DEF LiveEmpty, TypeOK, connection, budgets
<1>9. CASE LiveEvent(d)
  <2>1. CASE DeviceError(d) /\ (Fault \/ NoFault)
    BY <1>9, <2>1, DeviceErrorType, BudgetType DEF LiveEvent, TypeOK, connection
  <2>2. CASE LiveSaved(d)
    <3>1. db' \in SUBSET Row
      <4>1. \A p \in Punch : InsertRecords(db, Rows(d, {p})) \in SUBSET Row
        BY RowsAreRows, InsertIsTable DEF TypeOK
      <4>2. db' = db \/ \E p \in Punch : db' = InsertRecords(db, Rows(d, {p}))
        BY <1>9, <2>2 DEF LiveEvent, DeviceError
      <4> QED
        BY <4>1, <4>2 DEF TypeOK
    <3>2. pc' \in [Device -> PC]
      BY <2>2, GotoType DEF LiveSaved, PC
    <3>3. queue' \in [Device -> Seq(Event)]
      <4>1. queue[d] \in Seq(Event) /\ queue[d] # <<>>
        BY <1>9 DEF LiveEvent, TypeOK
      <4>2. Tail(queue[d]) \in Seq(Event)
        BY <4>1
      <4> QED
        BY <2>2, <4>2 DEF LiveSaved, TypeOK
    <3>4. quiet' \in [Device -> 0..SafetyTicks] /\ unchecked' \in [Device -> 0..StatusTicks]
      BY <2>2, CollectorAssumption DEF LiveSaved, TypeOK
    <3> QED
      BY <1>9, <2>2, <3>1, <3>2, <3>3, <3>4, BudgetType
      DEF LiveEvent, LiveSaved, TypeOK, connection
  <2> QED
    BY <1>9, <2>1, <2>2 DEF LiveEvent
<1>10. CASE LiveDeactivated(d)
  <2>1. pc' \in [Device -> PC]
    BY <1>10, GotoType DEF LiveDeactivated, PC
  <2> QED
    BY <1>10, <2>1, DisconnectType DEF LiveDeactivated, TypeOK, connection, timers, budgets
<1>11. CASE LivePass(d)
  <2>1. pc' \in [Device -> PC]
    <3>1. Goto(d, "check") \/ Goto(d, "live")
      BY <1>11 DEF LivePass
    <3> QED
      BY <3>1, GotoType DEF PC
  <2>2. /\ capture' \in [Device -> {"off", "starting", "on", "deaf"}]
        /\ queue' \in [Device -> Seq(Event)]
    <3>1. Disconnect(d) \/ UNCHANGED <<capture, queue>>
      BY <1>11 DEF LivePass
    <3> QED
      BY <3>1, DisconnectType DEF TypeOK
  <2>3. unchecked' \in [Device -> 0..StatusTicks]
    BY <1>11, CollectorAssumption DEF LivePass, TypeOK
  <2>4. faults' \in 0..MaxFaults /\ toggles' = toggles /\ restarts' = restarts
    BY <1>11, BudgetType DEF LivePass
  <2> QED
    BY <1>11, <2>1, <2>2, <2>3, <2>4 DEF LivePass, TypeOK, connection
<1>12. CASE ThreadEnds(d)
  <2>1. pc' \in [Device -> PC]
    BY <1>12, GotoType DEF ThreadEnds, PC
  <2> QED
    BY <1>12, <2>1 DEF ThreadEnds, TypeOK, connection, monitor, timers, budgets
<1> QED
  BY <1>1, <1>2, <1>3, <1>4, <1>5, <1>6, <1>7, <1>8, <1>9, <1>10, <1>11, <1>12 DEF Thread

\* So does every step of the capture thread, the terminal and the administrator.
LEMMA EnvironmentType ==
    ASSUME TypeOK, NEW d \in Device, Environment(d)
    PROVE  TypeOK'
<1> USE DEF timers, connection, control, budgets
<1>1. CASE CaptureRegisters(d)
  BY <1>1 DEF CaptureRegisters, TypeOK
<1>2. CASE CaptureFails(d)
  <2>1. queue' \in [Device -> Seq(Event)]
    BY <1>2, Events DEF CaptureFails, TypeOK
  <2> QED
    BY <1>2, <2>1, BudgetType DEF CaptureFails, TypeOK
<1>3. CASE CaptureGoesDeaf(d)
  BY <1>3, BudgetType DEF CaptureGoesDeaf, TypeOK
<1>4. ASSUME NEW p \in Punch, MakePunch(d, p) PROVE TypeOK'
  <2>1. queue' \in [Device -> Seq(Event)]
    <3>1. Append(queue[d], Attendance(p)) \in Seq(Event)
      BY Events DEF TypeOK
    <3>2. queue' = queue \/ queue' = [queue EXCEPT ![d] = Append(@, Attendance(p))]
      BY <1>4 DEF MakePunch
    <3>3. queue \in [Device -> Seq(Event)]
      BY DEF TypeOK
    <3> QED
      BY <3>1, <3>2, <3>3
  <2>2. log' \in [Device -> SUBSET Punch]
    BY <1>4 DEF MakePunch, TypeOK
  <2>3. unseen' \in [Device -> SUBSET Punch]
    <3>1. unseen' = unseen \/ unseen' = [unseen EXCEPT ![d] = @ \cup {p}]
      BY <1>4 DEF MakePunch
    <3>2. unseen[d] \cup {p} \in SUBSET Punch
      BY DEF TypeOK
    <3>3. unseen \in [Device -> SUBSET Punch]
      BY DEF TypeOK
    <3> QED
      BY <3>1, <3>2, <3>3
  <2> QED
    BY <1>4, <2>1, <2>2, <2>3 DEF MakePunch, TypeOK
<1>5. CASE OtherPunch(d)
  <2>1. queue' \in [Device -> Seq(Event)]
    BY <1>5, Events DEF OtherPunch, TypeOK
  <2> QED
    BY <1>5, <2>1 DEF OtherPunch, TypeOK
<1>6. CASE SetStatus(d)
  <2>1. status' \in [Device -> {"active", "inactive"}] /\ toggles' \in 0..MaxToggles
    BY <1>6, CollectorAssumption DEF SetStatus, TypeOK
  <2> QED
    BY <1>6, <2>1 DEF SetStatus, TypeOK, monitor
<1> QED
  BY <1>1, <1>2, <1>3, <1>4, <1>5, <1>6 DEF Environment

\* Every reachable state is well-typed.
THEOREM TypeCorrect == Spec => []TypeOK
<1>1. Init => TypeOK
  <2> SUFFICES ASSUME Init PROVE TypeOK
    OBVIOUS
  <2>1. /\ quiet \in [Device -> 0..SafetyTicks] /\ unchecked \in [Device -> 0..StatusTicks]
        /\ faults \in 0..MaxFaults /\ toggles \in 0..MaxToggles /\ restarts \in 0..MaxRestarts
    BY CollectorAssumption DEF Init
  <2>2. pc \in [Device -> PC] /\ ident \in [Device -> IdKind]
    BY DEF Init, PC, IdKind
  <2>3. /\ status \in [Device -> {"active", "inactive"}]
        /\ capture \in [Device -> {"off", "starting", "on", "deaf"}]
        /\ queue \in [Device -> Seq(Event)]
    BY DEF Init
  <2>4. /\ log \in [Device -> SUBSET Punch] /\ user_map \in [Device -> SUBSET User]
        /\ records \in [Device -> SUBSET Punch] /\ unseen \in [Device -> SUBSET Punch]
    BY DEF Init
  <2>5. db \subseteq Row /\ polled \subseteq Device /\ stop \in BOOLEAN
    BY DEF Init
  <2> QED
    BY <2>1, <2>2, <2>3, <2>4, <2>5 DEF TypeOK
<1>2. TypeOK /\ [Next]_vars => TypeOK'
  <2> SUFFICES ASSUME TypeOK, [Next]_vars PROVE TypeOK'
    OBVIOUS
  <2>1. CASE \E d \in Device : StartThread(d) \/ Thread(d) \/ Environment(d)
    BY <2>1, ThreadType, EnvironmentType
  <2>2. CASE PollDevices \/ signal_handler
    BY <2>2 DEF PollDevices, signal_handler, TypeOK, monitor, timers, connection, budgets
  <2>3. CASE Restart
    <3>1. pc' \in [Device -> PC] /\ restarts' \in 0..MaxRestarts
      BY <2>3, CollectorAssumption DEF Restart, TypeOK, PC
    <3>2. /\ capture' \in [Device -> {"off", "starting", "on", "deaf"}]
          /\ queue' \in [Device -> Seq(Event)]
      BY <2>3 DEF Restart
    <3> QED
      BY <2>3, <3>1, <3>2 DEF Restart, TypeOK, timers, connection
  <2>4. CASE UNCHANGED vars
    BY <2>4 DEF vars, TypeOK, monitor, timers, connection, control, budgets
  <2> QED
    BY <2>1, <2>2, <2>3, <2>4 DEF Next
<1> QED
  BY <1>1, <1>2, PTL DEF Spec
--------------------------------------------------------------------------------
(***************************************************************************)
(* What a step does to the table.                                          *)
(***************************************************************************)

\* What a device thread holds to be inserted: full_sync's records, or an event.
Delivered(d) ==
    {records[d]} \cup
    {{p} : p \in {q \in Punch : queue[d] # <<>> /\ Head(queue[d]) = Attendance(q)}}

\* A transaction of a device thread: a batch without a hash clash, or names.
Insertion(d) ==
    \E S \in Delivered(d) :
        /\ ~ HashClash(db, Rows(d, S))
        /\ db' = InsertRecords(db, Rows(d, S))

Update(d) == db' = UpdateNames(db, device_id(d), user_map[d])

LEMMA DeliveredPunches ==
    ASSUME TypeOK, NEW d \in Device
    PROVE  Delivered(d) \subseteq SUBSET Punch
BY DEF Delivered, TypeOK

LEMMA TableSteps ==
    ASSUME TypeOK, [Next]_vars
    PROVE  db' = db \/ \E d \in Device : Insertion(d) \/ Update(d)
<1>1. ASSUME NEW d \in Device, InsertLog(d) PROVE db' = db \/ Insertion(d)
  BY <1>1 DEF InsertLog, DeviceError, Insertion, Delivered
<1>2. ASSUME NEW d \in Device, SaveNames(d) PROVE db' = db \/ Update(d)
  BY <1>2 DEF SaveNames, StartMonitor, Update
<1>3. ASSUME NEW d \in Device, LiveEvent(d) PROVE db' = db \/ Insertion(d)
  BY <1>3 DEF LiveEvent, DeviceError, Insertion, Delivered
<1>4. ASSUME NEW d \in Device,
             Thread(d) /\ ~ InsertLog(d) /\ ~ SaveNames(d) /\ ~ LiveEvent(d)
      PROVE  db' = db
  BY <1>4 DEF Thread, CheckActive, Connect, GetDeviceInformation, ReadLog, LiveStop, LiveEmpty,
              LiveDeactivated, LivePass, ThreadEnds, DeviceError
<1>5. ASSUME NEW d \in Device, StartThread(d) \/ Environment(d) PROVE db' = db
  BY <1>5 DEF StartThread, Environment, CaptureRegisters, CaptureFails,
              CaptureGoesDeaf, MakePunch, OtherPunch, SetStatus
<1>6. CASE PollDevices \/ signal_handler \/ Restart \/ UNCHANGED vars
  BY <1>6 DEF PollDevices, signal_handler, Restart, vars
<1> QED
  BY <1>1, <1>2, <1>3, <1>4, <1>5, <1>6 DEF Next
--------------------------------------------------------------------------------
(***************************************************************************)
(* A punch is stored once.                                                 *)
(***************************************************************************)
Unique(table) == \A r, q \in table : RecordHash(r) = RecordHash(q) => r = q

\* A batch with one row per punch and no hash clash keeps the hashes unique.
LEMMA InsertKeepsUnique ==
    ASSUME NEW table \in SUBSET Row, NEW batch \in SUBSET Row,
           Unique(table), ~ HashClash(table, batch),
           \A r, q \in batch : SameKey(r, q) => r = q
    PROVE  Unique(InsertRecords(table, batch))
<1> SUFFICES ASSUME NEW r \in InsertRecords(table, batch),
                    NEW q \in InsertRecords(table, batch),
                    RecordHash(r) = RecordHash(q)
             PROVE  r = q
  BY DEF Unique
<1>1. CASE r \in table /\ q \in table
  BY <1>1 DEF Unique
<1>2. CASE r \in Fresh(table, batch)
  <2>1. SameKey(r, q)
    BY <1>2 DEF HashClash, InsertRecords
  <2>2. q \in Fresh(table, batch)
    BY <1>2, <2>1 DEF InsertRecords, Fresh
  <2> QED
    BY <1>2, <2>1, <2>2 DEF Fresh
<1>3. CASE q \in Fresh(table, batch)
  <2>1. SameKey(q, r)
    BY <1>3 DEF HashClash, InsertRecords
  <2>2. r \in Fresh(table, batch)
    BY <1>3, <2>1 DEF InsertRecords, Fresh
  <2> QED
    BY <1>3, <2>1, <2>2 DEF Fresh
<1> QED
  BY <1>1, <1>2, <1>3 DEF InsertRecords

\* Filling in names changes no hash and merges no rows.
LEMMA UpdateKeepsUnique ==
    ASSUME NEW table \in SUBSET Row, NEW id, NEW names, Unique(table)
    PROVE  Unique(UpdateNames(table, id, names))
<1> DEFINE named(r) == IF r.device_id = id /\ UserOf[r.punch] \in names
                          THEN [r EXCEPT !.named = TRUE]
                          ELSE r
<1>1. \A r \in table : RecordHash(named(r)) = RecordHash(r)
  BY DEF RecordHash, Row
<1>2. UpdateNames(table, id, names) = {named(r) : r \in table}
  BY DEF UpdateNames
<1>3. \A r, q \in table : RecordHash(named(r)) = RecordHash(named(q)) => named(r) = named(q)
  BY <1>1 DEF Unique
<1> HIDE DEF named
<1> QED
  BY <1>2, <1>3 DEF Unique

\* No two rows have the same record_hash (the UNIQUE column of create_table).
HashUnique == \A r, q \in db : RecordHash(r) = RecordHash(q) => r = q

\* The table never holds the same record_hash twice (UNIQUE(record_hash) in
\* create_table), whatever insert_records and update_attendance_names do to it.
THEOREM HashesUnique == Spec => []HashUnique
<1>1. Init => HashUnique
  BY DEF Init, HashUnique
<1>2. TypeOK /\ HashUnique /\ [Next]_vars => HashUnique'
  <2> SUFFICES ASSUME TypeOK, HashUnique, [Next]_vars PROVE HashUnique'
    OBVIOUS
  <2>1. Unique(db) /\ db \in SUBSET Row
    BY DEF HashUnique, Unique, TypeOK
  <2>2. ASSUME NEW d \in Device, Insertion(d) PROVE Unique(db')
    <3>1. PICK S \in SUBSET Punch : /\ ~ HashClash(db, Rows(d, S))
                                    /\ db' = InsertRecords(db, Rows(d, S))
      BY <2>2, DeliveredPunches DEF Insertion
    <3>2. Rows(d, S) \in SUBSET Row
      BY RowsAreRows
    <3>3. \A r, q \in Rows(d, S) : SameKey(r, q) => r = q
      BY DEF Rows, PrepareRecord, SameKey
    <3> QED
      BY <2>1, <3>1, <3>2, <3>3, InsertKeepsUnique
  <2>3. ASSUME NEW d \in Device, Update(d) PROVE Unique(db')
    BY <2>1, <2>3, UpdateKeepsUnique DEF Update
  <2>4. Unique(db')
    BY <2>1, <2>2, <2>3, TableSteps
  <2> QED
    BY <2>4 DEF HashUnique, Unique
<1> QED
  BY <1>1, <1>2, TypeCorrect, PTL DEF Spec

\* The table never holds the same punch of one terminal twice (insert_records),
\* under whatever identities it was delivered.
THEOREM StoredOnceAlways == Spec => []StoredOnce
<1>1. HashUnique => StoredOnce
  BY DEF HashUnique, StoredOnce, RecordHash
<1> QED
  BY <1>1, HashesUnique, PTL

\* Filling in names keeps every row, its key and its name.
LEMMA UpdateKeepsRows ==
    ASSUME NEW table \in SUBSET Row, NEW id, NEW names, NEW r \in table
    PROVE  \E q \in UpdateNames(table, id, names) :
               SameKey(r, q) /\ (r.named => q.named)
<1> DEFINE q == IF r.device_id = id /\ UserOf[r.punch] \in names
                   THEN [r EXCEPT !.named = TRUE]
                   ELSE r
<1>1. q \in UpdateNames(table, id, names)
  BY DEF UpdateNames
<1>2. SameKey(r, q) /\ (r.named => q.named)
  BY DEF SameKey, Row
<1> QED
  BY <1>1, <1>2

LEMMA RowsKept ==
    ASSUME TypeOK, [Next]_vars, NEW r \in db
    PROVE  \E q \in db' : SameKey(r, q) /\ (r.named => q.named)
<1>1. ASSUME r \in db' PROVE \E q \in db' : SameKey(r, q) /\ (r.named => q.named)
  BY <1>1 DEF SameKey
<1>2. ASSUME NEW d \in Device, Insertion(d) PROVE r \in db'
  BY <1>2 DEF Insertion, InsertRecords
<1>3. ASSUME NEW d \in Device, Update(d)
      PROVE  \E q \in db' : SameKey(r, q) /\ (r.named => q.named)
  BY <1>3, UpdateKeepsRows DEF Update, TypeOK
<1> QED
  BY <1>1, <1>2, <1>3, TableSteps

\* No step removes a row, renames its owner or takes a name back.
THEOREM RowsArePermanent == Spec => RowsPermanent
<1>1. TypeOK /\ [Next]_vars =>
        \A r \in db : \E q \in db' : SameKey(r, q) /\ (r.named => q.named)
  BY RowsKept
<1> QED
  BY <1>1, TypeCorrect, PTL DEF Spec, RowsPermanent
--------------------------------------------------------------------------------
(***************************************************************************)
(* No punch is lost: the invariant Accounted.                              *)
(***************************************************************************)

\* What belongs to one terminal: no step of another terminal changes it.
Own(e) == <<pc[e], log[e], records[e], capture[e], queue[e], unseen[e]>>

LEMMA OthersUndisturbed ==
    ASSUME TypeOK, NEW d \in Device, NEW e \in Device \ {d},
           StartThread(d) \/ Thread(d) \/ Environment(d)
    PROVE  UNCHANGED Own(e)
<1> USE DEF TypeOK, Own, Goto, Disconnect, DeviceError, connection, monitor, timers
<1>1. CASE StartThread(d) \/ CheckActive(d)
  BY <1>1 DEF StartThread, CheckActive
<1>2. CASE Connect(d)
  BY <1>2 DEF Connect, GetDeviceInformation
<1>3. CASE ReadLog(d)
  BY <1>3 DEF ReadLog
<1>4. CASE InsertLog(d)
  BY <1>4 DEF InsertLog
<1>5. CASE SaveNames(d)
  BY <1>5 DEF SaveNames, StartMonitor
<1>6. CASE LiveStop(d) \/ LiveEmpty(d)
  BY <1>6 DEF LiveStop, LiveEmpty
<1>7. CASE LiveEvent(d)
  BY <1>7 DEF LiveEvent, LiveSaved
<1>8. CASE LiveDeactivated(d) \/ LivePass(d) \/ ThreadEnds(d)
  BY <1>8 DEF LiveDeactivated, LivePass, ThreadEnds
<1>9. CASE Environment(d)
  BY <1>9 DEF Environment, CaptureRegisters, CaptureFails, CaptureGoesDeaf,
              MakePunch, OtherPunch, SetStatus
<1> QED
  BY <1>1, <1>2, <1>3, <1>4, <1>5, <1>6, <1>7, <1>8, <1>9 DEF Thread

\* The stored punches of a terminal only grow.
LEMMA StoredGrows ==
    ASSUME TypeOK, [Next]_vars, NEW e \in Device
    PROVE  StoredAt(e) \subseteq StoredAt(e)'
BY RowsKept DEF StoredAt, SameKey

\* A batch that is not rejected is stored.
LEMMA InsertStores ==
    ASSUME TypeOK, NEW d \in Device, NEW S \in SUBSET Punch,
           db' = InsertRecords(db, Rows(d, S))
    PROVE  S \subseteq StoredAt(d)'
<1> SUFFICES ASSUME NEW p \in S PROVE p \in StoredAt(d)'
  OBVIOUS
<1> DEFINE r == PrepareRecord(device_id(d), user_map[d], p)
<1>1. r \in Rows(d, S) /\ r.punch = p /\ r.device_id = device_id(d)
  BY DEF Rows, PrepareRecord
<1>2. device_id(d) \in IdKind \X {d}
  BY DEF device_id, TypeOK
<1>3. \E q \in db' : SameKey(r, q)
  BY <1>1 DEF InsertRecords, Fresh, SameKey
<1> QED
  BY <1>1, <1>2, <1>3 DEF SameKey, StoredAt

LEMMA AccountedUndisturbed ==
    ASSUME NEW e \in Device, Accounted(e), UNCHANGED Own(e),
           StoredAt(e) \subseteq StoredAt(e)'
    PROVE  Accounted(e)'
BY DEF Accounted, Own

\* After a disconnect nothing is claimed but that nothing listens.
LEMMA DisconnectAccounts ==
    ASSUME TypeOK, NEW d \in Device, Disconnect(d), Goto(d, "ending") \/ Goto(d, "check")
    PROVE  Accounted(d)'
BY DEF TypeOK, Disconnect, Goto, Accounted

\* Every step of a device thread accounts for the punches of its terminal.
LEMMA ThreadAccounts ==
    ASSUME TypeOK, NEW d \in Device, Accounted(d), [Next]_vars,
           StartThread(d) \/ Thread(d)
    PROVE  Accounted(d)'
<1> USE DEF connection, monitor, timers
<1>1. CASE StartThread(d)
  BY <1>1 DEF StartThread, Accounted, Goto, TypeOK
<1>2. CASE CheckActive(d)
  BY <1>2 DEF CheckActive, Accounted, Goto, TypeOK
<1>3. CASE Connect(d)
  <2>1. CASE DeviceError(d)
    BY <2>1, DisconnectAccounts DEF DeviceError
  <2>2. CASE Goto(d, "read") /\ UNCHANGED monitor
    BY <1>3, <2>2 DEF Connect, GetDeviceInformation, Accounted, Goto, TypeOK
  <2> QED
    BY <1>3, <2>1, <2>2 DEF Connect, GetDeviceInformation
<1>4. CASE ReadLog(d)
  <2>1. CASE DeviceError(d)
    BY <2>1, DisconnectAccounts DEF DeviceError
  <2>2. CASE /\ records' = [records EXCEPT ![d] = log[d]]
             /\ Goto(d, IF log[d] = {} THEN "names" ELSE "insert")
             /\ UNCHANGED monitor
    BY <1>4, <2>2 DEF ReadLog, Accounted, Goto, TypeOK
  <2> QED
    BY <1>4, <2>1, <2>2 DEF ReadLog
<1>5. CASE InsertLog(d)
  <2>1. CASE DeviceError(d)
    BY <2>1, DisconnectAccounts DEF DeviceError
  <2>2. CASE /\ db' = InsertRecords(db, Rows(d, records[d]))
             /\ Goto(d, "names") /\ UNCHANGED monitor
    <3>1. records[d] \subseteq StoredAt(d)'
      BY <2>2, InsertStores DEF TypeOK
    <3> QED
      BY <1>5, <2>2, <3>1 DEF InsertLog, Accounted, Goto, TypeOK
  <2> QED
    BY <1>5, <2>1, <2>2 DEF InsertLog
<1>6. CASE SaveNames(d)
  BY <1>6, StoredGrows DEF SaveNames, StartMonitor, Accounted, Goto, TypeOK
<1>7. CASE LiveStop(d) \/ LiveDeactivated(d)
  BY <1>7, DisconnectAccounts DEF LiveStop, LiveDeactivated
<1>8. CASE LiveEmpty(d)
  BY <1>8, StoredGrows DEF LiveEmpty, Accounted, Goto, TypeOK
<1>9. CASE LiveEvent(d)
  <2>1. CASE DeviceError(d)
    BY <2>1, DisconnectAccounts DEF DeviceError
  <2>2. CASE LiveSaved(d)
    <3>1. queue[d] \in Seq(Event) /\ queue[d] # <<>>
      BY <1>9 DEF LiveEvent, TypeOK
    <3>2. pc[d] = "live" /\ pc'[d] = "pass" /\ queue'[d] = Tail(queue[d])
      BY <1>9, <2>2 DEF LiveEvent, LiveSaved, Goto, TypeOK
    <3>3. log'[d] = log[d] /\ unseen'[d] = unseen[d]
      BY <1>9 DEF LiveEvent
    <3>4. \A p \in Punch : Head(queue[d]) = Attendance(p) => p \in StoredAt(d)'
      <4> SUFFICES ASSUME NEW p \in Punch, Head(queue[d]) = Attendance(p)
                   PROVE  p \in StoredAt(d)'
        OBVIOUS
      <4>1. \A q \in Punch : Attendance(q) = Attendance(p) => q = p
        BY DEF Attendance
      <4>2. Attendance(p) # Untracked
        BY DEF Attendance, Untracked
      <4>3. db' = InsertRecords(db, Rows(d, {p}))
        BY <1>9, <2>2, <3>2, <4>1, <4>2 DEF LiveEvent, DeviceError, Goto, TypeOK
      <4> QED
        BY <4>3, InsertStores
    <3>5. ASSUME NEW p \in log'[d], p \notin StoredAt(d)' \cup unseen'[d]
          PROVE  \E i \in DOMAIN queue'[d] : queue'[d][i] = Attendance(p)
      <4>1. PICK i \in DOMAIN queue[d] : queue[d][i] = Attendance(p)
        BY <3>2, <3>3, <3>5, StoredGrows DEF Accounted
      <4>2. i # 1
        BY <3>1, <3>3, <3>4, <3>5, <4>1 DEF TypeOK
      <4>3. i - 1 \in DOMAIN Tail(queue[d]) /\ Tail(queue[d])[i - 1] = queue[d][i]
        BY <3>1, <4>1, <4>2
      <4> QED
        BY <3>2, <4>1, <4>3
    <3> QED
      BY <3>2, <3>5 DEF Accounted
  <2> QED
    BY <1>9, <2>1, <2>2 DEF LiveEvent
<1>10. CASE LivePass(d)
  <2>1. CASE Disconnect(d) /\ Goto(d, "check")
    BY <2>1, DisconnectAccounts
  <2>2. CASE Goto(d, "live") /\ UNCHANGED <<capture, queue>>
    BY <1>10, <2>2, StoredGrows DEF LivePass, Accounted, Goto, TypeOK
  <2> QED
    BY <1>10, <2>1, <2>2 DEF LivePass
<1>11. CASE ThreadEnds(d)
  BY <1>11 DEF ThreadEnds, Accounted, Goto, TypeOK
<1> QED
  BY <1>1, <1>2, <1>3, <1>4, <1>5, <1>6, <1>7, <1>8, <1>9, <1>10, <1>11 DEF Thread

\* A longer queue still holds what it held.
LEMMA AppendKeeps ==
    ASSUME NEW s \in Seq(Event), NEW x \in Event
    PROVE  /\ DOMAIN s \subseteq DOMAIN Append(s, x)
           /\ \A i \in DOMAIN s : Append(s, x)[i] = s[i]
           /\ \E i \in DOMAIN Append(s, x) : Append(s, x)[i] = x
<1>1. Len(s) + 1 \in DOMAIN Append(s, x) /\ Append(s, x)[Len(s) + 1] = x
  OBVIOUS
<1> QED
  BY <1>1

\* So does every step around the thread.
LEMMA EnvironmentAccounts ==
    ASSUME TypeOK, NEW d \in Device, Accounted(d), [Next]_vars, Environment(d)
    PROVE  Accounted(d)'
<1>1. CASE CaptureRegisters(d) \/ CaptureGoesDeaf(d) \/ SetStatus(d)
  <2>1. /\ UNCHANGED <<pc, log, db, records, queue, unseen>>
        /\ capture[d] = "off" => capture'[d] = "off"
    BY <1>1 DEF CaptureRegisters, CaptureGoesDeaf, SetStatus, TypeOK, connection, monitor
  <2> QED
    BY <2>1 DEF Accounted, StoredAt
<1>2. ASSUME NEW x \in Event, queue' = [queue EXCEPT ![d] = Append(@, x)],
             capture[d] # "off", UNCHANGED <<pc, db, records, unseen>>,
             log' = log \/ \E p \in Punch : /\ x = Attendance(p)
                                            /\ log' = [log EXCEPT ![d] = @ \cup {p}]
      PROVE  Accounted(d)'
  <2>1. pc[d] \in {"live", "pass"}
    BY <1>2 DEF Accounted
  <2>2. queue[d] \in Seq(Event) /\ queue'[d] = Append(queue[d], x)
    BY <1>2 DEF TypeOK
  <2>3. ASSUME NEW p \in log'[d], p \notin (StoredAt(d) \cup unseen[d])
        PROVE  \E i \in DOMAIN queue'[d] : queue'[d][i] = Attendance(p)
    <3>1. CASE p \in log[d]
      BY <2>1, <2>2, <2>3, <3>1, AppendKeeps DEF Accounted
    <3>2. CASE p \notin log[d]
      <4>1. x = Attendance(p)
        BY <1>2, <2>3, <3>2 DEF TypeOK
      <4> QED
        BY <2>2, <4>1, AppendKeeps
    <3> QED
      BY <3>1, <3>2
  <2>4. StoredAt(d)' = StoredAt(d)
    BY <1>2 DEF StoredAt
  <2> QED
    BY <1>2, <2>1, <2>3, <2>4 DEF Accounted
<1>3. CASE CaptureFails(d)
  BY <1>2, <1>3, Events DEF CaptureFails, connection
<1>4. CASE OtherPunch(d)
  BY <1>2, <1>4, Events DEF OtherPunch, connection
<1>5. ASSUME NEW p \in Punch, MakePunch(d, p) PROVE Accounted(d)'
  <2>1. CASE capture[d] = "on"
    BY <1>2, <1>5, <2>1, Events DEF MakePunch, connection
  <2>2. CASE capture[d] # "on"
    <3>1. /\ UNCHANGED <<pc, db, records, capture, queue>>
          /\ log'[d] = log[d] \cup {p} /\ unseen'[d] = unseen[d] \cup {p}
      BY <1>5, <2>2 DEF MakePunch, connection, TypeOK
    <3> QED
      BY <3>1 DEF Accounted, StoredAt
  <2> QED
    BY <2>1, <2>2
<1> QED
  BY <1>1, <1>3, <1>4, <1>5 DEF Environment

LEMMA StepsAccounted ==
    ASSUME TypeOK, [Next]_vars, NEW e \in Device, Accounted(e)
    PROVE  Accounted(e)'
<1>1. ASSUME NEW d \in Device, StartThread(d) \/ Thread(d) \/ Environment(d)
      PROVE  Accounted(e)'
  <2>1. CASE e = d
    BY <1>1, <2>1, ThreadAccounts, EnvironmentAccounts
  <2>2. CASE e # d
    BY <1>1, <2>2, OthersUndisturbed, StoredGrows, AccountedUndisturbed
  <2> QED
    BY <2>1, <2>2
<1>2. CASE PollDevices \/ signal_handler \/ UNCHANGED vars
  <2>1. UNCHANGED Own(e)
    BY <1>2 DEF PollDevices, signal_handler, vars, Own, connection, monitor
  <2> QED
    BY <2>1, StoredGrows, AccountedUndisturbed
<1>3. CASE Restart
  BY <1>3 DEF Restart, Accounted
<1> QED
  BY <1>1, <1>2, <1>3 DEF Next
--------------------------------------------------------------------------------
(***************************************************************************)
(* Nothing is invented, and the collector implements the ledger.           *)
(***************************************************************************)

\* What one step may do to a terminal's log, its records and its queue.
LEMMA LocalSteps ==
    ASSUME TypeOK, [Next]_vars, NEW e \in Device
    PROVE  /\ log[e] \subseteq log'[e]
           /\ records'[e] \in {records[e], log[e]}
           /\ \/ queue'[e] \in {queue[e], <<>>}
              \/ queue[e] # <<>> /\ queue'[e] = Tail(queue[e])
              \/ \E x \in Event :
                    /\ queue'[e] = Append(queue[e], x)
                    /\ \A p \in Punch : x = Attendance(p) => p \in log'[e]
<1> USE DEF connection, monitor, timers
<1>1. ASSUME NEW d \in Device, Environment(d) PROVE records' = records
  BY <1>1 DEF Environment, CaptureRegisters, CaptureFails, CaptureGoesDeaf,
              MakePunch, OtherPunch, SetStatus
<1>2. ASSUME NEW d \in Device, StartThread(d) \/ Thread(d) PROVE log' = log
  BY <1>2 DEF StartThread, Thread, CheckActive, Connect, GetDeviceInformation, ReadLog, InsertLog, SaveNames, StartMonitor,
              LiveStop, LiveEmpty, LiveEvent, LiveDeactivated, LivePass, ThreadEnds
<1>3. ASSUME Thread(e)
      PROVE  /\ records'[e] \in {records[e], log[e]}
             /\ \/ queue'[e] \in {queue[e], <<>>}
                \/ queue[e] # <<>> /\ queue'[e] = Tail(queue[e])
  <2> USE DEF DeviceError, Disconnect, TypeOK
  <2>1. CASE CheckActive(e) \/ Connect(e) \/ ReadLog(e) \/ InsertLog(e) \/ SaveNames(e)
    BY <2>1 DEF CheckActive, Connect, GetDeviceInformation, ReadLog, InsertLog, SaveNames, StartMonitor
  <2>2. CASE LiveStop(e) \/ LiveEmpty(e) \/ LiveDeactivated(e) \/ LivePass(e) \/ ThreadEnds(e)
    BY <2>2 DEF LiveStop, LiveEmpty, LiveDeactivated, LivePass, ThreadEnds
  <2>3. CASE LiveEvent(e)
    BY <2>3 DEF LiveEvent, LiveSaved
  <2> QED
    BY <1>3, <2>1, <2>2, <2>3 DEF Thread
<1>4. CASE StartThread(e)
  BY <1>4 DEF StartThread
<1>5. CASE CaptureRegisters(e) \/ CaptureGoesDeaf(e) \/ SetStatus(e)
  BY <1>5 DEF CaptureRegisters, CaptureGoesDeaf, SetStatus
<1>6. CASE CaptureFails(e) \/ OtherPunch(e)
  <2>1. \A p \in Punch : Error # Attendance(p) /\ Untracked # Attendance(p)
    BY DEF Error, Untracked, Attendance
  <2> QED
    BY <1>6, <2>1, Events DEF CaptureFails, OtherPunch, TypeOK
<1>7. ASSUME NEW p \in Punch, MakePunch(e, p)
      PROVE  /\ log[e] \subseteq log'[e]
             /\ queue'[e] = queue[e] \/ \E x \in Event :
                    /\ queue'[e] = Append(queue[e], x)
                    /\ \A q \in Punch : x = Attendance(q) => q \in log'[e]
  <2>1. log'[e] = log[e] \cup {p}
    BY <1>7 DEF MakePunch, TypeOK
  <2>2. queue'[e] = queue[e] \/ queue'[e] = Append(queue[e], Attendance(p))
    BY <1>7 DEF MakePunch, TypeOK
  <2>3. \A q \in Punch : Attendance(p) = Attendance(q) => q = p
    BY DEF Attendance
  <2> QED
    BY <2>1, <2>2, <2>3, Events
<1>8. CASE Environment(e)
  BY <1>1, <1>5, <1>6, <1>7, <1>8
  DEF Environment, CaptureRegisters, CaptureFails, CaptureGoesDeaf, OtherPunch, SetStatus
<1>9. ASSUME NEW d \in Device \ {e}, StartThread(d) \/ Thread(d) \/ Environment(d)
      PROVE  UNCHANGED Own(e)
  BY <1>9, OthersUndisturbed
<1>10. CASE PollDevices \/ signal_handler \/ Restart \/ UNCHANGED vars
  BY <1>10 DEF PollDevices, signal_handler, Restart, vars
<1> QED
  BY <1>2, <1>3, <1>4, <1>8, <1>9, <1>10 DEF Next, Own

\* A stored punch was stored before, or the terminal's own thread delivered it.
LEMMA StoredFrom ==
    ASSUME TypeOK, [Next]_vars, NEW e \in Device, NEW p \in StoredAt(e)'
    PROVE  p \in StoredAt(e) \/ \E S \in Delivered(e) : p \in S
<1>1. PICK r \in db' : r.device_id \in IdKind \X {e} /\ r.punch = p
  BY DEF StoredAt
<1>2. ASSUME r \in db PROVE p \in StoredAt(e)
  BY <1>1, <1>2 DEF StoredAt
<1>3. ASSUME NEW d \in Device, Insertion(d), r \notin db
      PROVE  \E S \in Delivered(e) : p \in S
  <2>1. PICK S \in Delivered(d) : r \in Rows(d, S)
    BY <1>1, <1>3 DEF Insertion, InsertRecords, Fresh
  <2>2. r.device_id = device_id(d) /\ p \in S
    BY <1>1, <2>1 DEF Rows, PrepareRecord
  <2>3. d = e
    BY <1>1, <2>2 DEF device_id
  <2> QED
    BY <2>1, <2>2, <2>3
<1>4. ASSUME NEW d \in Device, Update(d) PROVE p \in StoredAt(e)
  <2>1. PICK q \in db : r = IF q.device_id = device_id(d) /\ UserOf[q.punch] \in user_map[d]
                               THEN [q EXCEPT !.named = TRUE]
                               ELSE q
    BY <1>1, <1>4 DEF Update, UpdateNames
  <2>2. r.device_id = q.device_id /\ r.punch = q.punch
    BY <2>1 DEF TypeOK, Row
  <2> QED
    BY <1>1, <2>1, <2>2 DEF StoredAt
<1> QED
  BY <1>1, <1>2, <1>3, <1>4, TableSteps

\* A step keeps what is stored, read and queued genuine.
LEMMA StepsGenuine ==
    ASSUME TypeOK, [Next]_vars, NEW e \in Device, Genuine(e)
    PROVE  Genuine(e)'
<1>1. queue[e] \in Seq(Event)
  BY DEF TypeOK
<1>2. ASSUME NEW S \in Delivered(e) PROVE S \subseteq log[e]
  <2>1. CASE S = records[e]
    BY <2>1 DEF Genuine
  <2>2. ASSUME NEW p \in Punch, queue[e] # <<>>, Head(queue[e]) = Attendance(p), S = {p}
        PROVE  S \subseteq log[e]
    <3>1. 1 \in DOMAIN queue[e] /\ queue[e][1] = Attendance(p)
      BY <1>1, <2>2
    <3> QED
      BY <2>2, <3>1 DEF Genuine
  <2> QED
    BY <2>1, <2>2 DEF Delivered
<1>3. StoredAt(e)' \subseteq log'[e]
  BY <1>2, StoredFrom, LocalSteps DEF Genuine
<1>4. records'[e] \subseteq log'[e]
  BY LocalSteps DEF Genuine
<1>5. ASSUME NEW i \in DOMAIN queue'[e], NEW p \in Punch, queue'[e][i] = Attendance(p)
      PROVE  p \in log'[e]
  <2>1. CASE queue'[e] \in {queue[e], <<>>}
    BY <1>5, <2>1, LocalSteps DEF Genuine
  <2>2. CASE queue[e] # <<>> /\ queue'[e] = Tail(queue[e])
    <3>1. i + 1 \in DOMAIN queue[e] /\ queue[e][i + 1] = Attendance(p)
      BY <1>1, <1>5, <2>2
    <3> QED
      BY <3>1, LocalSteps DEF Genuine
  <2>3. ASSUME NEW x \in Event, queue'[e] = Append(queue[e], x),
               \A q \in Punch : x = Attendance(q) => q \in log'[e]
        PROVE  p \in log'[e]
    <3>1. (i \in DOMAIN queue[e] /\ queue[e][i] = Attendance(p)) \/ x = Attendance(p)
      BY <1>1, <1>5, <2>3
    <3> QED
      BY <2>3, <3>1, LocalSteps DEF Genuine
  <2> QED
    BY <2>1, <2>2, <2>3, LocalSteps
<1> QED
  BY <1>3, <1>4, <1>5 DEF Genuine

\* At every point of every thread, nothing is lost and nothing invented between
\* a terminal's log, full_sync's records, the event queue and the table.
THEOREM PunchesAreAccounted == Spec => []PunchesAccounted
<1>1. Init => PunchesAccounted
  <2> SUFFICES ASSUME Init, NEW d \in Device PROVE Accounted(d) /\ Genuine(d)
    BY DEF PunchesAccounted
  <2>1. StoredAt(d) = {} /\ records[d] = {} /\ queue[d] = <<>>
    BY DEF Init, StoredAt
  <2> QED
    BY <2>1 DEF Init, Accounted, Genuine
<1>2. TypeOK /\ PunchesAccounted /\ [Next]_vars => PunchesAccounted'
  BY StepsAccounted, StepsGenuine DEF PunchesAccounted
<1> QED
  BY <1>1, <1>2, TypeCorrect, PTL DEF Spec

\* The collector implements the abstract ledger: punches only ever appear in the
\* table, and only under a terminal at which they were made.
THEOREM CollectorImplementsLedger == Spec => ImplementsLedger
<1>1. Init => Ledger!Init
  BY DEF Init, Ledger!Init, Made, Stored, StoredAt
<1>2. TypeOK /\ PunchesAccounted' /\ [Next]_vars => [Ledger!Next]_(Ledger!ledger)
  <2> SUFFICES ASSUME TypeOK, PunchesAccounted', [Next]_vars
               PROVE  [Ledger!Next]_(Ledger!ledger)
    OBVIOUS
  <2>1. Stored \subseteq Stored'
    BY StoredGrows DEF Stored
  <2>2. Stored' \subseteq Made'
    BY DEF Stored, Made, PunchesAccounted, Genuine
  <2>3. ASSUME NEW d \in Device, NEW p \in Punch, MakePunch(d, p)
        PROVE  Ledger!Next
    <3>1. Made' = Made \cup {<<d, p>>}
      BY <2>3 DEF MakePunch, Made, TypeOK
    <3>2. Stored' = Stored
      BY <2>3 DEF MakePunch, Stored, StoredAt
    <3> QED
      BY <3>1, <3>2 DEF Ledger!Next, Ledger!Make
  <2>4. ASSUME log' = log PROVE Ledger!Next
    <3>1. Made' = Made
      BY <2>4 DEF Made
    <3>2. Stored' \in SUBSET Made /\ Stored' = Stored \cup Stored'
      BY <2>1, <2>2, <3>1
    <3> QED
      BY <3>1, <3>2 DEF Ledger!Next, Ledger!Store
  <2>5. log' = log \/ \E d \in Device : \E p \in Punch : MakePunch(d, p)
    BY DEF Next, StartThread, Thread, CheckActive, Connect, GetDeviceInformation, ReadLog, InsertLog, SaveNames, StartMonitor,
           LiveStop, LiveEmpty, LiveEvent, LiveDeactivated, LivePass, ThreadEnds, Environment,
           CaptureRegisters, CaptureFails, CaptureGoesDeaf, OtherPunch, SetStatus,
           PollDevices, signal_handler, Restart, vars
  <2> QED
    BY <2>3, <2>4, <2>5
<1> QED
  BY <1>1, <1>2, TypeCorrect, PunchesAreAccounted, PTL
  DEF Spec, ImplementsLedger, Ledger!Spec
--------------------------------------------------------------------------------
(***************************************************************************)
(* Names are filled in.                                                    *)
(***************************************************************************)

\* A terminal that is monitored after a step was monitored before it, over the
\* same connection, or the step was save_employee_names.
LEMMA MonitoredBefore ==
    ASSUME TypeOK, [Next]_vars, NEW e \in Device, pc'[e] \in {"live", "pass"}
    PROVE  /\ pc[e] \in {"live", "pass"} \/ SaveNames(e)
           /\ ident'[e] = ident[e] /\ user_map'[e] = user_map[e]
<1> USE DEF connection, monitor, Goto, DeviceError, TypeOK
<1>1. ASSUME NEW d \in Device, StartThread(d) \/ CheckActive(d) \/ Connect(d) \/ ReadLog(d)
      PROVE  pc[e] \in {"live", "pass"} /\ ident'[e] = ident[e] /\ user_map'[e] = user_map[e]
  BY <1>1 DEF StartThread, CheckActive, Connect, GetDeviceInformation, ReadLog
<1>2. ASSUME NEW d \in Device,
             InsertLog(d) \/ LiveStop(d) \/ LiveEmpty(d) \/ LiveDeactivated(d) \/ ThreadEnds(d)
      PROVE  pc[e] \in {"live", "pass"} /\ ident' = ident /\ user_map' = user_map
  BY <1>2 DEF InsertLog, LiveStop, LiveEmpty, LiveDeactivated, ThreadEnds
<1>3. ASSUME NEW d \in Device, SaveNames(d)
      PROVE  /\ pc[e] \in {"live", "pass"} \/ d = e
             /\ ident' = ident /\ user_map' = user_map
  BY <1>3 DEF SaveNames, StartMonitor
<1>4. ASSUME NEW d \in Device, LiveEvent(d) \/ LivePass(d)
      PROVE  pc[e] \in {"live", "pass"} /\ ident' = ident /\ user_map' = user_map
  <2>1. pc[d] \in {"live", "pass"} /\ ident' = ident /\ user_map' = user_map
    BY <1>4 DEF LiveEvent, LivePass
  <2>2. \E next \in PC : pc' = [pc EXCEPT ![d] = next]
    BY <1>4 DEF LiveEvent, LiveSaved, LivePass, PC
  <2>3. e # d => pc'[e] = pc[e]
    BY <2>2
  <2> QED
    BY <2>1, <2>3
<1>5. ASSUME NEW d \in Device, Environment(d)
      PROVE  UNCHANGED <<pc, ident, user_map>>
  BY <1>5 DEF Environment, CaptureRegisters, CaptureFails, CaptureGoesDeaf,
              MakePunch, OtherPunch, SetStatus
<1>6. CASE PollDevices \/ signal_handler \/ UNCHANGED vars
  BY <1>6 DEF PollDevices, signal_handler, vars
<1>7. CASE Restart
  BY <1>7 DEF Restart
<1> QED
  BY <1>1, <1>2, <1>3, <1>4, <1>5, <1>6, <1>7 DEF Next, Thread

\* Failed calls stay on the count.
LEMMA FaultsStay ==
    ASSUME TypeOK, [Next]_vars, faults' = 0
    PROVE  faults = 0
<1>1. faults' >= faults \/ faults' = faults
  <2>1. ASSUME Fault PROVE faults' >= faults
    BY <2>1, CollectorAssumption DEF Fault, TypeOK
  <2>2. ASSUME NEW d \in Device, StartThread(d) \/ Thread(d) PROVE Fault \/ faults' = faults
    BY <2>2 DEF StartThread, Thread, CheckActive, Connect, GetDeviceInformation, ReadLog, InsertLog, SaveNames, StartMonitor,
                LiveStop, LiveEmpty, LiveEvent, LiveSaved, LiveDeactivated, LivePass,
                ThreadEnds, NoFault, budgets
  <2>3. ASSUME NEW d \in Device, Environment(d) PROVE Fault \/ faults' = faults
    BY <2>3 DEF Environment, CaptureRegisters, CaptureFails, CaptureGoesDeaf,
                MakePunch, OtherPunch, SetStatus, budgets
  <2>4. CASE PollDevices \/ signal_handler \/ Restart \/ UNCHANGED vars
    BY <2>4 DEF PollDevices, signal_handler, Restart, vars, budgets
  <2> QED
    BY <2>1, <2>2, <2>3, <2>4 DEF Next
<1> QED
  BY <1>1, CollectorAssumption DEF TypeOK

\* What NamesFilled says of one terminal and one row.
NameDue(d, r) == r.device_id = device_id(d) /\ UserOf[r.punch] \in user_map[d]

\* As long as no call failed, a monitored terminal's rows carry the names of
\* the users that were read when it was connected.
THEOREM NamesAlwaysFilled == Spec => []NamesFilled
<1>1. Init => NamesFilled
  BY DEF Init, NamesFilled
<1>2. TypeOK /\ NamesFilled /\ [Next]_vars => NamesFilled'
  <2> SUFFICES ASSUME TypeOK, NamesFilled, [Next]_vars,
                      NEW e \in Device, NEW r \in db',
                      pc'[e] \in {"live", "pass"}, faults' = 0, NameDue(e, r)'
               PROVE  r.named
    BY DEF NamesFilled, NameDue
  <2>1. NameDue(e, r) /\ faults = 0
    BY MonitoredBefore, FaultsStay DEF NameDue, device_id
  <2>2. CASE SaveNames(e)
    <3>1. db' = UpdateNames(db, device_id(e), user_map[e])
      BY <2>1, <2>2, CollectorAssumption DEF SaveNames, StartMonitor, Fault, TypeOK
    <3>2. PICK q \in db : r = IF NameDue(e, q) THEN [q EXCEPT !.named = TRUE] ELSE q
      BY <3>1 DEF UpdateNames, NameDue
    <3> QED
      BY <2>1, <3>2 DEF TypeOK, Row
  <2>3. CASE pc[e] \in {"live", "pass"}
    <3>1. \A q \in db : NameDue(e, q) => q.named
      BY <2>1, <2>3 DEF NamesFilled, NameDue
    <3>2. ASSUME NEW d \in Device, Insertion(d), r \notin db PROVE r.named
      <4>1. PICK S \in Delivered(d) : r \in Rows(d, S)
        BY <3>2 DEF Insertion, InsertRecords, Fresh
      <4>2. d = e /\ r.named = (UserOf[r.punch] \in user_map[d])
        BY <2>1, <4>1 DEF Rows, PrepareRecord, NameDue, device_id
      <4> QED
        BY <2>1, <4>2 DEF NameDue
    <3>3. ASSUME NEW d \in Device, Update(d) PROVE r.named
      <4>1. PICK q \in db : r = IF NameDue(d, q) THEN [q EXCEPT !.named = TRUE] ELSE q
        BY <3>3 DEF Update, UpdateNames, NameDue
      <4>2. NameDue(e, q) /\ (q.named => r.named)
        BY <2>1, <4>1 DEF NameDue, TypeOK, Row
      <4> QED
        BY <3>1, <4>2
    <3> QED
      BY <2>1, <3>1, <3>2, <3>3, TableSteps
  <2> QED
    BY <2>2, <2>3, MonitoredBefore
<1> QED
  BY <1>1, <1>2, TypeCorrect, PTL DEF Spec
--------------------------------------------------------------------------------
(***************************************************************************)
(* The contract of DeviceThreads.                                          *)
(***************************************************************************)

\* What going on, leaving the loop and ending do to the contract's sets.
LEMMA RunningStays ==
    ASSUME TypeOK, NEW d \in Device, pc[d] \notin {"none", "ending"},
           NEW next \in PC \ {"none", "ending"}, Goto(d, next)
    PROVE  Running' = Running /\ Leaving' = Leaving
BY DEF Running, Leaving, Goto, TypeOK

LEMMA RunningLeaves ==
    ASSUME TypeOK, NEW d \in Device, pc[d] # "none", Goto(d, "ending")
    PROVE  Running' = Running /\ Leaving' = Leaving \cup {d}
BY DEF Running, Leaving, Goto, TypeOK

LEMMA RunningLoses ==
    ASSUME TypeOK, NEW d \in Device, Goto(d, "none")
    PROVE  Running' = Running \ {d} /\ Leaving' = Leaving \ {d}
BY DEF Running, Leaving, Goto, TypeOK

\* A thread's step: it goes on, it leaves its loop for one of the contract's
\* reasons, or it has left it and ends.
LEMMA ThreadImplements ==
    ASSUME TypeOK, NEW d \in Device, Thread(d)
    PROVE  [Threads!Next]_(Threads!devices)
<1>1. UNCHANGED <<status, polled, stop>>
  BY DEF Thread, CheckActive, Connect, ReadLog, InsertLog, SaveNames, LiveStop, LiveEmpty,
         LiveEvent, LiveDeactivated, LivePass, ThreadEnds, control
<1>2. restarts' = restarts
  BY DEF Thread, CheckActive, Connect, GetDeviceInformation, ReadLog, InsertLog, SaveNames,
         LiveStop, LiveEmpty, LiveEvent, LiveSaved, LiveDeactivated, LivePass, ThreadEnds,
         Fault, NoFault, budgets
<1>3. Active' = Active
  BY <1>1 DEF Active
<1>4. ASSUME pc[d] \notin {"none", "ending"},
             NEW next \in PC \ {"none", "ending"}, Goto(d, next)
      PROVE  UNCHANGED Threads!devices
  <2>1. Running' = Running /\ Leaving' = Leaving
    BY <1>4, RunningStays
  <2> QED
    BY <1>1, <1>2, <1>3, <2>1 DEF Threads!devices, Threads!threads
<1>5. ASSUME pc[d] \notin {"none", "ending"}, Goto(d, "ending"), stop \/ status[d] = "inactive"
      PROVE  Threads!Notice(d)
  <2>1. Running' = Running /\ Leaving' = Leaving \cup {d}
    BY <1>5, RunningLeaves
  <2>2. d \in Running \ Leaving /\ (stop \/ d \notin Active)
    BY <1>5 DEF Running, Leaving, Active
  <2> QED
    BY <1>1, <1>2, <1>3, <2>1, <2>2 DEF Threads!Notice
<1>6. ASSUME ThreadEnds(d) PROVE Threads!End(d)
  <2>1. Running' = Running \ {d} /\ Leaving' = Leaving \ {d}
    BY <1>6, RunningLoses DEF ThreadEnds
  <2>2. d \in Leaving
    BY <1>6 DEF ThreadEnds, Leaving
  <2> QED
    BY <1>1, <1>2, <1>3, <2>1, <2>2 DEF Threads!End
<1>7. \/ ThreadEnds(d)
      \/ /\ pc[d] \notin {"none", "ending"}
         /\ \/ \E next \in PC \ {"none", "ending"} : Goto(d, next)
            \/ Goto(d, "ending") /\ (stop \/ status[d] = "inactive")
  <2>1. CASE CheckActive(d) \/ Connect(d) \/ LiveEmpty(d)
    BY <2>1 DEF CheckActive, Connect, LiveEmpty, DeviceError, PC
  <2>2. CASE ReadLog(d)
    BY <2>2 DEF ReadLog, DeviceError, PC
  <2>3. CASE InsertLog(d)
    BY <2>3 DEF InsertLog, DeviceError, PC
  <2>4. CASE SaveNames(d) \/ LivePass(d)
    BY <2>4 DEF SaveNames, StartMonitor, LivePass, PC
  <2>5. CASE LiveEvent(d)
    BY <2>5 DEF LiveEvent, LiveSaved, DeviceError, PC
  <2>6. CASE LiveStop(d) \/ LiveDeactivated(d)
    BY <2>6 DEF LiveStop, LiveDeactivated
  <2> QED
    BY <2>1, <2>2, <2>3, <2>4, <2>5, <2>6 DEF Thread
<1>8. CASE ThreadEnds(d)
  BY <1>6, <1>8 DEF Threads!Next
<1>9. CASE /\ pc[d] \notin {"none", "ending"}
           /\ \E next \in PC \ {"none", "ending"} : Goto(d, next)
  BY <1>4, <1>9
<1>10. CASE /\ pc[d] \notin {"none", "ending"}
            /\ Goto(d, "ending") /\ (stop \/ status[d] = "inactive")
  BY <1>5, <1>10 DEF Threads!Next
<1> QED
  BY <1>7, <1>8, <1>9, <1>10

LEMMA EnvironmentImplements ==
    ASSUME TypeOK, NEW d \in Device, Environment(d)
    PROVE  [Threads!Next]_(Threads!devices)
<1>1. UNCHANGED <<pc, polled, stop, restarts>>
  BY DEF Environment, CaptureRegisters, CaptureFails, CaptureGoesDeaf,
         MakePunch, OtherPunch, SetStatus, control, budgets, Fault
<1>2. Running' = Running /\ Leaving' = Leaving
  BY <1>1 DEF Running, Leaving
<1>3. CASE SetStatus(d)
  <2>1. Active' = IF d \in Active THEN Active \ {d} ELSE Active \cup {d}
    BY <1>3 DEF SetStatus, Active, TypeOK
  <2> QED
    BY <1>1, <1>2, <2>1 DEF Threads!Switch, Threads!Next, Threads!threads
<1>4. CASE status' = status
  BY <1>1, <1>2, <1>4 DEF Threads!devices, Threads!threads, Active
<1> QED
  BY <1>3, <1>4 DEF Environment, CaptureRegisters, CaptureFails, CaptureGoesDeaf,
                    MakePunch, OtherPunch

\* The device threads implement the contract of DeviceThreads: whatever fails,
\* and wherever, a thread that was started stays in its loop until it has seen a
\* stop or its device inactive, or the process ends.
THEOREM CollectorImplementsThreads == Spec => ImplementsDeviceThreads
<1>1. Init => Threads!Init
  BY DEF Init, Threads!Init, Active, Running, Leaving
<1>2. TypeOK /\ [Next]_vars => [Threads!Next]_(Threads!devices)
  <2> SUFFICES ASSUME TypeOK, [Next]_vars PROVE [Threads!Next]_(Threads!devices)
    OBVIOUS
  <2>1. ASSUME NEW d \in Device, StartThread(d) PROVE Threads!Start(d)
    <3>1. Running' = Running \cup {d} /\ Leaving' = Leaving
      BY <2>1 DEF StartThread, Goto, Running, Leaving, TypeOK
    <3>2. d \in polled \ Running /\ polled' = polled \ {d}
      BY <2>1 DEF StartThread, Running
    <3>3. UNCHANGED <<Active, stop, restarts>>
      BY <2>1 DEF StartThread, Active, budgets
    <3> QED
      BY <3>1, <3>2, <3>3 DEF Threads!Start
  <2>2. ASSUME NEW d \in Device, Thread(d) \/ Environment(d)
        PROVE  [Threads!Next]_(Threads!devices)
    BY <2>2, ThreadImplements, EnvironmentImplements
  <2>3. CASE PollDevices
    <3>1. /\ ~ stop /\ polled' \in SUBSET Active
          /\ UNCHANGED <<Active, Running, Leaving, stop, restarts>>
      BY <2>3 DEF PollDevices, Active, Running, Leaving, budgets
    <3> QED
      BY <3>1 DEF Threads!Poll, Threads!Next, Threads!threads
  <2>4. CASE signal_handler
    <3>1. stop' = TRUE /\ UNCHANGED <<Active, polled, Running, Leaving, restarts>>
      BY <2>4 DEF signal_handler, Active, Running, Leaving, budgets
    <3> QED
      BY <3>1 DEF Threads!Signal, Threads!Next, Threads!threads
  <2>5. CASE Restart
    <3>1. /\ polled' = {} /\ Running' = {} /\ Leaving' = {} /\ stop' = FALSE
          /\ restarts' = restarts + 1 /\ Active' = Active
      BY <2>5 DEF Restart, Active, Running, Leaving
    <3> QED
      BY <3>1 DEF Threads!Restart, Threads!Next
  <2>6. CASE UNCHANGED vars
    BY <2>6 DEF vars, control, budgets, Threads!devices, Threads!threads, Active, Running, Leaving
  <2> QED
    BY <2>1, <2>2, <2>3, <2>4, <2>5, <2>6 DEF Next, Threads!Next
<1> QED
  BY <1>1, <1>2, TypeCorrect, PTL DEF Spec, ImplementsDeviceThreads, Threads!Spec
--------------------------------------------------------------------------------
(***************************************************************************)
(* Why a batch can be rejected.                                            *)
(***************************************************************************)

\* Every connection had the serial number, and so has every row.
SerialEverywhere ==
    /\ \A d \in Device : ident[d] = "serial"
    /\ \A r \in db : r.device_id[1] = "serial"

\* A connection without the serial number is a failed call.
LEMMA SerialRead ==
    ASSUME TypeOK, NEW d \in Device, Connect(d), \A e \in Device : ident[e] = "serial",
           faults' = 0
    PROVE  \A e \in Device : ident'[e] = "serial"
<1>1. ~ Fault
  BY CollectorAssumption DEF Fault, TypeOK
<1> QED
  BY <1>1 DEF Connect, GetDeviceInformation, connection, TypeOK

LEMMA SerialStays ==
    ASSUME TypeOK, faults = 0 => SerialEverywhere, [Next]_vars, faults' = 0
    PROVE  SerialEverywhere'
<1>0. SerialEverywhere
  BY FaultsStay
<1> USE <1>0 DEF SerialEverywhere
<1>1. ASSUME NEW d \in Device, Connect(d) PROVE \A e \in Device : ident'[e] = "serial"
  BY <1>1, SerialRead
<1>2. ASSUME NEW d \in Device, StartThread(d) \/ (Thread(d) /\ ~ Connect(d)) \/ Environment(d)
      PROVE  ident' = ident
  BY <1>2 DEF StartThread, Thread, CheckActive, ReadLog, InsertLog, SaveNames, LiveStop,
              LiveEmpty, LiveEvent, LiveDeactivated, LivePass, ThreadEnds, Environment,
              CaptureRegisters, CaptureFails, CaptureGoesDeaf, MakePunch, OtherPunch,
              SetStatus, connection
<1>3. CASE PollDevices \/ signal_handler \/ Restart \/ UNCHANGED vars
  BY <1>3 DEF PollDevices, signal_handler, Restart, vars, connection
<1>4. \A e \in Device : ident'[e] = "serial"
  BY <1>1, <1>2, <1>3 DEF Next, Thread
<1>5. ASSUME NEW d \in Device, Insertion(d), NEW r \in db' PROVE r.device_id[1] = "serial"
  <2>1. r \in db \/ r.device_id = device_id(d)
    BY <1>5 DEF Insertion, InsertRecords, Fresh, Rows, PrepareRecord
  <2> QED
    BY <2>1 DEF device_id
<1>6. ASSUME NEW d \in Device, Update(d), NEW r \in db' PROVE r.device_id[1] = "serial"
  <2>1. PICK q \in db : r.device_id = q.device_id
    BY <1>6 DEF Update, UpdateNames, TypeOK, Row
  <2> QED
    BY <2>1
<1> QED
  BY <1>4, <1>5, <1>6, TableSteps

\* Under serial numbers only, a batch of a terminal's own punches collides with
\* nothing but the rows of another terminal.
LEMMA ClashIsForeign ==
    ASSUME TypeOK, PunchesAccounted, SerialEverywhere, NEW d \in Device,
           NEW S \in SUBSET Punch, HashClash(db, Rows(d, S))
    PROVE  \E e \in Device \ {d} : S \cap log[e] \cap StoredAt(e) # {}
<1> DEFINE batch == Rows(d, S)
<1>1. PICK r \in Fresh(db, batch) : \E q \in db \cup Fresh(db, batch) :
          ~ SameKey(r, q) /\ RecordHash(r) = RecordHash(q)
  BY DEF HashClash
<1>2. PICK q \in db \cup Fresh(db, batch) : ~ SameKey(r, q) /\ RecordHash(r) = RecordHash(q)
  BY <1>1
<1>3. r.device_id = <<"serial", d>> /\ r.punch \in S
  BY <1>1 DEF Fresh, Rows, PrepareRecord, device_id, SerialEverywhere
<1>4. q.punch = r.punch
  BY <1>2 DEF RecordHash
<1>5. q \in db
  BY <1>2, <1>3, <1>4 DEF Fresh, Rows, PrepareRecord, device_id, SerialEverywhere, SameKey
<1>6. PICK e \in Device : q.device_id = <<"serial", e>>
  BY <1>5 DEF SerialEverywhere, TypeOK, Row, DeviceId
<1>7. e # d
  BY <1>2, <1>3, <1>4, <1>6 DEF SameKey
<1>8. q.punch \in StoredAt(e)
  BY <1>5, <1>6 DEF StoredAt, IdKind
<1>9. q.punch \in log[e]
  BY <1>8 DEF PunchesAccounted, Genuine
<1> QED
  BY <1>3, <1>4, <1>7, <1>8, <1>9

\* insert_records rejects what a thread delivers only after a failing call, or
\* because another terminal has logged and stored a punch that prints the same:
\* the two conditions that the runs `resync' and `shared' show to happen.
THEOREM RejectionsExplained == Spec => []RejectionExplained
<1> DEFINE Inv == faults = 0 => SerialEverywhere
<1>1. Init => Inv
  BY DEF Init, SerialEverywhere
<1>2. TypeOK /\ Inv /\ [Next]_vars => Inv'
  BY SerialStays
<1>3. TypeOK /\ PunchesAccounted /\ Inv => RejectionExplained
  <2> SUFFICES ASSUME TypeOK, PunchesAccounted, Inv, NEW d \in Device,
                      HashClash(db, Rows(d, InHand(d))), ~ (faults > 0)
               PROVE  \E e \in Device \ {d} : InHand(d) \cap log[e] \cap StoredAt(e) # {}
    BY DEF RejectionExplained
  <2>1. faults = 0
    BY CollectorAssumption DEF TypeOK
  <2>2. InHand(d) \in SUBSET Punch
    BY DEF InHand, TypeOK
  <2> HIDE DEF Inv
  <2> QED
    BY <2>1, <2>2, ClashIsForeign DEF Inv
<1> HIDE DEF Inv
<1> QED
  BY <1>1, <1>2, <1>3, TypeCorrect, PunchesAreAccounted, PTL DEF Spec
================================================================================
