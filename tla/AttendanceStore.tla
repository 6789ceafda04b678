---------------------------- MODULE AttendanceStore ----------------------------
(***************************************************************************)
(* The table zkt_attendance as the collector writes it (database.py,       *)
(* create_table, insert_records and update_attendance_names), and the      *)
(* record collector.py prepares for it.  Constant-level operators only:    *)
(* the modules that own a table variable apply them.                       *)
(*                                                                         *)
(* A punch is what one pyzk Attendance object carries: employee, time,     *)
(* status and punch code.  It does not carry the terminal it was made at.  *)
(* A row keeps the columns that some statement tests: the device identity, *)
(* the punch, and whether the employee name is filled in.                  *)
(***************************************************************************)
CONSTANTS
    Device,     \* the physical terminals
    Punch,      \* the punches: (user_id, timestamp, status, punch)
    User,       \* the employees
    UserOf      \* the employee of a punch

ASSUME StoreAssumption == UserOf \in [Punch -> User]

(***************************************************************************)
(* The identity the collector computes for a terminal: its serial number,  *)
(* or "ip:port" when the serial number could not be read.                  *)
(***************************************************************************)
IdKind == {"serial", "address"}

DeviceId == IdKind \X Device

Row == [device_id : DeviceId, punch : Punch, named : BOOLEAN]

\* Slip for a mutant run: the record is prepared without looking up the name.
PrepareNamelessRecord(id, names, p) ==
    [device_id |-> id, punch |-> p, named |-> FALSE]

(***************************************************************************)
(* collector.py, prepare_record: the row of punch p read over a connection *)
(* whose identity is id and whose user map names the employees in names.   *)
(***************************************************************************)
PrepareRecord(id, names, p) ==
    [device_id |-> id, punch |-> p, named |-> UserOf[p] \in names]

\* Slip for a mutant run: the hash that database.make_record_hash would make.
DeviceRecordHash(r) == <<r.device_id, r.punch>>

(***************************************************************************)
(* record_hash is str(attendance), the printed punch: unlike               *)
(* database.make_record_hash, which nothing calls, it forgets the device.  *)
(***************************************************************************)
RecordHash(r) == r.punch

\* UNIQUE (device_id, user_id, attendance_time, status, punch).
SameKey(r, q) == r.device_id = q.device_id /\ r.punch = q.punch

\* The rows of a batch that ON CONFLICT (composite key) DO NOTHING lets through.
Fresh(table, batch) == {r \in batch : \A q \in table : ~ SameKey(r, q)}

(***************************************************************************)
(* ON CONFLICT names the composite constraint only.  A fresh row whose     *)
(* record_hash (UNIQUE too) is already taken raises UniqueViolation and    *)
(* the transaction, hence the whole batch, is rolled back.                 *)
(***************************************************************************)
HashClash(table, batch) ==
    \E r \in Fresh(table, batch) :
        \E q \in table \cup Fresh(table, batch) :
            ~ SameKey(r, q) /\ RecordHash(r) = RecordHash(q)

\* insert_records: COPY to the staging table, INSERT ... SELECT, commit.
InsertRecords(table, batch) == table \cup Fresh(table, batch)

\* Slip for a mutant run: a name that is not in the user map is erased.
OverwriteNames(table, id, names) ==
    {IF r.device_id = id
        THEN [r EXCEPT !.named = UserOf[r.punch] \in names]
        ELSE r : r \in table}

\* update_attendance_names: fill in the name of the identity's nameless rows.
UpdateNames(table, id, names) ==
    {IF r.device_id = id /\ UserOf[r.punch] \in names
        THEN [r EXCEPT !.named = TRUE]
        ELSE r : r \in table}
================================================================================
