------------------------------ MODULE SinceCursor ------------------------------
(***************************************************************************)
(* The polling cursor of the REST API (web_database.py, api.py): a client  *)
(* takes latest_id from /stats and asks /attendance for the rows with a    *)
(* greater id, in id order, a page at a time.  The collector's device      *)
(* threads insert the rows meanwhile: an id is drawn from the BIGSERIAL    *)
(* sequence when a row is inserted, the row is visible when its            *)
(* transaction commits, and a transaction that is rolled back leaves a gap.*)
(*                                                                         *)
(* get_attendance_page reads a page and then counts, two statements of a   *)
(* READ COMMITTED transaction: each sees what is committed when it starts. *)
(***************************************************************************)
EXTENDS Integers, FiniteSets

CONSTANTS
    Writer,     \* the device threads that insert rows
    PerPage,    \* rows per page
    MaxId       \* bound: ids drawn from the sequence

ASSUME CursorAssumption == PerPage \in Nat \ {0} /\ MaxId \in Nat

Id == 1..MaxId

VARIABLES
    last_id,    \* the last id drawn
    inserted,   \* writer -> the ids of its open transaction
    rows,       \* the committed rows, by id
    latest_id,  \* the cached stats: MAX(id)
    counted,    \* ghost: the rows latest_id was computed from
    client,     \* where the client is
    follow,     \* TRUE: it fetches the next page of the same poll at once
    since_id,   \* the cursor of the poll
    page,       \* the number of the page it asked for
    records,    \* the page it got
    cursor,     \* the greatest id it got
    known,      \* ghost: the rows that were there before it began
    delivered,  \* ghost: the rows it got
    twice       \* ghost: the rows it got more than once

sequence == <<last_id, inserted>>
stats == <<latest_id, counted>>
poll == <<since_id, page, records>>
history == <<known, delivered, twice>>
vars == <<sequence, rows, stats, client, follow, poll, cursor, history>>

Greatest(S) == CHOOSE n \in S \cup {0} : \A m \in S : m <= n

Init ==
    /\ last_id = 0
    /\ inserted = [w \in Writer |-> {}]
    /\ rows = {}
    /\ latest_id = 0 /\ counted = {}
    /\ client = "new"
    /\ follow \in BOOLEAN
    /\ since_id = 0 /\ page = 1 /\ records = {} /\ cursor = 0
    /\ known = {} /\ delivered = {} /\ twice = {}
--------------------------------------------------------------------------------
(***************************************************************************)
(* The collector: insert_records in the transaction of one device thread.  *)
(***************************************************************************)
InsertRow(w) ==
    /\ last_id < MaxId
    /\ last_id' = last_id + 1
    /\ \/ inserted' = [inserted EXCEPT ![w] = @ \cup {last_id'}]
       \/ UNCHANGED inserted    \* ON CONFLICT DO NOTHING; the id is spent
    /\ UNCHANGED <<rows, stats, client, follow, poll, cursor, history>>

Commit(w) ==
    /\ inserted[w] # {}
    /\ rows' = rows \cup inserted[w]
    /\ inserted' = [inserted EXCEPT ![w] = {}]
    /\ UNCHANGED <<last_id, stats, client, follow, poll, cursor, history>>

Rollback(w) ==
    /\ inserted[w] # {}
    /\ inserted' = [inserted EXCEPT ![w] = {}]
    /\ UNCHANGED <<last_id, rows, stats, client, follow, poll, cursor, history>>
--------------------------------------------------------------------------------
(***************************************************************************)
(* The web server and its client.                                          *)
(***************************************************************************)

\* _load_stats, when the cached value has expired.
LoadStats ==
    /\ latest_id' = Greatest(rows) /\ counted' = rows
    /\ UNCHANGED <<sequence, rows, client, follow, poll, cursor, history>>

\* The client begins: GET /stats.
GetStats ==
    /\ client = "new"
    /\ client' = "idle"
    /\ cursor' = latest_id /\ known' = counted
    /\ UNCHANGED <<sequence, rows, stats, follow, poll, delivered, twice>>

\* Slip for a mutant run: since_id itself matches.
MatchingFrom == {i \in rows : i >= since_id}

\* build_filters, _resolve_sort: id > since_id, sort_by=id, sort_dir=asc.
Matching == {i \in rows : i > since_id}

Rank(i) == Cardinality({j \in Matching : j < i})

\* Slip for a mutant run: pages are counted from 0.
PageFromZero == {i \in Matching : page * PerPage <= Rank(i) /\ Rank(i) < (page + 1) * PerPage}

\* Slip for a mutant run: ORDER BY id DESC, as without sort_dir.
PageDescending ==
    {i \in Matching :
        LET rank == Cardinality({j \in Matching : j > i})
        IN  (page - 1) * PerPage <= rank /\ rank < page * PerPage}

\* LIMIT per_page OFFSET (page - 1) * per_page.
Page == {i \in Matching : (page - 1) * PerPage <= Rank(i) /\ Rank(i) < page * PerPage}

TotalPages == (Cardinality(Matching) + PerPage - 1) \div PerPage

\* Slip for a mutant run: the first page is page 0.
StartPollAtZero ==
    /\ client = "idle"
    /\ client' = "read"
    /\ since_id' = cursor /\ page' = 0 /\ records' = {}
    /\ UNCHANGED <<sequence, rows, stats, follow, cursor, history>>

StartPoll ==
    /\ client = "idle"
    /\ client' = "read"
    /\ since_id' = cursor /\ page' = 1 /\ records' = {}
    /\ UNCHANGED <<sequence, rows, stats, follow, cursor, history>>

\* get_attendance_page: the query for the records.
ReadPage ==
    /\ client = "read"
    /\ client' = "count"
    /\ records' = Page
    /\ UNCHANGED <<sequence, rows, stats, follow, since_id, page, cursor, history>>

(***************************************************************************)
(* get_attendance_page: the count query, get_attendance_api_data: next.    *)
(* The client processes the page, advances its cursor and, if it follows   *)
(* next, asks for that page of the same poll.                              *)
(***************************************************************************)
CountRows ==
    /\ client = "count"
    /\ delivered' = delivered \cup records
    /\ twice' = twice \cup (delivered \cap records)
    /\ cursor' = Greatest(records \cup {cursor})
    /\ IF follow /\ page < TotalPages
          THEN client' = "read" /\ page' = page + 1
          ELSE client' = "idle" /\ UNCHANGED page
    /\ UNCHANGED <<sequence, rows, stats, follow, since_id, records, known>>

Request == StartPoll \/ ReadPage \/ CountRows

Next ==
    \/ \E w \in Writer : InsertRow(w) \/ Commit(w) \/ Rollback(w)
    \/ LoadStats
    \/ GetStats
    \/ Request

(***************************************************************************)
(* Fairness: a client that polls goes on polling, the server answers, and  *)
(* an open transaction ends one way or the other.                          *)
(***************************************************************************)
Fairness ==
    /\ WF_vars(Request)
    /\ \A w \in Writer : WF_vars(Commit(w) \/ Rollback(w))

Spec == Init /\ [][Next]_vars

FairSpec == Spec /\ Fairness
--------------------------------------------------------------------------------
(***************************************************************************)
(* Properties.                                                             *)
(***************************************************************************)

\* The values every variable ranges over.
TypeOK ==
    /\ last_id \in 0..MaxId
    /\ inserted \in [Writer -> SUBSET Id]
    /\ rows \subseteq Id
    /\ latest_id \in 0..MaxId /\ counted \subseteq Id
    /\ client \in {"new", "idle", "read", "count"}
    /\ follow \in BOOLEAN
    /\ since_id \in 0..MaxId /\ page \in Nat \ {0} /\ records \subseteq Id
    /\ cursor \in 0..MaxId
    /\ known \subseteq Id /\ delivered \subseteq Id /\ twice \subseteq Id

\* What the client has not got and did not know, it will be asked for later:
\* no row is behind its cursor.
NothingBehind == \A i \in rows \ (known \cup delivered \cup records) : i > cursor

\* Between polls, a client that asks from its new cursor every time has no
\* unread row behind the cursor (build_filters: "it can't miss ... rows").
PollMissesNothing == client = "idle" /\ ~ follow => NothingBehind

\* The same for a client that fetches the next page of a poll at once, as
\* the description of since_id in openapi_spec.py recommends.
PagedPollMissesNothing == client = "idle" /\ follow => NothingBehind

\* No row is handed out twice (build_filters: "it can't ... double-count").
NoRowTwice == twice = {}

\* What a client that asks from its new cursor got, with what it began behind; what
\* a client gets that follows `next' is not part of this promise.
Feed == INSTANCE AttendanceFeed
    WITH read <- known \cup (IF follow THEN {} ELSE delivered)

\* A client that asks from its new cursor after every page reads a log in order,
\* page after page and poll after poll, from a cached latest_id on: no page has a
\* row that comes after one it has yet to get.
ImplementsFeed == Feed!Spec

\* A committed row reaches every client that began before, and keeps polling
\* from its cursor.
EveryRowDelivered ==
    \A i \in Id :
        (i \in rows \ known /\ client # "new" /\ ~ follow) ~> i \in delivered
================================================================================
