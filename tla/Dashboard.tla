------------------------------- MODULE Dashboard -------------------------------
(***************************************************************************)
(* The attendance page of the dashboard (attendance.js) against the API    *)
(* and a table that grows: the filter form with its debounced reload, the  *)
(* sort headers, "Prev" and "Next", requests that are answered in any      *)
(* order or not at all, and the parts of the page each answer replaces.    *)
(***************************************************************************)
EXTENDS AttendanceQuery

CONSTANTS
    FormValues,     \* what the filter form can be set to: sets of arguments
    NewRows,        \* the attendance records without their ids
    Sorts,          \* the columns with a sort header
    Calls,          \* arguments an API client may send
    PerPage,        \* PER_PAGE of attendance.js
    MaxRows,        \* bound: records in the table
    MaxRequests     \* bound: page loads

NoFilter == <<>>

\* The form has no field that takes a number; its page is sorted by time first.
ASSUME DashboardAssumption ==
    /\ \A f \in FormValues : DOMAIN f \cap NumberFilters = {}
    /\ NewRows \subseteq Columns
    /\ \A args \in Calls : IsCall(args)
    /\ "attendance_time" \in Sorts
    /\ PerPage \in 1..MaxPerPage
    /\ MaxRows \in Nat /\ MaxRequests \in Nat \ {0}

VARIABLES
    rows,       \* zkt_attendance
    form,       \* the filter form
    sort,       \* state.sortBy, state.sortDir
    page,       \* state.page
    totalPages, \* state.totalPages
    timer,      \* the debounced reload is due
    sent,       \* the number of the last page load
    requests,   \* page loads without an answer
    table,      \* what tableBody shows, and the load it is from
    pager       \* what paginationInfo and the buttons show, and the load

controls == <<form, sort, page>>
view == <<totalPages, table, pager>>
vars == <<rows, controls, timer, sent, requests, view>>

Query == [args |-> form, sort |-> sort, page |-> page]

Request(n, q) == [no |-> n, query |-> q, stage |-> "sent", records |-> {}, total |-> 0]

\* loadPage: the request is for what the page's state says now.
LoadPage ==
    /\ sent < MaxRequests /\ sent' = sent + 1
    /\ requests' = requests \cup {Request(sent + 1, Query')}

\* The page is loaded as soon as the script runs.
Init ==
    /\ rows = {}
    /\ form = NoFilter /\ sort = [by |-> "attendance_time", dir |-> "desc"] /\ page = 1
    /\ totalPages = 1 /\ timer = FALSE
    /\ sent = 1 /\ requests = {Request(1, Query)}
    /\ table = [no |-> 0, records |-> {}, failed |-> FALSE]
    /\ pager = [no |-> 0, query |-> Query, total |-> 0, prev |-> TRUE, next |-> TRUE]
--------------------------------------------------------------------------------
(***************************************************************************)
(* The user.                                                               *)
(***************************************************************************)

\* An input or change event of the form: (re)starts the debounce timer.
FormInput(f) ==
    /\ f # form /\ form' = f
    /\ timer' = TRUE
    /\ UNCHANGED <<rows, sort, page, sent, requests, view>>

\* Slip for a mutant run: the timer fires, and stays on the page.
DebouncedReloadOfPage ==
    /\ timer /\ timer' = FALSE
    /\ sent < MaxRequests /\ sent' = sent + 1
    /\ requests' = requests \cup {Request(sent + 1, [Query EXCEPT !.page = 1])}
    /\ UNCHANGED <<rows, controls, view>>

DebouncedReload ==
    /\ timer /\ timer' = FALSE
    /\ page' = 1 /\ UNCHANGED <<form, sort>> /\ LoadPage
    /\ UNCHANGED <<rows, view>>

\* "Clear".  form.reset() fires no event; a timer that runs goes on.
ClearFilters ==
    /\ form' = NoFilter /\ page' = 1 /\ UNCHANGED sort /\ LoadPage
    /\ UNCHANGED <<rows, timer, view>>

SortBy(column) ==
    /\ sort' = [by |-> column,
                dir |-> IF sort.by = column /\ sort.dir = "desc" THEN "asc" ELSE "desc"]
    /\ page' = 1 /\ UNCHANGED form /\ LoadPage
    /\ UNCHANGED <<rows, timer, view>>

\* The buttons: the handler looks at the state, the browser at `disabled'.
PrevPage ==
    /\ pager.prev /\ page > 1
    /\ page' = page - 1 /\ UNCHANGED <<form, sort>> /\ LoadPage
    /\ UNCHANGED <<rows, timer, view>>

NextPage ==
    /\ pager.next /\ page < totalPages
    /\ page' = page + 1 /\ UNCHANGED <<form, sort>> /\ LoadPage
    /\ UNCHANGED <<rows, timer, view>>
--------------------------------------------------------------------------------
(***************************************************************************)
(* The server and the network.                                             *)
(***************************************************************************)
Row(id, r) ==
    [id |-> id, user_id |-> r.user_id, user_name |-> r.user_name,
     branch_name |-> r.branch_name, status |-> r.status,
     attendance_time |-> r.attendance_time]

InsertRow(r) ==
    /\ Cardinality(rows) < MaxRows
    /\ rows' = rows \cup {Row(Cardinality(rows) + 1, r)}
    /\ UNCHANGED <<controls, timer, sent, requests, view>>

Replace(r, s) == requests' = (requests \ {r}) \cup {s}

\* Slips for a mutant run: the rows are counted before the page is read.
CountFirst(r) ==
    /\ r.stage = "sent"
    /\ Replace(r, [r EXCEPT !.stage = "read", !.total = Cardinality(Select(rows, r.query.args))])
    /\ UNCHANGED <<rows, controls, timer, sent, view>>

\* The first statement of get_attendance_page.
ReadPage(r) ==
    /\ r.stage = "sent"
    /\ LET q == r.query
       IN  Replace(r, [r EXCEPT !.stage = "read",
                       !.records = PageOf(Select(rows, q.args), q.sort, q.page, PerPage)])
    /\ UNCHANGED <<rows, controls, timer, sent, view>>

ReadPageLast(r) ==
    /\ r.stage = "read"
    /\ LET q == r.query
       IN  Replace(r, [r EXCEPT !.stage = "counted",
                       !.records = PageOf(Select(rows, q.args), q.sort, q.page, PerPage)])
    /\ UNCHANGED <<rows, controls, timer, sent, view>>

\* The second statement, with a snapshot of its own.
CountRows(r) ==
    /\ r.stage = "read"
    /\ Replace(r, [r EXCEPT !.stage = "counted",
                            !.total = Cardinality(Select(rows, r.query.args))])
    /\ UNCHANGED <<rows, controls, timer, sent, view>>

\* Slip for a mutant run: there may be no pages at all.
AnswerAsIs(r) ==
    /\ r.stage = "counted"
    /\ requests' = requests \ {r}
    /\ totalPages' = TotalPages(r.total, PerPage)
    /\ table' = [no |-> r.no, records |-> r.records, failed |-> FALSE]
    /\ pager' = [no |-> r.no, query |-> r.query, total |-> r.total,
                 prev |-> HasPrevious(r.query.page),
                 next |-> HasNext(r.query.page, r.total, PerPage)]
    /\ UNCHANGED <<rows, controls, timer, sent>>

\* An answer arrives, before or after the answers to other loads.
Answer(r) ==
    /\ r.stage = "counted"
    /\ requests' = requests \ {r}
    /\ totalPages' = AtLeast1(TotalPages(r.total, PerPage))
    /\ table' = [no |-> r.no, records |-> r.records, failed |-> FALSE]
    /\ pager' = [no |-> r.no, query |-> r.query, total |-> r.total,
                 prev |-> HasPrevious(r.query.page),
                 next |-> HasNext(r.query.page, r.total, PerPage)]
    /\ UNCHANGED <<rows, controls, timer, sent>>

\* "Showing a-b".
RangeStart(p) == IF p.total = 0 THEN 0 ELSE (p.query.page - 1) * PerPage + 1
RangeEnd(p) == IF p.query.page * PerPage < p.total THEN p.query.page * PerPage ELSE p.total

\* An error of the network, the database or the rate limit, at any time.
Fail(r) ==
    /\ requests' = requests \ {r}
    /\ table' = [no |-> r.no, records |-> {}, failed |-> TRUE]
    /\ UNCHANGED <<rows, controls, timer, sent, totalPages, pager>>

User ==
    \/ \E f \in FormValues : FormInput(f)
    \/ ClearFilters
    \/ \E c \in Sorts : SortBy(c)
    \/ PrevPage \/ NextPage

ServeCountFirst(r) == CountFirst(r) \/ ReadPageLast(r) \/ Answer(r)

Serve(r) == ReadPage(r) \/ CountRows(r) \/ Answer(r)

Next ==
    \/ User
    \/ DebouncedReload
    \/ \E r \in NewRows : InsertRow(r)
    \/ \E r \in requests : Serve(r) \/ Fail(r)

Spec == Init /\ [][Next]_vars
--------------------------------------------------------------------------------
(***************************************************************************)
(* Properties.                                                             *)
(***************************************************************************)
Records == [id : 1..MaxRows, user_id : Nat, user_name : Nat, branch_name : Nat,
            status : Nat, attendance_time : Nat]

\* The values every variable ranges over.
TypeOK ==
    /\ rows \subseteq Records
    /\ form \in FormValues \cup {NoFilter}
    /\ sort \in [by : Sorts, dir : {"asc", "desc"}]
    /\ page \in Nat \ {0} /\ totalPages \in Nat \ {0} /\ timer \in BOOLEAN
    /\ sent \in 1..MaxRequests
    /\ \A r \in requests : r.no \in 1..sent /\ r.records \subseteq rows /\ r.total \in 0..MaxRows
    /\ table.no \in 0..sent /\ table.records \subseteq rows
    /\ pager.no \in 0..sent /\ pager.query.page \in Nat \ {0}

\* Nothing that the page has asked for, or is about to ask for, is outstanding.
Settled == requests = {} /\ ~ timer

\* The answers come in any order, and the last one to come stays.  Whichever that
\* is, a settled page shows one load as a whole: records that this load's filters
\* let through, buttons that fit its page number and the totalPages that "Next"
\* compares with.  If it is the last load that was made, it is also the load of
\* what the controls say now; of an older one nothing in the script says so.
SettledShowsOneLoad ==
    Settled /\ ~ table.failed =>
        LET q == pager.query
        IN  /\ table.no = pager.no
            /\ table.records \subseteq Select(rows, q.args)
            /\ pager.prev <=> q.page > 1
            /\ pager.next <=> q.page < totalPages
            /\ pager.no = sent => q = Query

\* "Showing a-b of n" never promises fewer records than the table shows, though
\* the records are read before they are counted and others come in between.
RangeCoversTable ==
    ~ table.failed /\ table.records # {} =>
        Cardinality(table.records) <= RangeEnd(pager) - RangeStart(pager) + 1

\* Whatever the arguments of a call, the query selects exactly what they mean,
\* or, if one that should be a number is none, nothing: the database refuses it.
FiltersExact ==
    requests = {} => \A args \in Calls :
        IF Malformed(args) THEN Select(rows, args) \in {QueryError, {}}
                           ELSE Select(rows, args) = {r \in rows : Wanted(r, args)}

\* While the table stays as it is, following `next' from page 1 delivers every
\* matching record once, in the order of the export, for every column, also one
\* whose values repeat, and every page size that openapi_spec.py allows.
PagesPartition ==
    requests = {} => \A by \in SortColumns, dir \in {"asc", "desc"}, per \in 1..MaxPerPage :
        LET s == [by |-> by, dir |-> dir]
            total == Cardinality(rows)
            export == ExportCsv(rows, s)
            last == TotalPages(total, per)
        IN  /\ \A p \in 1..last :
                  PageOf(rows, s, p, per) =
                      {export[i] : i \in ((p - 1) * per + 1)..(IF p = last THEN total ELSE p * per)}
            /\ \A p \in 1..last : HasNext(p, total, per) <=> p # last
            /\ PageOf(rows, s, last + 1, per) = {}
            /\ {export[i] : i \in DOMAIN export} = rows
================================================================================
