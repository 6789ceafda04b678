---------------------------- MODULE DashboardProofs ----------------------------
(***************************************************************************)
(* Proofs about Dashboard, for any form, any records, any page size and    *)
(* any number of page loads.                                               *)
(***************************************************************************)
EXTENDS Dashboard, AttendanceQueryProofs, FiniteSetTheorems, TLAPS

\* The form sends no number, so the database accepts every query of the page.
LEMMA FormsAccepted ==
    \A f \in FormValues \cup {NoFilter} : Len(Placeholders(f)) = Len(Params(f))
<1>1. DOMAIN NoFilter = {}
  BY DEF NoFilter
<1>2. \A f \in FormValues \cup {NoFilter} : ~ Malformed(f)
  <2>1. \A f \in NumberFilters : Argument(f) \in NumberFilters
    BY DEF NumberFilters, Argument
  <2> QED
    BY <1>1, <2>1, DashboardAssumption DEF Malformed, Bad, Given
<1> QED
  BY <1>2, MalformedMismatch

\* A query that the database accepts selects records of the table, and selects
\* no fewer when the table has grown.
LEMMA SelectGrows ==
    ASSUME NEW args, Len(Placeholders(args)) = Len(Params(args)),
           NEW R, NEW S, R \subseteq S
    PROVE  Select(R, args) \subseteq Select(S, args)
  BY DEF Select, Compare

\* The number of selected records is a number.
LEMMA SelectCounts ==
    ASSUME NEW args, Len(Placeholders(args)) = Len(Params(args)),
           NEW R, IsFiniteSet(R)
    PROVE  Cardinality(Select(R, args)) \in Nat
<1>1. Select(R, args) \subseteq R
  BY DEF Select, Compare
<1> QED
  BY <1>1, FS_Subset, FS_CardinalityType

\* A total that is a number gives a number of pages.
LEMMA TotalPagesType ==
    ASSUME NEW total \in Nat PROVE TotalPages(total, PerPage) \in Int
  BY DashboardAssumption, AttendanceQueryAssumption DEF TotalPages

\* A page is part of what it is a page of.
LEMMA PageOfWhat ==
    ASSUME NEW matching, NEW s, NEW p, NEW per
    PROVE  PageOf(matching, s, p, per) \subseteq matching
  BY DEF PageOf

(***************************************************************************)
(* What ties the page to its last load: every change of the page's state   *)
(* comes with a load, except a change of the form, which starts the timer. *)
(***************************************************************************)
IsRequest(r) ==
    r = [no |-> r.no, query |-> r.query, stage |-> r.stage, records |-> r.records,
         total |-> r.total]

LEMMA RequestParts ==
    ASSUME NEW r, IsRequest(r)
    PROVE  \E n, q, g, c, t :
             /\ r = [no |-> n, query |-> q, stage |-> g, records |-> c, total |-> t]
             /\ n = r.no /\ q = r.query /\ c = r.records /\ t = r.total
  BY DEF IsRequest

\* A request at a later stage.
LEMMA RequestRead ==
    ASSUME NEW r, IsRequest(r), NEW c
    PROVE  LET s == [r EXCEPT !.stage = "read", !.records = c]
           IN  IsRequest(s) /\ s.no = r.no /\ s.query = r.query /\ s.records = c
               /\ s.total = r.total
<1> DEFINE r1 == [r EXCEPT !.stage = "read"]
           s == [r1 EXCEPT !.records = c]
<1>1. PICK n, q, g, d, t :
        /\ r = [no |-> n, query |-> q, stage |-> g, records |-> d, total |-> t]
        /\ n = r.no /\ q = r.query /\ t = r.total
  BY RequestParts
<1>2. r1 = [no |-> n, query |-> q, stage |-> "read", records |-> d, total |-> t]
  BY <1>1
<1>3. s = [no |-> n, query |-> q, stage |-> "read", records |-> c, total |-> t]
  <2> HIDE DEF r1
  <2> QED
    BY <1>2
<1>4. [r EXCEPT !.stage = "read", !.records = c] = s
  OBVIOUS
<1> QED
  BY <1>1, <1>3, <1>4 DEF IsRequest

LEMMA RequestCounted ==
    ASSUME NEW r, IsRequest(r), NEW m
    PROVE  LET s == [r EXCEPT !.stage = "counted", !.total = m]
           IN  IsRequest(s) /\ s.no = r.no /\ s.query = r.query /\ s.records = r.records
               /\ s.total = m
<1> DEFINE r1 == [r EXCEPT !.stage = "counted"]
           s == [r1 EXCEPT !.total = m]
<1>1. PICK n, q, g, c, t :
        /\ r = [no |-> n, query |-> q, stage |-> g, records |-> c, total |-> t]
        /\ n = r.no /\ q = r.query /\ c = r.records
  BY RequestParts
<1>2. r1 = [no |-> n, query |-> q, stage |-> "counted", records |-> c, total |-> t]
  BY <1>1
<1>3. s = [no |-> n, query |-> q, stage |-> "counted", records |-> c, total |-> m]
  <2> HIDE DEF r1
  <2> QED
    BY <1>2
<1>4. [r EXCEPT !.stage = "counted", !.total = m] = s
  OBVIOUS
<1> QED
  BY <1>1, <1>3, <1>4 DEF IsRequest

IsQuery(q) == q = [args |-> q.args, sort |-> q.sort, page |-> q.page]

\* A query that says what the controls say now; the form may be ahead of it for
\* as long as the timer runs.
Follows(q) == q.page = page /\ q.sort = sort /\ (~ timer => q.args = form)

FlowInv ==
    /\ form \in FormValues \cup {NoFilter} /\ page \in Nat \ {0} /\ sent \in Nat \ {0}
    /\ \A r \in requests : r.no <= sent /\ r.no \in Nat \ {0} /\ IsRequest(r) /\ r.total \in Nat
    /\ IsFiniteSet(rows)
    /\ table.no \in Nat /\ table.no <= sent /\ pager.no \in Nat /\ pager.no <= sent
    /\ table.no = 0 => requests # {}

RequestInv ==
    \A r \in requests :
        /\ r.query.args \in FormValues \cup {NoFilter}
        /\ r.query.page \in Nat \ {0} /\ IsQuery(r.query)
        /\ r.no = sent => Follows(r.query)
        /\ r.stage # "sent" => r.records \subseteq Select(rows, r.query.args)

ViewInv ==
    ~ table.failed /\ table.no # 0 =>
        LET q == pager.query
        IN  /\ table.no = pager.no
            /\ q.args \in FormValues \cup {NoFilter} /\ q.page \in Nat \ {0} /\ IsQuery(q)
            /\ table.records \subseteq Select(rows, q.args)
            /\ pager.prev <=> q.page > 1
            /\ pager.next <=> q.page < totalPages
            /\ pager.no = sent => Follows(q)

\* The first page load of the script.
LEMMA InitInv == Init => FlowInv /\ RequestInv /\ ViewInv
<1> SUFFICES ASSUME Init PROVE FlowInv /\ RequestInv /\ ViewInv
  OBVIOUS
<1> DEFINE new == Request(1, Query)
<1>1. /\ new.no = 1 /\ new.query = Query /\ new.stage = "sent" /\ new.total = 0 /\ IsRequest(new)
      /\ requests = {new}
  BY DEF Init, Request, IsRequest
<1>2. Query.args = form /\ Query.sort = sort /\ Query.page = page /\ IsQuery(Query)
  BY DEF Query, IsQuery
<1>3. form = NoFilter /\ page = 1 /\ sent = 1 /\ rows = {} /\ table.no = 0 /\ pager.no = 0
  BY DEF Init
<1> HIDE DEF new
<1>4. FlowInv
  BY <1>1, <1>3, FS_EmptySet DEF FlowInv
<1>5. RequestInv
  BY <1>1, <1>2, <1>3 DEF RequestInv, Follows
<1> QED
  BY <1>3, <1>4, <1>5 DEF ViewInv

\* A load that follows a change of the page's state: its request is the last one
\* now, and what is on the page answers an older one.
LEMMA LoadStep ==
    ASSUME FlowInv, RequestInv, ViewInv, LoadPage, UNCHANGED <<rows, totalPages, table, pager>>,
           form' \in FormValues \cup {NoFilter}, page' \in Nat \ {0}
    PROVE  FlowInv' /\ RequestInv' /\ ViewInv'
<1> DEFINE new == Request(sent + 1, Query')
<1>1. sent' = sent + 1 /\ requests' = requests \cup {new}
  BY DEF LoadPage
<1>2. /\ new.no = sent + 1 /\ new.stage = "sent" /\ new.query = Query' /\ IsRequest(new)
      /\ new.total = 0
  BY DEF Request, IsRequest
<1>3. /\ Query'.args = form' /\ Query'.page = page' /\ Query'.sort = sort'
      /\ Query' = [args |-> Query'.args, sort |-> Query'.sort, page |-> Query'.page]
  BY DEF Query
<1> HIDE DEF new
<1>4. FlowInv'
  BY <1>1, <1>2 DEF FlowInv
<1>5. RequestInv'
  <2>1. ASSUME NEW r \in requests
        PROVE  /\ r.query.args \in FormValues \cup {NoFilter} /\ r.no # sent'
               /\ r.query.page \in Nat \ {0} /\ IsQuery(r.query)
               /\ r.stage # "sent" => r.records \subseteq Select(rows', r.query.args)
    BY <1>1 DEF FlowInv, RequestInv
  <2>2. /\ new.query.args \in FormValues \cup {NoFilter} /\ new.query.page \in Nat \ {0}
        /\ IsQuery(new.query) /\ new.query.page = page' /\ new.query.sort = sort'
        /\ new.query.args = form'
    BY <1>2, <1>3 DEF IsQuery
  <2> QED
    BY <1>1, <1>2, <2>1, <2>2 DEF RequestInv, Follows
<1>6. pager'.no # sent'
  BY <1>1 DEF FlowInv
<1>7. ViewInv'
  BY <1>6 DEF ViewInv
<1> QED
  BY <1>4, <1>5, <1>7

\* A step of the server replaces one request by the same one at a later stage.
LEMMA ServerStep ==
    ASSUME FlowInv, RequestInv, ViewInv, NEW r \in requests, NEW s,
           Replace(r, s), UNCHANGED <<rows, controls, timer, sent, view>>,
           IsRequest(s), s.total \in Nat, s.no = r.no, s.query = r.query, s.records \subseteq Select(rows, s.query.args)
    PROVE  FlowInv' /\ RequestInv' /\ ViewInv'
<1>1. \A q \in requests' : q = s \/ q \in requests
  BY DEF Replace
<1>2. requests' # {}
  BY DEF Replace
<1>3. FlowInv'
  BY <1>1, <1>2 DEF FlowInv, controls, view
<1>4. RequestInv'
  BY <1>1 DEF RequestInv, Follows, controls
<1> QED
  BY <1>3, <1>4 DEF ViewInv, Follows, controls, view

LEMMA Step == FlowInv /\ RequestInv /\ ViewInv /\ [Next]_vars => FlowInv' /\ RequestInv' /\ ViewInv'
<1> SUFFICES ASSUME FlowInv, RequestInv, ViewInv, [Next]_vars
             PROVE  FlowInv' /\ RequestInv' /\ ViewInv'
  OBVIOUS
<1> USE DashboardAssumption
<1>1. ASSUME NEW f \in FormValues, FormInput(f) PROVE FlowInv' /\ RequestInv' /\ ViewInv'
  BY <1>1 DEF FormInput, FlowInv, RequestInv, ViewInv, Follows, view
<1>2. CASE DebouncedReload
  BY <1>2, LoadStep DEF DebouncedReload, FlowInv, view
<1>3. CASE ClearFilters
  BY <1>3, LoadStep DEF ClearFilters, view
<1>4. ASSUME NEW c \in Sorts, SortBy(c) PROVE FlowInv' /\ RequestInv' /\ ViewInv'
  BY <1>4, LoadStep DEF SortBy, FlowInv, view
<1>5. CASE PrevPage
  BY <1>5, LoadStep DEF PrevPage, FlowInv, view
<1>6. CASE NextPage
  BY <1>6, LoadStep DEF NextPage, FlowInv, view
<1>7. ASSUME NEW n \in NewRows, InsertRow(n) PROVE FlowInv' /\ RequestInv' /\ ViewInv'
  <2>1. rows \subseteq rows' /\ UNCHANGED <<controls, timer, sent, requests, view>>
    BY <1>7 DEF InsertRow
  <2>2. \A f \in FormValues \cup {NoFilter} : Select(rows, f) \subseteq Select(rows', f)
    BY <2>1, SelectGrows, FormsAccepted
  <2>3. FlowInv'
    BY <1>7, <2>1, FS_AddElement DEF FlowInv, InsertRow, controls, view
  <2>4. RequestInv'
    BY <2>1, <2>2 DEF RequestInv, Follows, controls
  <2>5. ViewInv'
    BY <2>1, <2>2 DEF ViewInv, Follows, controls, view
  <2> QED
    BY <2>3, <2>4, <2>5
<1>8. ASSUME NEW r \in requests, ReadPage(r) PROVE FlowInv' /\ RequestInv' /\ ViewInv'
  <2> DEFINE q == r.query
             records == PageOf(Select(rows, q.args), q.sort, q.page, PerPage)
             s == [r EXCEPT !.stage = "read", !.records = records]
  <2>1. Replace(r, s) /\ UNCHANGED <<rows, controls, timer, sent, view>>
    BY <1>8 DEF ReadPage
  <2>2. IsRequest(r)
    BY DEF FlowInv
  <2>3. IsRequest(s) /\ s.no = r.no /\ s.query = r.query /\ s.records = records
        /\ s.total = r.total /\ r.total \in Nat
    BY <2>2, RequestRead DEF FlowInv
  <2>4. records \subseteq Select(rows, q.args)
    BY PageOfWhat
  <2> QED
    BY <2>1, <2>3, <2>4, ServerStep
<1>9. ASSUME NEW r \in requests, CountRows(r) PROVE FlowInv' /\ RequestInv' /\ ViewInv'
  <2> DEFINE total == Cardinality(Select(rows, r.query.args))
             s == [r EXCEPT !.stage = "counted", !.total = total]
  <2>1. Replace(r, s) /\ UNCHANGED <<rows, controls, timer, sent, view>> /\ r.stage = "read"
    BY <1>9 DEF CountRows
  <2>2. IsRequest(r)
    BY DEF FlowInv
  <2>3. IsRequest(s) /\ s.no = r.no /\ s.query = r.query /\ s.records = r.records
        /\ s.total = total
    BY <2>2, RequestCounted
  <2>4. r.records \subseteq Select(rows, r.query.args)
    BY <2>1 DEF RequestInv
  <2>5. total \in Nat
    BY SelectCounts, FormsAccepted DEF FlowInv, RequestInv
  <2> QED
    BY <2>1, <2>3, <2>4, <2>5, ServerStep
<1>10. ASSUME NEW r \in requests, Answer(r) PROVE FlowInv' /\ RequestInv' /\ ViewInv'
  <2>1. /\ requests' \subseteq requests /\ r.stage = "counted"
        /\ totalPages' = AtLeast1(TotalPages(r.total, PerPage))
        /\ table'.no = r.no /\ table'.records = r.records
        /\ pager'.no = r.no /\ pager'.query = r.query /\ pager'.prev = (r.query.page > 1)
        /\ pager'.next = (r.query.page < TotalPages(r.total, PerPage))
        /\ UNCHANGED <<rows, controls, timer, sent>>
    BY <1>10 DEF Answer, HasPrevious, HasNext
  <2>2. FlowInv' /\ RequestInv'
    BY <2>1 DEF FlowInv, RequestInv, Follows, controls
  <2>3. /\ r.query.args \in FormValues \cup {NoFilter} /\ r.query.page \in Nat \ {0}
        /\ IsQuery(r.query) /\ (r.no = sent => Follows(r.query)) /\ r.total \in Nat
        /\ r.records \subseteq Select(rows, r.query.args)
    BY <2>1 DEF RequestInv, FlowInv
  <2>4. r.query.page < TotalPages(r.total, PerPage) <=> r.query.page < totalPages'
    BY <2>1, <2>3, TotalPagesType DEF AtLeast1
  <2> QED
    BY <2>1, <2>2, <2>3, <2>4 DEF ViewInv, Follows, controls
<1>11. ASSUME NEW r \in requests, Fail(r) PROVE FlowInv' /\ RequestInv' /\ ViewInv'
  <2>1. /\ requests' \subseteq requests /\ table'.failed /\ table'.no = r.no
        /\ UNCHANGED <<rows, controls, timer, sent, pager>>
    BY <1>11 DEF Fail
  <2> QED
    BY <2>1 DEF FlowInv, RequestInv, ViewInv, Follows, controls
<1>12. CASE UNCHANGED vars
  BY <1>12 DEF vars, controls, view, FlowInv, RequestInv, ViewInv, Follows
<1> QED
  BY <1>1, <1>2, <1>3, <1>4, <1>5, <1>6, <1>7, <1>8, <1>9, <1>10, <1>11, <1>12
  DEF Next, User, Serve

\* Whatever the order of the answers: a page with nothing outstanding shows one
\* load as a whole, and if that is the last one, what its controls say now.
THEOREM SettledPageShowsOneLoad == Spec => []SettledShowsOneLoad
<1>1. ASSUME FlowInv, ViewInv, Settled, ~ table.failed
      PROVE  LET q == pager.query
             IN  /\ table.no = pager.no
                 /\ table.records \subseteq Select(rows, q.args)
                 /\ pager.prev <=> q.page > 1
                 /\ pager.next <=> q.page < totalPages
                 /\ pager.no = sent => q = Query
  <2>1. table.no # 0 /\ ~ timer
    BY <1>1 DEF FlowInv, Settled
  <2>2. pager.no = sent => pager.query = Query
    BY <1>1, <2>1 DEF ViewInv, Follows, IsQuery, Query
  <2> QED
    BY <1>1, <2>1, <2>2 DEF ViewInv
<1>2. FlowInv /\ RequestInv /\ ViewInv => SettledShowsOneLoad
  BY <1>1 DEF SettledShowsOneLoad
<1> QED
  BY <1>2, InitInv, Step, PTL DEF Spec
--------------------------------------------------------------------------------
(***************************************************************************)
(* The table: ids are given out in turn, so that they order the records.   *)
(***************************************************************************)
RowsInv ==
    /\ IsFiniteSet(rows) /\ Cardinality(rows) \in 0..MaxRows
    /\ rows \subseteq [id : 1..Cardinality(rows), user_id : Nat, user_name : Nat,
                       branch_name : Nat, status : Nat, attendance_time : Nat]
    /\ \A r, q \in rows : r.id = q.id => r = q

\* The table has only the records that InsertRow made.
LEMMA TableInv == Spec => []RowsInv
<1>1. Init => RowsInv
  BY FS_EmptySet, DashboardAssumption DEF Init, RowsInv
<1>2. RowsInv /\ [Next]_vars => RowsInv'
  <2> SUFFICES ASSUME RowsInv, [Next]_vars PROVE RowsInv'
    OBVIOUS
  <2>1. ASSUME NEW n \in NewRows, InsertRow(n) PROVE RowsInv'
    <3> DEFINE count == Cardinality(rows)
               new == Row(count + 1, n)
    <3>1. count \in Nat /\ count < MaxRows /\ MaxRows \in Nat /\ rows' = rows \cup {new}
      BY <2>1, DashboardAssumption DEF InsertRow, RowsInv
    <3>2. /\ n.user_id \in Nat /\ n.user_name \in Nat /\ n.branch_name \in Nat
          /\ n.status \in Nat /\ n.attendance_time \in Nat
      BY DashboardAssumption DEF Columns
    <3>3. /\ new.id = count + 1
          /\ new \in [id : 1..(count + 1), user_id : Nat, user_name : Nat, branch_name : Nat,
                      status : Nat, attendance_time : Nat]
      BY <3>1, <3>2 DEF Row
    <3>4. \A r \in rows : r.id \in 1..count
      BY DEF RowsInv
    <3>5. new \notin rows
      BY <3>1, <3>3, <3>4
    <3>6. IsFiniteSet(rows') /\ Cardinality(rows') = count + 1
      BY <3>1, <3>5, FS_AddElement DEF RowsInv
    <3>7. rows \subseteq [id : 1..(count + 1), user_id : Nat, user_name : Nat,
                          branch_name : Nat, status : Nat, attendance_time : Nat]
      BY <3>1 DEF RowsInv
    <3>8. \A r, q \in rows' : r.id = q.id => r = q
      BY <3>1, <3>3, <3>4 DEF RowsInv
    <3> HIDE DEF new, count
    <3>9. Cardinality(rows') \in 0..MaxRows
      BY <3>1, <3>6
    <3>10. rows' \subseteq [id : 1..Cardinality(rows'), user_id : Nat, user_name : Nat,
                            branch_name : Nat, status : Nat, attendance_time : Nat]
      BY <3>1, <3>3, <3>6, <3>7
    <3> QED
      BY <3>6, <3>8, <3>9, <3>10 DEF RowsInv
  <2>2. CASE UNCHANGED rows
    BY <2>2 DEF RowsInv
  <2> QED
    BY <2>1, <2>2
    DEF Next, User, Serve, FormInput, ClearFilters, SortBy, PrevPage, NextPage,
        DebouncedReload, ReadPage, CountRows, Answer, Fail, vars
<1> QED
  BY <1>1, <1>2, PTL DEF Spec

\* What a query of the page selects is finite and ordered.
LEMMA SelectionOrdered ==
    ASSUME RowsInv, NEW args, Len(Placeholders(args)) = Len(Params(args)), NEW s
    PROVE  /\ Select(rows, args) \subseteq rows
           /\ Ordered(Select(rows, args), s) /\ Ordered(rows, s)
           /\ Cardinality(Select(rows, args)) \in 0..MaxRows
<1>1. Select(rows, args) \subseteq rows
  BY DEF Select, Compare
<1>2. Ordered(rows, s)
  <2>1. \A r \in rows : /\ r.id \in Int /\ r.attendance_time \in Int
                        /\ r.user_id \in Int /\ r.branch_name \in Int
    BY DEF RowsInv
  <2> QED
    BY <2>1, RecordsOrdered DEF RowsInv
<1>3. Ordered(Select(rows, args), s)
  BY <1>1, <1>2, PartOrdered
<1>4. /\ IsFiniteSet(Select(rows, args)) /\ Cardinality(Select(rows, args)) \in Nat
      /\ Cardinality(Select(rows, args)) <= Cardinality(rows) /\ Cardinality(rows) \in 0..MaxRows
  BY <1>1, FS_Subset, FS_CardinalityType DEF RowsInv
<1> QED
  BY <1>1, <1>2, <1>3, <1>4, DashboardAssumption

\* Whatever the column and the page size, also those that the dashboard never
\* asks for, the pages of the table partition it in the order of the export.
THEOREM PagesArePartition == Spec => []PagesPartition
<1>1. RowsInv => PagesPartition
  <2> SUFFICES ASSUME RowsInv, NEW by \in SortColumns, NEW dir \in {"asc", "desc"},
                      NEW per \in 1..MaxPerPage
               PROVE  LET s == [by |-> by, dir |-> dir]
                          total == Cardinality(rows)
                          export == ExportCsv(rows, s)
                          last == TotalPages(total, per)
                      IN  /\ \A p \in 1..last :
                                PageOf(rows, s, p, per) =
                                    {export[i] : i \in ((p - 1) * per + 1)..(IF p = last THEN total ELSE p * per)}
                          /\ \A p \in 1..last : HasNext(p, total, per) <=> p # last
                          /\ PageOf(rows, s, last + 1, per) = {}
                          /\ {export[i] : i \in DOMAIN export} = rows
    BY DEF PagesPartition
  <2> DEFINE s == [by |-> by, dir |-> dir]
  <2>1. Ordered(rows, s)
    BY FormsAccepted, SelectionOrdered
  <2> QED
    BY <2>1, PagesAreStretches
<1> QED
  BY <1>1, TableInv, PTL

\* Every call that IsCall describes: what the query selects is what the
\* arguments mean, and a number that is none makes the database refuse it.
THEOREM FiltersAreExact == Spec => []FiltersExact
<1>1. RowsInv => FiltersExact
  <2> SUFFICES ASSUME RowsInv, NEW args \in Calls
               PROVE  IF Malformed(args) THEN Select(rows, args) \in {QueryError, {}}
                                         ELSE Select(rows, args) = {r \in rows : Wanted(r, args)}
    BY DEF FiltersExact
  <2>1. IsCall(args)
    BY DashboardAssumption
  <2>2. CASE Malformed(args)
    BY <2>2, MalformedMismatch DEF Select
  <2>3. CASE ~ Malformed(args)
    <3>1. \A r \in rows : r.id \in Int /\ r.attendance_time \in Nat
      BY DEF RowsInv
    <3> QED
      BY <2>1, <2>3, <3>1, SelectMeans
  <2> QED
    BY <2>2, <2>3
<1> QED
  BY <1>1, TableInv, PTL
--------------------------------------------------------------------------------
(***************************************************************************)
(* The values of the page, and what its last line promises.                *)
(***************************************************************************)
LEMMA PageFlow == Spec => [](FlowInv /\ RequestInv /\ ViewInv)
  BY InitInv, Step, PTL DEF Spec

\* The records c of page p are among the first `total'.
Fits(c, p, total) ==
    c # {} => (p - 1) * PerPage + Cardinality(c) <= total /\ Cardinality(c) <= PerPage

\* What an answer in the making and the answer on the page have in common.
Shown(R, c, p, total) ==
    /\ c \subseteq R /\ IsFiniteSet(c) /\ p \in Nat \ {0} /\ total \in 0..MaxRows
    /\ Fits(c, p, total)

Awaited(r, R, n) ==
    /\ r.no \in 1..n /\ r.query.page \in Nat \ {0}
    /\ r.stage \in {"sent", "read", "counted"}
    /\ r.stage = "sent" => r.records = {} /\ r.total = 0
    /\ r.stage = "read" => Shown(R, r.records, r.query.page, Cardinality(Select(R, r.query.args)))
                           /\ r.total = 0
    /\ r.stage = "counted" => Shown(R, r.records, r.query.page, r.total)

PageInv ==
    /\ sort \in [by : Sorts, dir : {"asc", "desc"}] /\ page \in Nat \ {0}
    /\ totalPages \in Nat \ {0} /\ sent \in 1..MaxRequests
    /\ \A r \in requests : Awaited(r, rows, sent)
    /\ table.no \in 0..sent /\ table.records \subseteq rows
    /\ pager.no \in 0..sent /\ pager.query.page \in Nat \ {0}
    /\ ~ table.failed => Shown(rows, table.records, pager.query.page, pager.total)

TimerOK == timer \in BOOLEAN

LEMMA TimerType == Spec => []TimerOK
<1>1. Init => TimerOK
  BY DEF Init, TimerOK
<1>2. TimerOK /\ [Next]_vars => TimerOK'
  BY DEF TimerOK, Next, User, Serve, FormInput, ClearFilters, SortBy, PrevPage, NextPage,
         DebouncedReload, InsertRow, ReadPage, CountRows, Answer, Fail, vars
<1> QED
  BY <1>1, <1>2, PTL DEF Spec

LEMMA PageInit == Init => PageInv
<1> SUFFICES ASSUME Init PROVE PageInv
  OBVIOUS
<1>1. Awaited(Request(1, Query), rows, sent) /\ requests = {Request(1, Query)}
  BY DEF Init, Awaited, Request, Query
<1>2. /\ table.no = 0 /\ table.records = {}
      /\ pager.no = 0 /\ pager.query.page = 1 /\ pager.total = 0
  BY DEF Init, Query
<1>3. sort \in [by : Sorts, dir : {"asc", "desc"}]
  BY DashboardAssumption DEF Init
<1>4. Shown(rows, table.records, pager.query.page, pager.total)
  BY <1>2, FS_EmptySet, DashboardAssumption DEF Shown, Fits
<1> QED
  BY <1>1, <1>2, <1>3, <1>4, DashboardAssumption DEF Init, PageInv

\* A larger table has room for what fitted before.
LEMMA ShownStays ==
    ASSUME NEW R, NEW T, R \subseteq T, NEW c, NEW p, NEW total, Shown(R, c, p, total),
           NEW more \in 0..MaxRows, total <= more
    PROVE  Shown(T, c, p, more)
<1>1. Fits(c, p, more)
  <2>1. c # {} => Cardinality(c) \in Nat /\ (p - 1) * PerPage \in Nat
    BY FS_CardinalityType, Multiply, DashboardAssumption, AttendanceQueryAssumption DEF Shown
  <2> QED
    BY <2>1, DashboardAssumption DEF Shown, Fits
<1> QED
  BY <1>1 DEF Shown, Fits

\* A new load: the request is awaited, the rest of the page is as before.
LEMMA LoadAwaited ==
    ASSUME PageInv, LoadPage, UNCHANGED <<rows, totalPages, table, pager>>,
           page' \in Nat \ {0}, sort' \in [by : Sorts, dir : {"asc", "desc"}]
    PROVE  PageInv'
<1> DEFINE new == Request(sent + 1, Query')
<1>1. sent \in Nat /\ sent' = sent + 1 /\ sent' \in 1..MaxRequests
      /\ requests' = requests \cup {new}
  BY DashboardAssumption DEF LoadPage, PageInv
<1>2. \A r \in requests : Awaited(r, rows', sent')
  BY <1>1 DEF PageInv, Awaited
<1>3. Awaited(new, rows', sent')
  <2>1. /\ new.no = sent + 1 /\ new.stage = "sent" /\ new.records = {} /\ new.total = 0
        /\ new.query.page = page'
    BY DEF Request, Query
  <2> HIDE DEF new
  <2> QED
    BY <1>1, <2>1 DEF Awaited
<1> QED
  BY <1>1, <1>2, <1>3 DEF PageInv

\* A step of the server: one request is replaced by one that is awaited too.
LEMMA ServerAwaited ==
    ASSUME PageInv, NEW r \in requests, NEW s, Replace(r, s), Awaited(s, rows, sent),
           UNCHANGED <<rows, controls, timer, sent, view>>
    PROVE  PageInv'
<1>1. \A q \in requests' : Awaited(q, rows, sent)
  BY DEF Replace, PageInv
<1> QED
  BY <1>1 DEF PageInv, Awaited, controls, view

LEMMA PageStep == RowsInv /\ RowsInv' /\ FlowInv /\ RequestInv /\ PageInv /\ [Next]_vars => PageInv'
<1> SUFFICES ASSUME RowsInv, RowsInv', FlowInv, RequestInv, PageInv, [Next]_vars PROVE PageInv'
  OBVIOUS
<1>1. ASSUME NEW f \in FormValues, FormInput(f) PROVE PageInv'
  BY <1>1 DEF FormInput, PageInv, Awaited, view
<1>2. CASE DebouncedReload
  BY <1>2, LoadAwaited DEF DebouncedReload, PageInv, view
<1>3. CASE ClearFilters
  BY <1>3, LoadAwaited DEF ClearFilters, PageInv, view
<1>4. ASSUME NEW c \in Sorts, SortBy(c) PROVE PageInv'
  BY <1>4, LoadAwaited DEF SortBy, PageInv, view
<1>5. CASE PrevPage
  BY <1>5, LoadAwaited DEF PrevPage, PageInv, view
<1>6. CASE NextPage
  BY <1>6, LoadAwaited DEF NextPage, PageInv, view
<1>7. ASSUME NEW n \in NewRows, InsertRow(n) PROVE PageInv'
  <2>1. rows \subseteq rows' /\ UNCHANGED <<controls, timer, sent, requests, view>>
    BY <1>7 DEF InsertRow
  <2>2. ASSUME NEW r \in requests PROVE Awaited(r, rows', sent')
    <3> DEFINE before == Cardinality(Select(rows, r.query.args))
               after == Cardinality(Select(rows', r.query.args))
    <3>1. Len(Placeholders(r.query.args)) = Len(Params(r.query.args))
      BY FormsAccepted DEF RequestInv
    <3>2. before \in 0..MaxRows /\ after \in 0..MaxRows /\ before <= after
      <4>1. Select(rows, r.query.args) \subseteq Select(rows', r.query.args)
        BY <2>1, <3>1, SelectGrows
      <4>2. Select(rows', r.query.args) \subseteq rows' /\ IsFiniteSet(rows')
            /\ Cardinality(rows') \in 0..MaxRows
        BY <3>1 DEF Select, Compare, RowsInv
      <4>3. Select(rows, r.query.args) \subseteq rows /\ IsFiniteSet(rows)
            /\ Cardinality(rows) \in 0..MaxRows
        BY <3>1 DEF Select, Compare, RowsInv
      <4> QED
        BY <4>1, <4>2, <4>3, FS_Subset, FS_CardinalityType, DashboardAssumption
    <3>3. Awaited(r, rows, sent)
      BY DEF PageInv
    <3>4. CASE r.stage = "sent"
      BY <2>1, <3>3, <3>4 DEF Awaited
    <3>5. CASE r.stage = "read"
      <4>1. Shown(rows', r.records, r.query.page, after)
        BY <2>1, <3>2, <3>3, <3>5, ShownStays DEF Awaited
      <4> QED
        BY <2>1, <3>3, <3>5, <4>1 DEF Awaited
    <3>6. CASE r.stage = "counted"
      <4>1. Shown(rows', r.records, r.query.page, r.total)
        BY <2>1, <3>3, <3>6 DEF Awaited, Shown, Fits
      <4> QED
        BY <2>1, <3>3, <3>6, <4>1 DEF Awaited
    <3> QED
      BY <3>3, <3>4, <3>5, <3>6 DEF Awaited
  <2> QED
    BY <2>1, <2>2 DEF PageInv, Shown, Fits, controls, view
<1>8. ASSUME NEW r \in requests, ReadPage(r) PROVE PageInv'
  <2> DEFINE q == r.query
             matching == Select(rows, q.args)
             records == PageOf(matching, q.sort, q.page, PerPage)
             s == [r EXCEPT !.stage = "read", !.records = records]
  <2>1. Replace(r, s) /\ UNCHANGED <<rows, controls, timer, sent, view>> /\ r.stage = "sent"
    BY <1>8 DEF ReadPage
  <2>2. IsRequest(r) /\ Awaited(r, rows, sent)
    BY DEF FlowInv, PageInv
  <2>3. s.no = r.no /\ s.query = q /\ s.records = records /\ s.total = r.total /\ s.stage = "read"
    BY <2>2, RequestRead DEF IsRequest
  <2>4. Len(Placeholders(q.args)) = Len(Params(q.args))
    BY FormsAccepted DEF RequestInv
  <2>5. /\ matching \subseteq rows /\ Ordered(matching, q.sort)
        /\ Cardinality(matching) \in 0..MaxRows
    BY <2>4, SelectionOrdered
  <2>6. records \subseteq matching
    BY PageOfWhat
  <2>7. q.page \in Nat \ {0} /\ PerPage \in 1..MaxPerPage
    BY <2>2, DashboardAssumption DEF Awaited
  <2>8. Shown(rows, records, q.page, Cardinality(matching))
    BY <2>5, <2>6, <2>7, PageHasRoom DEF Shown, Fits
  <2> HIDE DEF s, records, matching
  <2>9. Awaited(s, rows, sent)
    BY <2>1, <2>2, <2>3, <2>8 DEF Awaited, matching
  <2> QED
    BY <2>1, <2>9, ServerAwaited
<1>9. ASSUME NEW r \in requests, CountRows(r) PROVE PageInv'
  <2> DEFINE total == Cardinality(Select(rows, r.query.args))
             s == [r EXCEPT !.stage = "counted", !.total = total]
  <2>1. Replace(r, s) /\ UNCHANGED <<rows, controls, timer, sent, view>> /\ r.stage = "read"
    BY <1>9 DEF CountRows
  <2>2. IsRequest(r) /\ Awaited(r, rows, sent)
    BY DEF FlowInv, PageInv
  <2>3. s.no = r.no /\ s.query = r.query /\ s.records = r.records /\ s.total = total
        /\ s.stage = "counted"
    BY <2>2, RequestCounted DEF IsRequest
  <2>4. Shown(rows, r.records, r.query.page, total)
    BY <2>1, <2>2 DEF Awaited
  <2> HIDE DEF s, total
  <2>5. Awaited(s, rows, sent)
    BY <2>2, <2>3, <2>4 DEF Awaited
  <2> QED
    BY <2>1, <2>5, ServerAwaited
<1>10. ASSUME NEW r \in requests, Answer(r) PROVE PageInv'
  <2>1. /\ requests' \subseteq requests /\ r.stage = "counted"
        /\ totalPages' = AtLeast1(TotalPages(r.total, PerPage))
        /\ table' = [no |-> r.no, records |-> r.records, failed |-> FALSE]
        /\ pager'.no = r.no /\ pager'.query = r.query /\ pager'.total = r.total
        /\ UNCHANGED <<rows, controls, timer, sent>>
    BY <1>10 DEF Answer
  <2>2. Awaited(r, rows, sent) /\ Shown(rows, r.records, r.query.page, r.total)
    BY <2>1 DEF PageInv, Awaited
  <2>3. totalPages' \in Nat \ {0}
    BY <2>1, <2>2, LastPage, DashboardAssumption DEF Shown, AtLeast1
  <2>4. \A q \in requests' : Awaited(q, rows', sent')
    BY <2>1 DEF PageInv, Awaited, Shown, Fits
  <2>5. Shown(rows', table'.records, pager'.query.page, pager'.total)
    BY <2>1, <2>2 DEF Shown, Fits
  <2> QED
    BY <2>1, <2>2, <2>3, <2>4, <2>5 DEF PageInv, Awaited, Shown, controls
<1>11. ASSUME NEW r \in requests, Fail(r) PROVE PageInv'
  <2>1. /\ requests' \subseteq requests
        /\ table' = [no |-> r.no, records |-> {}, failed |-> TRUE]
        /\ UNCHANGED <<rows, controls, timer, sent, totalPages, pager>>
    BY <1>11 DEF Fail
  <2>2. Awaited(r, rows, sent)
    BY DEF PageInv
  <2> QED
    BY <2>1, <2>2 DEF PageInv, Awaited, Shown, Fits, controls
<1>12. CASE UNCHANGED vars
  BY <1>12 DEF vars, controls, view, PageInv, Awaited
<1> QED
  BY <1>1, <1>2, <1>3, <1>4, <1>5, <1>6, <1>7, <1>8, <1>9, <1>10, <1>11, <1>12
  DEF Next, User, Serve

LEMMA PageInvariant == Spec => []PageInv
<1>1. PageInv /\ (RowsInv /\ RowsInv' /\ FlowInv /\ RequestInv) /\ [Next]_vars => PageInv'
  BY PageStep
<1> QED
  BY <1>1, PageInit, PageFlow, TableInv, PTL DEF Spec

\* The values of every variable, for any form, any records and any page size.
THEOREM TypeCorrect == Spec => []TypeOK
<1>1. RowsInv /\ FlowInv /\ PageInv /\ TimerOK => TypeOK
  <2> SUFFICES ASSUME RowsInv, FlowInv, PageInv, TimerOK PROVE TypeOK
    OBVIOUS
  <2>1. rows \subseteq Records
    BY DashboardAssumption DEF RowsInv, Records
  <2>2. \A r \in requests : r.no \in 1..sent /\ r.records \subseteq rows /\ r.total \in 0..MaxRows
    BY DashboardAssumption DEF PageInv, Awaited, Shown
  <2> QED
    BY <2>1, <2>2 DEF TypeOK, FlowInv, PageInv, TimerOK
<1> QED
  BY <1>1, PageFlow, TableInv, PageInvariant, TimerType, PTL

\* The records are read first and counted later, while the table grows: the
\* range of the last line still has room for every record of the page.
THEOREM RangeAlwaysCovers == Spec => []RangeCoversTable
<1>1. PageInv => RangeCoversTable
  <2> SUFFICES ASSUME PageInv, ~ table.failed, table.records # {}
               PROVE  Cardinality(table.records) <= RangeEnd(pager) - RangeStart(pager) + 1
    BY DEF RangeCoversTable
  <2> DEFINE count == Cardinality(table.records)
             before == (pager.query.page - 1) * PerPage
  <2>1. Shown(rows, table.records, pager.query.page, pager.total)
    BY DEF PageInv
  <2>2. before + count <= pager.total /\ count <= PerPage /\ pager.total \in Nat
    BY <2>1, DashboardAssumption DEF Shown, Fits
  <2>3. count \in Nat \ {0}
    BY <2>1, FS_CardinalityType, FS_EmptySet DEF Shown
  <2>4. before \in Nat /\ before + PerPage = pager.query.page * PerPage
    BY <2>1, Multiply, DashboardAssumption, AttendanceQueryAssumption DEF Shown
  <2> HIDE DEF count, before
  <2>5. pager.total # 0 /\ PerPage \in Nat
    BY <2>2, <2>3, <2>4, DashboardAssumption, AttendanceQueryAssumption
  <2>6. RangeStart(pager) = before + 1
    BY <2>5 DEF RangeStart, before
  <2>7. RangeEnd(pager) = IF before + PerPage < pager.total THEN before + PerPage ELSE pager.total
    BY <2>4 DEF RangeEnd
  <2> QED
    BY <2>2, <2>3, <2>4, <2>5, <2>6, <2>7 DEF count
<1> QED
  BY <1>1, PageInvariant, PTL
================================================================================
