---------------------------- MODULE AttendanceQuery ----------------------------
(***************************************************************************)
(* The queries of the read side (web_database.py): from the arguments of a *)
(* request to a WHERE clause and its parameters, the order of the records, *)
(* the page and its neighbours, and the export.                            *)
(*                                                                         *)
(* The arguments are a function from the names that were given (and are    *)
(* not blank) to their values; Word stands for every text that is not a    *)
(* number.  device_ip, device_serial and punch_type are compared like      *)
(* branch, and are left out.  A search text is represented by the set of   *)
(* texts that contain it.                                                  *)
(***************************************************************************)
EXTENDS Integers, Sequences, FiniteSets, SequencesExt

CONSTANTS
    MaxPerPage,     \* the largest page: 500
    Day,            \* the length of a day
    Word,           \* an argument that int() rejects
    QueryError      \* what the database answers to a query it cannot run

ASSUME AttendanceQueryAssumption ==
    MaxPerPage \in Nat \ {0} /\ Day \in Nat \ {0} /\ Word \notin Int

\* The arguments that build_filters looks at.
Filters == {"record_id", "since_id", "employee_id", "branch", "status", "search",
            "from_date", "to_date"}

NumberFilters == {"record_id", "since_id", "status"}

\* The columns of a record that queries look at, as far as their order counts.
Columns == [user_id : Nat, user_name : Nat, branch_name : Nat, status : Nat,
            attendance_time : Nat]

\* What a query string can hold: texts, dates that the database can read, and
\* for numbers also what int() rejects.
IsCall(args) ==
    /\ DOMAIN args \subseteq Filters
    /\ \A f \in DOMAIN args \cap NumberFilters : args[f] \in Int \cup {Word}
    /\ \A f \in DOMAIN args \cap {"from_date", "to_date"} : args[f] \in Int
--------------------------------------------------------------------------------
(***************************************************************************)
(* build_filters.  A placeholder is named after the argument it is for,    *)
(* except that search has two.                                             *)
(***************************************************************************)
Argument(p) == IF p \in {"name", "user"} THEN "search" ELSE p

Given(args, p) == Argument(p) \in DOMAIN args

\* An argument that int() rejects.
Bad(args, p) == Given(args, p) /\ Argument(p) \in NumberFilters /\ args[Argument(p)] = Word

\* What the block for one argument appends: the condition is there before int()
\* is called, so that of a number that is none only the placeholder stays.
\* ("1 = 0" is added too, and has neither.)
Placeholder(args, p) == IF Given(args, p) THEN <<p>> ELSE <<>>

Param(args, p) == IF Given(args, p) /\ ~ Bad(args, p) THEN <<args[Argument(p)]>> ELSE <<>>

Placeholders(args) ==
    Placeholder(args, "record_id") \o Placeholder(args, "since_id") \o
    Placeholder(args, "employee_id") \o Placeholder(args, "branch") \o
    Placeholder(args, "status") \o Placeholder(args, "name") \o Placeholder(args, "user") \o
    Placeholder(args, "from_date") \o Placeholder(args, "to_date")

Params(args) ==
    Param(args, "record_id") \o Param(args, "since_id") \o Param(args, "employee_id") \o
    Param(args, "branch") \o Param(args, "status") \o Param(args, "name") \o
    Param(args, "user") \o Param(args, "from_date") \o Param(args, "to_date")

Malformed(args) == \E f \in NumberFilters : Bad(args, f)

\* A placeholder's comparison with its parameter.
Holds(r, f, v) ==
    CASE f = "record_id"   -> r.id = v
      [] f = "since_id"    -> r.id > v
      [] f = "employee_id" -> r.user_id = v
      [] f = "branch"      -> r.branch_name = v
      [] f = "status"      -> r.status = v
      [] f = "name"        -> r.user_name \in v
      [] f = "user"        -> r.user_id \in v
      [] f = "from_date"   -> r.attendance_time >= v * Day
      [] f = "to_date"     -> r.attendance_time < (v + 1) * Day

Compare(rows, ps, vs) ==
    LET like == {i \in DOMAIN ps : ps[i] \in {"name", "user"}}
    IN  {r \in rows :
            /\ \A i \in DOMAIN ps \ like : Holds(r, ps[i], vs[i])
            /\ like # {} => \E i \in like : Holds(r, ps[i], vs[i])}

\* Slip for a mutant run: nothing is done about a bad number.
SelectWithoutBad(rows, args) ==
    LET good == {f \in DOMAIN args : f \notin NumberFilters \/ args[f] # Word}
        given == [f \in good |-> args[f]]
    IN  Compare(rows, Placeholders(given), Params(given))

\* The records that a query with these arguments selects.  The database refuses
\* a query whose placeholders and parameters do not match in number.
Select(rows, args) ==
    LET ps == Placeholders(args)  vs == Params(args)
    IN  IF Len(ps) # Len(vs) THEN QueryError ELSE Compare(rows, ps, vs)
--------------------------------------------------------------------------------
(***************************************************************************)
(* _resolve_sort, get_attendance_page, get_attendance_api_data.            *)
(***************************************************************************)
SortColumns == {"attendance_time", "id", "user_id", "branch_name"}

Column(by) == IF by \in SortColumns THEN by ELSE "attendance_time"

\* Slip for a mutant run: records with the same value are in no order.
BeforeInColumn(sort, r, s) ==
    LET c == Column(sort.by)
    IN  IF sort.dir = "asc" THEN r[c] < s[c] ELSE r[c] > s[c]

\* ORDER BY column direction, id direction.
Before(sort, r, s) ==
    LET c == Column(sort.by)
    IN  IF sort.dir = "asc" THEN r[c] < s[c] \/ (r[c] = s[c] /\ r.id < s.id)
                            ELSE r[c] > s[c] \/ (r[c] = s[c] /\ r.id > s.id)

AtLeast1(n) == IF n < 1 THEN 1 ELSE n

Limit(per_page) == AtLeast1(IF per_page > MaxPerPage THEN MaxPerPage ELSE per_page)

Position(matching, sort, r) == Cardinality({s \in matching : Before(sort, s, r)})

\* LIMIT per_page OFFSET (page - 1) * per_page.
PageOf(matching, sort, page, per_page) ==
    LET offset == (AtLeast1(page) - 1) * Limit(per_page)
    IN  {r \in matching : /\ offset <= Position(matching, sort, r)
                          /\ Position(matching, sort, r) < offset + Limit(per_page)}

TotalPages(total, per_page) ==
    IF total = 0 THEN 0 ELSE (total + per_page - 1) \div per_page

HasNext(page, total, per_page) == page < TotalPages(total, per_page)
HasPrevious(page) == page > 1

\* export_csv: everything that matches, no record after one that it is before.
ExportCsv(matching, sort) ==
    CHOOSE q \in [1..Cardinality(matching) -> matching] :
        /\ IsInjective(q)
        /\ \A i, j \in DOMAIN q : i < j => ~ Before(sort, q[j], q[i])
--------------------------------------------------------------------------------
\* What a request's arguments mean, independently of how the query is built: every
\* one restricts the records to those it names.
Names(r, f, v) ==
    CASE f = "record_id"   -> r.id = v
      [] f = "since_id"    -> r.id > v
      [] f = "employee_id" -> r.user_id = v
      [] f = "branch"      -> r.branch_name = v
      [] f = "status"      -> r.status = v
      [] f = "search"      -> {r.user_name, r.user_id} \cap v # {}
      [] f = "from_date"   -> r.attendance_time \div Day >= v
      [] f = "to_date"     -> r.attendance_time \div Day <= v

Wanted(r, args) == \A f \in DOMAIN args : Names(r, f, args[f])
================================================================================
