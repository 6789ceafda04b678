------------------------------ MODULE MCDashboard ------------------------------
(* One record to a page of the dashboard, up to three records of two kinds,   *)
(* so that two of three agree in every column but the id.                     *)
EXTENDS Dashboard

Punch(time, branch, user, name, status) ==
    [attendance_time |-> time, branch_name |-> branch, user_id |-> user,
     user_name |-> name, status |-> status]

MCNewRows == {Punch(3, 1, 1, 11, 0), Punch(4, 2, 2, 12, 1)}

Branch(b) == [f \in {"branch"} |-> b]

MCFormValues == {<<>>, Branch(1)}

MCSorts == {"attendance_time"}

\* Every pair of arguments with the values that make a difference.
Values(f) ==
    CASE f \in {"record_id", "since_id"} -> {1, 2, Word}
      [] f = "status" -> {1, Word}
      [] f = "search" -> {{2, 11}}
      [] OTHER -> {1, 2}

MCCalls ==
    UNION {UNION {{[h \in {f, g} |-> IF h = f THEN v ELSE w] : v \in Values(f), w \in Values(g)} :
        f \in Filters} : g \in Filters}
================================================================================
