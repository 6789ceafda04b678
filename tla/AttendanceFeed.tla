----------------------------- MODULE AttendanceFeed -----------------------------
(***************************************************************************)
(* What the description of since_id promises to a client that polls: the   *)
(* table is a log that grows at its end, and the client reads it in order, *)
(* from the row at which it began, each row once and none left out.        *)
(***************************************************************************)
EXTENDS Integers

CONSTANT Id

VARIABLES
    rows,   \* the ids in the table
    read    \* those that the client got, and those before it began

feed == <<rows, read>>

Init == rows = {} /\ read = {}

\* All of S comes after all of R.
After(S, R) == \A i \in S, j \in R : i > j

\* A transaction commits.
Append(S) == After(S, rows) /\ rows' = rows \cup S /\ UNCHANGED read

\* The client gets the next rows: none of those that it has not got before them.
Read(S) == After(rows \ (read \cup S), S) /\ read' = read \cup S /\ UNCHANGED rows

Next ==
    \/ \E S \in SUBSET Id : Append(S)
    \/ \E S \in SUBSET (rows \ read) : Read(S)

Spec == Init /\ [][Next]_feed
================================================================================
