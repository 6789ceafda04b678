--------------------------- MODULE AttendanceLedger ---------------------------
(***************************************************************************)
(* What the collector promises about the attendance data, whatever its     *)
(* threads, connections and transactions do: the database only ever gains  *)
(* punches, and only punches that were really made at the terminal they    *)
(* are filed under.  An entry is a pair <<terminal, punch>>.               *)
(***************************************************************************)
CONSTANT Entry

VARIABLES
    made,       \* the punches made at the terminals
    stored      \* the punches that are in the database

ledger == <<made, stored>>

Init == made = {} /\ stored = {}

Make(e) == made' = made \cup {e} /\ UNCHANGED stored

\* One transaction commits: any set of made punches appears at once.
Store(S) == stored' = stored \cup S /\ UNCHANGED made

Next ==
    \/ \E e \in Entry : Make(e)
    \/ \E S \in SUBSET made : Store(S)

Spec == Init /\ [][Next]_ledger
================================================================================
