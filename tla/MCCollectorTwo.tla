---------------------------- MODULE MCCollectorTwo ----------------------------
(* Two terminals; one punch prints the same at both (the same employee        *)
(* enrolled at both, in the same second), the other is made at d2 only.       *)
EXTENDS DeviceCollector

CONSTANTS d1, d2, p1, p2, u1

MCUserOf == [p \in Punch |-> u1]
MCPunchesAt == [d \in Device |-> IF d = d1 THEN {p1} ELSE Punch]
================================================================================
