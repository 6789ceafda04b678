---------------------------- MODULE MCCollectorOne ----------------------------
(* One terminal, one employee, up to two punches.                             *)
EXTENDS DeviceCollector

CONSTANTS d1, p1, p2, u1

MCUserOf == [p \in Punch |-> u1]
MCPunchesAt == [d \in Device |-> Punch]
================================================================================
