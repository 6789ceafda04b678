------------------------------- MODULE MCWebCache -------------------------------
(* Three threads, one cache (loaders of another one meet it only in the       *)
(* pool, as direct requests do), one connection.                              *)
EXTENDS WebCache

CONSTANTS t1, t2, t3, stats

MCTTL == [c \in Cache |-> 2]
================================================================================
