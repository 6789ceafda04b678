----------------------------- MODULE MCRegistration -----------------------------
(* Two terminals, one of which reports its serial number with blanks, and two *)
(* addresses, which may both lead to one of them; two requests and the        *)
(* seeder, whose list has both addresses.                                     *)
EXTENDS Registration

CONSTANTS t1, t2, a1, a2, f1, f2

MCSeeds == <<a1, a2>>
================================================================================
