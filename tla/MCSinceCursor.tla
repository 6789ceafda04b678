----------------------------- MODULE MCSinceCursor -----------------------------
(* Up to two device threads; five ids on pages of two rows.                   *)
EXTENDS SinceCursor

CONSTANTS w1, w2
================================================================================
