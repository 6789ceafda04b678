---------------------------- MODULE MCDeviceManager ----------------------------
(* Two devices; one thread more than devices, so that a second thread for a   *)
(* device could exist.                                                        *)
EXTENDS DeviceManager

CONSTANTS d1, d2, t1, t2, t3

================================================================================
