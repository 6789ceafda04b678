----------------------------- MODULE DeviceThreads -----------------------------
(***************************************************************************)
(* What the collector promises about its device threads, to the terminals  *)
(* and to the administrator: which device has a thread, and for what       *)
(* reasons it gets and loses it.  DeviceManager and DeviceCollector both   *)
(* implement it, the one with the supervisor in full and the other with    *)
(* the threads in full: what either leaves out of the other's part is      *)
(* within this contract.                                                   *)
(***************************************************************************)
EXTENDS Naturals

CONSTANT Device

VARIABLES
    active,     \* the devices whose row says that they are active
    chosen,     \* the devices that the current round of the supervisor found
    running,    \* the devices that have a thread
    leaving,    \* those of them whose thread has seen a reason to end
    stop,       \* the collector has been told to stop
    process     \* how often the process was killed and started again

threads == <<running, leaving>>
devices == <<active, chosen, threads, stop, process>>

Init ==
    /\ active \subseteq Device /\ chosen = {}
    /\ running = {} /\ leaving = {}
    /\ stop = FALSE /\ process = 0

\* A round finds active devices only, and there is none after a stop.
Poll ==
    /\ ~ stop /\ chosen' \in SUBSET active
    /\ UNCHANGED <<active, threads, stop, process>>

\* Only a device that was found gets a thread, and never a second one: not even
\* while its last thread is still ending.
Start(d) ==
    /\ d \in chosen \ running
    /\ chosen' = chosen \ {d} /\ running' = running \cup {d}
    /\ UNCHANGED <<active, leaving, stop, process>>

\* The round passes a device over: its last thread is still accounted for.
Skip(d) == chosen' = chosen \ {d} /\ UNCHANGED <<active, threads, stop, process>>

\* A thread sees a reason to end: a stop, or its device is not active.  Nothing
\* else is one, whatever fails.
Notice(d) ==
    /\ d \in running \ leaving /\ (stop \/ d \notin active)
    /\ leaving' = leaving \cup {d}
    /\ UNCHANGED <<active, chosen, running, stop, process>>

\* Some time later it has disconnected and is gone, even if the device has
\* become active again meanwhile.
End(d) ==
    /\ d \in leaving
    /\ running' = running \ {d} /\ leaving' = leaving \ {d}
    /\ UNCHANGED <<active, chosen, stop, process>>

\* The administrator's "Remove" and "Activate".
Switch(d) ==
    /\ active' = IF d \in active THEN active \ {d} ELSE active \cup {d}
    /\ UNCHANGED <<chosen, threads, stop, process>>

Signal == stop' = TRUE /\ UNCHANGED <<active, chosen, threads, process>>

\* After a stop the process ends, with the threads that are left.
Quit ==
    /\ stop /\ chosen' = {} /\ running' = {} /\ leaving' = {}
    /\ UNCHANGED <<active, stop, process>>

\* The process is killed, at any time, and started again.
Restart ==
    /\ chosen' = {} /\ running' = {} /\ leaving' = {}
    /\ stop' = FALSE /\ process' = process + 1
    /\ UNCHANGED active

Next ==
    \/ Poll \/ Signal \/ Quit \/ Restart
    \/ \E d \in Device : Start(d) \/ Skip(d) \/ Notice(d) \/ End(d) \/ Switch(d)

Spec == Init /\ [][Next]_devices
================================================================================
