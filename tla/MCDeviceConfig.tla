-------------------------- MODULE MCDeviceConfig --------------------------
(* A small instance of DeviceConfig for TLC.                               *)
EXTENDS DeviceConfig
CONSTANTS i0, i1

\* mDetectDeviceConfig with any entry for camera 0 and with camera 1 absent or
\* open; the other classes have an address only.  Commands of which a part
\* arrives make the mixtures with the empty address.
Absent == [ip |-> i0, camstatus |-> "closed"]
MCRequest ==
    {[slot |-> Dev, obj |-> [p \in Part |-> IF p = 0 THEN u ELSE v]] :
        u \in Word, v \in {Absent, [ip |-> i1, camstatus |-> "opened"]}}
    \union
    {[slot |-> s, obj |-> [p \in Part |-> [ip |-> i1, camstatus |-> "closed"]]] :
        s \in Slot \ {Dev}}
=============================================================================
