----------------------------- MODULE MCDisplay -----------------------------
(* The Display page on two devices and two monitors: a has a serial        *)
(* number, b has none and another resolution; asleep they look the same to *)
(* the page.  There is room for as many displays as there are monitors, d1 *)
(* has a connector more; d2 has no outputs and its driver comes late.      *)
EXTENDS Display

CONSTANTS d1, d2, a, b

MCDevices == {d1, d2}
MCMonitors == {a, b}
MCLate == {d2}
MCConnectors == [d \in MCDevices |-> IF d = d1 THEN 3 ELSE 0]
MCResolution == [m \in MCMonitors |-> IF m = b THEN "low" ELSE "high"]
MCSerials == {a}
=============================================================================
