---------------------------- MODULE MCPageCache ----------------------------
(* The page caches on two devices: enough to return to a device after a    *)
(* visit to another one.                                                   *)
EXTENDS PageCache

CONSTANTS d1, d2

MCDevices == {d1, d2}
=============================================================================
