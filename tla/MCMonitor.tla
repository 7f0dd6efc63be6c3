----------------------------- MODULE MCMonitor -----------------------------
(***************************************************************************)
(* Monitor on a small machine: two devices, and three tabs that stand for  *)
(* the kinds there are: 0 is Stat (refreshed, may be too small), 1 Display *)
(* (driver data, refreshed in a cleared window), 2 a page without a driver *)
(* (System, About).                                                        *)
(***************************************************************************)
EXTENDS Monitor

MCSizes == {"large", "small"}
MCSmall == {"small"}
MCLarge == {"large"}       \* a terminal that is never resized
MCDriverless == {2}
MCRefresh == {0, 1}
MCClear == {1}
MCFallible == {0, 1}
MCNone == {}
=============================================================================
