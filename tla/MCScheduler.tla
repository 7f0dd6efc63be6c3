---------------------------- MODULE MCScheduler ----------------------------
(***************************************************************************)
(* Scheduler with the order of the real periods (500, 1000, 100, 500 ms)   *)
(* scaled down: the tab window is the slowest, the main window is due at   *)
(* every timeout, the device and status windows and the page lie between.  *)
(***************************************************************************)
EXTENDS Scheduler

MCPeriod == [w \in Win |-> CASE w = Tab -> 3 [] w = Main -> 1 [] OTHER -> 2]
=============================================================================
