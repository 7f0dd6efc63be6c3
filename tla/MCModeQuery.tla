---------------------------- MODULE MCModeQuery ----------------------------
(* Up to two connectors and modes, two properties of which the EDID is the *)
(* first, as the kernel attaches them, and two queries.                    *)
EXTENDS ModeQuery, TLC

=============================================================================
