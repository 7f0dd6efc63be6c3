----------------------------- MODULE MCDevices -----------------------------
(* Four cards: an AMD card, one of another vendor, an AMD card whose       *)
(* domain exceeds the byte and then looks like that of the first, and one  *)
(* of another vendor that never has a driver; and one virtual node.  There *)
(* is room for three, so that three cards fill the table, and four cards   *)
(* or four nodes are too many.                                             *)
EXTENDS Devices, TLC

MCCounts == {3, 4}
MCForeign == {1, 3}
MCBare == {3}
MCDomain == <<0, 0, 2, 0>>
MCSlot == <<1, 2, 1, 3>>
MCDomains == [c \in 0 .. 3 |-> MCDomain[c + 1]]
MCSlots == [c \in 0 .. 3 |-> MCSlot[c + 1]]

=============================================================================
