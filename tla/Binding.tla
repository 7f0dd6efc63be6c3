------------------------------ MODULE Binding ------------------------------
(* What the device table promises of a card: sooner or later it may be     *)
(* bound to a DRM node that answers to its PCI address, once its kernel    *)
(* driver is there, and it then stays bound to that node.                  *)

CONSTANTS Card, Node, NoNode,
          Answers(_, _)     \* the node answers to the address asked for the card

VARIABLES driver,           \* the cards that have a kernel driver
          bound             \* the node of each card, or NoNode

vars == <<driver, bound>>

Init ==
    /\ driver \in SUBSET Card
    /\ bound = [c \in Card |-> NoNode]

DriverAppears ==
    /\ \E c \in Card : driver' = driver \cup {c}
    /\ UNCHANGED bound

Bind(c, n) ==
    /\ c \in driver /\ bound[c] = NoNode /\ Answers(c, n)
    /\ bound' = [bound EXCEPT ![c] = n]
    /\ UNCHANGED driver

Next == DriverAppears \/ \E c \in Card, n \in Node : Bind(c, n)

Spec == Init /\ [][Next]_vars

=============================================================================
