---------------------------- MODULE MCStatPage ----------------------------
(* Between two times a processor is idle, half idle, busy, or gives back a *)
(* tick of iowait.                                                         *)
EXTENDS StatPage, TLC

MCChanges ==
    { [idle |-> 2, busy |-> 0], [idle |-> 1, busy |-> 2], [idle |-> 0, busy |-> 3],
      [idle |-> -1, busy |-> 3], [idle |-> -1, busy |-> 1], [idle |-> 0, busy |-> 0] }

=============================================================================
