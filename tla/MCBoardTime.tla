----------------------------- MODULE MCBoardTime -----------------------------
(* The main thread, the LED and screen threads of one priority below it and  *)
(* the idle thread, on ticks of 3 bits and a counter of 4 states.            *)
EXTENDS BoardTime

McPriority == [main |-> 10, led |-> 11, screen |-> 11, idle |-> 31]
=============================================================================
