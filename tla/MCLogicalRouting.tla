--------------------------- MODULE MCLogicalRouting ---------------------------
(* Either all accounts without quota; or one of them with two faults; or a  *)
(* metered one that the operator edits, with restarts of the proxy.         *)
EXTENDS LogicalRouting

CONSTANT First

Unmetered(some, bound) ==
  [accounts |-> some, metered |-> {}, faults |-> bound, edits |-> 0, restarts |-> 0]

MCPlans ==
  {Unmetered(Accounts, 1), Unmetered({First}, 2),
   [accounts |-> {First}, metered |-> {First}, faults |-> 1, edits |-> 1, restarts |-> 1]}
===============================================================================
