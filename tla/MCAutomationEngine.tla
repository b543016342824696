-------------------------- MODULE MCAutomationEngine --------------------------
(* Either a server by itself with some automations, whose rows are edited,  *)
(* or one automation of a server and `kater automations run`, with a PATCH. *)
EXTENDS AutomationEngine

CONSTANTS First, Faults

MCPlans ==
  {[autos |-> Autos, shells |-> {}, faults |-> Faults, edits |-> 1, patches |-> 0],
   [autos |-> {First}, shells |-> Shells, faults |-> Faults, edits |-> 0, patches |-> 1]}
===============================================================================
