---------------------------- MODULE MCBackendCalls ----------------------------
(* Small instances of BackendCalls.  MaxAtWork bounds what is under way at    *)
(* one time, an operation of an admin counting for two calls: with a bound of *)
(* four, two admins overlap each other, or one of them two calls.             *)
EXTENDS BackendCalls, FiniteSets

CONSTANT MaxAtWork

AtWork == Cardinality({t \in Threads : pc[t] # "idle"})
            + 2 * Cardinality({a \in Admins : apc[a] # "idle"})

BoundedSpec == /\ Init /\ [][Next /\ AtWork' <= MaxAtWork]_vars
               /\ Fairness
===============================================================================
