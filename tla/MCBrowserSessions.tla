-------------------------- MODULE MCBrowserSessions --------------------------
(* Small instances of BrowserSessions; threads and sessions are interchangeable. *)
(* Bound: after both a fault and a batch, two threads are at work at one time.  *)
EXTENDS BrowserSessions, TLC

AtWork == Cardinality({t \in Threads : pc[t] # "idle" \/ batch[t] # "none"})

BoundedSpec == Init /\ [][Next /\ (faults' + batches' > 1 => AtWork' <= 2)]_vars

Symmetry == Permutations(Threads) \cup Permutations(Sessions)
===============================================================================
