------------------------- MODULE MCStateDirectory -------------------------
(* Bounds: of two operations that fail, the second is a step of the rollback of the first; and   *)
(* of the requests and the migrations, at most two are under way at one time, beside a restore.  *)
EXTENDS StateDirectory, FiniteSets, TLC

UnderWay == {u \in Users : user[u].pc \notin {"idle", "done", "refused", "failed"}}
              \cup {m \in Migrators : migrator[m].pc = "run"}

Bounded == /\ faults' # faults => faults = 0 \/ restore.pc \in {"rollback", "putback"}
           /\ UnderWay' # UnderWay => Cardinality(UnderWay') <= 2

BoundedSpec == Init /\ [][Next /\ Bounded]_vars

Symmetry == Permutations(Threads) \cup Permutations(Migrators)
=============================================================================
