------------------------------ MODULE SessionLog ------------------------------
(***************************************************************************)
(* What the event log of an agent session promises the clients that follow  *)
(* it: entries are only ever added at its end, and what a client has read   *)
(* so far is the beginning of the log, each entry once and in order.       *)
(***************************************************************************)
EXTENDS Naturals, Sequences

CONSTANT Readers

VARIABLES log,     \* the entries, oldest first
          seen     \* what each reader was given, in the order it came

FirstOf(s, n) == SubSeq(s, 1, n)

Init == log = <<>> /\ seen = [r \in Readers |-> <<>>]

Grow == /\ Len(log') > Len(log)
        /\ FirstOf(log', Len(log)) = log
        /\ UNCHANGED seen

Follow(r) == /\ \E n \in Len(seen[r]) + 1 .. Len(log) :
                  seen' = [seen EXCEPT ![r] = FirstOf(log, n)]
             /\ UNCHANGED log

Next == Grow \/ \E r \in Readers : Follow(r)

Spec == Init /\ [][Next]_<<log, seen>>
===============================================================================
