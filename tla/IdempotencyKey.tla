---------------------------- MODULE IdempotencyKey ----------------------------
(***************************************************************************)
(* What an idempotency key promises its callers: it is a lock with a        *)
(* memory.  One caller at a time holds it; when the holder settles it with  *)
(* an answer it stays settled, and from then on callers that ask for the    *)
(* same thing are told that answer and no other.                            *)
(***************************************************************************)
CONSTANTS Calls, Nobody

VARIABLES held,      \* the call that holds the key
          settled,   \* the call whose answer the key remembers
          told       \* the call whose answer each call returned

Init == /\ held = Nobody
        /\ settled = Nobody
        /\ told = [c \in Calls |-> Nobody]

Take(c) == /\ held = Nobody /\ settled = Nobody /\ told[c] = Nobody
           /\ held' = c
           /\ UNCHANGED <<settled, told>>

GiveBack(c) == /\ held = c
               /\ held' = Nobody
               /\ UNCHANGED <<settled, told>>

Settle(c) == /\ held = c
             /\ held' = Nobody /\ settled' = c
             /\ told' = [told EXCEPT ![c] = c]

Replay(c) == /\ settled \notin {Nobody, c} /\ told[c] = Nobody
             /\ told' = [told EXCEPT ![c] = settled]
             /\ UNCHANGED <<held, settled>>

Next == \E c \in Calls : Take(c) \/ GiveBack(c) \/ Settle(c) \/ Replay(c)

Spec == Init /\ [][Next]_<<held, settled, told>>
===============================================================================
