------------------------------ MODULE RoutedCall ------------------------------
(***************************************************************************)
(* What a routed call promises its client, whatever happens inside the      *)
(* proxy (docs/architecture/kater-control-plane-wave.md, "Failure           *)
(* classification"): a request is sent on only while no earlier attempt of  *)
(* the same call can have run upstream, and the client is told of success   *)
(* exactly when an upstream succeeded.                                      *)
(***************************************************************************)
CONSTANT Threads

VARIABLES phase, answer

Init == /\ phase = [t \in Threads |-> "idle"]
        /\ answer = [t \in Threads |-> "none"]

(* The call starts, and has reached no upstream. *)
Begin(t) == /\ phase[t] = "idle"
            /\ phase' = [phase EXCEPT ![t] = "open"]
            /\ UNCHANGED answer

(* An upstream is handed the request. *)
Send(t) == /\ phase[t] = "open"
           /\ phase' = [phase EXCEPT ![t] = "sent"]
           /\ UNCHANGED answer

(* The outcome is settled, for good; an attempt that fails in an unknown    *)
(* way counts as sent.                                                      *)
Settle(t) == /\ \E r \in {"done", "unclear"} :
                  /\ phase[t] = "sent" \/ (phase[t] = "open" /\ r = "unclear")
                  /\ phase' = [phase EXCEPT ![t] = r]
             /\ UNCHANGED answer

Answer(t) == /\ phase[t] \in {"open", "done", "unclear"}
             /\ phase' = [phase EXCEPT ![t] = "idle"]
             /\ answer' = [answer EXCEPT ![t] = IF phase[t] = "done" THEN "ok" ELSE "error"]

(* A capability nobody offers is refused without being opened. *)
Reject(t) == /\ phase[t] = "idle"
             /\ answer' = [answer EXCEPT ![t] = "error"]
             /\ UNCHANGED phase

Next == \E t \in Threads : \/ Begin(t) \/ Send(t) \/ Settle(t)
                           \/ Answer(t) \/ Reject(t)

Spec == Init /\ [][Next]_<<phase, answer>>
===============================================================================
