---------------------------- MODULE RemoteAccess ----------------------------
(***************************************************************************)
(* What a remote caller needs for a call: a context whose token is         *)
(* accepted, and a capability that may be dispatched.  The two are kept in *)
(* tables of their own and no step writes both, so a behaviour works on    *)
(* one of them.                                                            *)
(***************************************************************************)
EXTENDS RemoteContexts, CapabilityGate

VARIABLE part

vars == <<access, capability, part>>

Init ==
    /\ part \in {"contexts", "capability"}
    /\ ContextsInit /\ GateInit
    /\ part = "contexts" => ~mutation
    /\ part = "capability" => ~ownKey

Next ==
    \/ part = "contexts" /\ ContextsStep /\ UNCHANGED <<capability, part>>
    \/ part = "capability" /\ GateStep /\ UNCHANGED <<access, part>>

Spec == Init /\ [][Next]_vars
=============================================================================
