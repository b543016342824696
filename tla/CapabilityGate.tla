--------------------------- MODULE CapabilityGate ---------------------------
(***************************************************************************)
(* The lifecycle of a computer capability: its row in capabilities/store.py, *)
(* its entry in the process's registry (capabilities/registry.py), and the *)
(* connector of capabilities/computer.py, which dispatches a call and      *)
(* revokes a capability under one gate.  The command line writes the row   *)
(* from a process of its own.                                              *)
(***************************************************************************)
EXTENDS Naturals

CONSTANTS Callers, Nobody, Revoker, MaxStarts

ASSUME GateAssumption ==
    Nobody \notin Callers /\ Revoker \notin Callers /\ Nobody # Revoker

Lifecycles == {"active", "deprecated", "revoked"}

VARIABLES
    stored,     \* the lifecycle in the row, or absent
    entry,      \* the lifecycle in the registry, or absent
    wiring,     \* the start of the process: upsert, read, put, and then ready
    found,      \* the row it has read
    gate,       \* who holds _LIFECYCLE_GATE
    sends,      \* of each caller's call: 0 when there is none, else the attempt under way
    mutation,   \* whether the capability changes the computer
    revoked,    \* whether a revocation has returned, and no operator has undone it
    starts

capability == <<stored, entry, wiring, found, gate, sends, mutation, revoked, starts>>

GateInit ==
    /\ stored = "absent" /\ entry = "absent"
    /\ wiring = "upsert" /\ found = "absent"
    /\ gate = Nobody
    /\ sends = [c \in Callers |-> 0]
    /\ mutation \in BOOLEAN
    /\ revoked = FALSE
    /\ starts = 1

Wired(from, to) == wiring = from /\ wiring' = to

UpsertAnew ==
    /\ Wired("upsert", "read")
    /\ stored' = "active"
    /\ UNCHANGED <<entry, found, gate, sends, mutation, revoked, starts>>

(* upsert_capability of the contract's manifest: a row that is there keeps its lifecycle. *)
Upsert ==
    /\ Wired("upsert", "read")
    /\ stored' = IF stored = "absent" THEN "active" ELSE stored
    /\ UNCHANGED <<entry, found, gate, sends, mutation, revoked, starts>>

(* get_capability *)
ReadRow ==
    /\ Wired("read", "put")
    /\ found' = stored
    /\ UNCHANGED <<stored, entry, gate, sends, mutation, revoked, starts>>

(* CapabilityRegistry.register: an entry that is there stays as it is. *)
Register ==
    /\ Wired("put", "ready")
    /\ entry' = IF entry = "absent" THEN found ELSE entry
    /\ found' = "absent"
    /\ UNCHANGED <<stored, gate, sends, mutation, revoked, starts>>

(* ComputerConnector.call: the lifecycle is looked at, and the request sent, under the gate. *)
Dispatch(c) ==
    /\ wiring = "ready" /\ sends[c] = 0
    /\ gate = Nobody /\ entry = "active"
    /\ gate' = c
    /\ sends' = [sends EXCEPT ![c] = 1]
    /\ UNCHANGED <<stored, entry, wiring, found, mutation, revoked, starts>>

(* The computer was not reached: what changes nothing is tried a second time. *)
SendAgain(c) ==
    /\ gate = c /\ sends[c] = 1 /\ ~mutation
    /\ sends' = [sends EXCEPT ![c] = 2]
    /\ UNCHANGED <<stored, entry, wiring, found, gate, mutation, revoked, starts>>

(* An answer, an error or the deadline. *)
Ended(c) ==
    /\ gate = c /\ sends[c] > 0
    /\ gate' = Nobody
    /\ sends' = [sends EXCEPT ![c] = 0]
    /\ UNCHANGED <<stored, entry, wiring, found, mutation, revoked, starts>>

(* revoke_computer_capability: the row first. *)
RevokeRow ==
    /\ gate = Nobody /\ stored # "absent"
    /\ gate' = Revoker
    /\ stored' = "revoked"
    /\ UNCHANGED <<entry, wiring, found, sends, mutation, revoked, starts>>

(* Then the registry; it raises when the capability is not registered yet. *)
RevokeEntry ==
    /\ gate = Revoker
    /\ gate' = Nobody
    /\ IF entry = "absent" THEN UNCHANGED <<entry, revoked>>
       ELSE entry' = "revoked" /\ revoked' = (stored # "active")
    /\ UNCHANGED <<stored, wiring, found, sends, mutation, starts>>

(* kater capability set-lifecycle: the row only, for the next start of the server. *)
SetLifecycle(state) ==
    /\ stored # "absent"
    /\ stored' = state
    /\ revoked' = (revoked /\ state # "active")
    /\ UNCHANGED <<entry, wiring, found, gate, sends, mutation, starts>>

(* The process ends and starts again; calls and gate go with it. *)
StartAgain ==
    /\ starts < MaxStarts
    /\ starts' = starts + 1
    /\ wiring' = "upsert" /\ entry' = "absent" /\ found' = "absent"
    /\ gate' = Nobody
    /\ sends' = [c \in Callers |-> 0]
    /\ UNCHANGED <<stored, mutation, revoked>>

GateStep ==
    \/ Upsert \/ ReadRow \/ Register
    \/ \E c \in Callers : Dispatch(c) \/ SendAgain(c) \/ Ended(c)
    \/ RevokeRow \/ RevokeEntry
    \/ \E state \in Lifecycles : SetLifecycle(state)
    \/ StartAgain
-----------------------------------------------------------------------------
(* When a revocation has returned no call of the capability is under way, and none begins, also  *)
(* after a restart that registers the contract again, until an operator makes it active again.   *)
RevokedIsQuiet == revoked => \A c \in Callers : sends[c] = 0
=============================================================================
