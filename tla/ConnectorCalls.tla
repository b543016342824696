--------------------------- MODULE ConnectorCalls ---------------------------
(***************************************************************************)
(* Calls of connector capabilities: executor.py prepares a call and runs   *)
(* it with a timeout, connectors/registry.py admits it, and                *)
(* connectors/dispatch.py gives it a backend, a fresh one or the warm one  *)
(* of the pool.  A call that is given up goes on in its thread, with its   *)
(* lease.  The attempts of one call and their records are the subject of   *)
(* IdempotentExecution; a call has one attempt here.                       *)
(***************************************************************************)
EXTENDS ConnectorCatalog

VARIABLES
    pooled,     \* how connectors are invoked
    warm,       \* the backend of the pool: none, healthy, silent or dead
    lease       \* the task that holds the invocation lock, or None

connector == <<origin, env, row, task, sole, settled, pooled, warm, lease>>

pool == <<pooled, warm, lease>>

ConnectorInit ==
    /\ CatalogInit
    /\ pooled \in BOOLEAN
    /\ warm = "none"
    /\ lease = None

(* assert_profile_access *)
Access(t) ==
    /\ row # None
    /\ row.status # "disabled"
    /\ row.permitted

Goto(t, pc) == task' = [task EXCEPT ![t].pc = pc]

Done(t) == task' = [task EXCEPT ![t] = Idle]

(* _prepare: the policy is looked at, and the credentials when a native action writes, *)
Authorize(t) ==
    /\ task[t].pc = "authorize"
    /\ \E writes \in IF task[t].op = "native" THEN BOOLEAN ELSE {FALSE} :
         IF Access(t) /\ (writes => env) THEN Goto(t, "admit") ELSE Done(t)
    /\ UNCHANGED <<origin, env, row, sole, settled, pooled, warm, lease>>

AdmitAsAuthorized(t) ==
    /\ task[t].pc = "admit" /\ task[t].op = "call"
    /\ Goto(t, "lease")
    /\ UNCHANGED <<origin, env, row, sole, settled, pooled, warm, lease>>

(* and registry.invoke looks once more, with the credentials, in the thread of the attempt. *)
AdmitCall(t) ==
    /\ task[t].pc = "admit" /\ task[t].op = "call"
    /\ IF Access(t) /\ env THEN Goto(t, "lease") ELSE Done(t)
    /\ UNCHANGED <<origin, env, row, sole, settled, pooled, warm, lease>>

(* A native action runs as it was authorized: _dispatch passes registry.invoke by. *)
InvokeNative(t) ==
    /\ task[t].pc = "admit" /\ task[t].op = "native"
    /\ Goto(t, "run")
    /\ UNCHANGED <<origin, env, row, sole, settled, pooled, warm, lease>>

EndNative(t) ==
    /\ task[t].pc = "run"
    /\ Done(t)
    /\ UNCHANGED <<origin, env, row, sole, settled, pooled, warm, lease>>

(* provide_backend, pooled: the warm backend is taken unless it is dead or too old; a new one *)
(* that does not come up is stopped and the call fails.                                        *)
Lease(t) ==
    /\ task[t].pc = "lease" /\ pooled /\ lease = None
    /\ \/ warm \in {"healthy", "silent"} /\ lease' = t /\ Goto(t, "use") /\ UNCHANGED warm
       \/ warm' = "healthy" /\ lease' = t /\ Goto(t, "use")
       \/ warm' = "none" /\ Done(t) /\ UNCHANGED lease
    /\ UNCHANGED <<origin, env, row, sole, settled, pooled>>

(* The warm backend dies on its own, in use or not. *)
BackendDies ==
    /\ warm \in {"healthy", "silent"}
    /\ warm' = "dead"
    /\ UNCHANGED <<origin, env, row, task, sole, settled, pooled, lease>>

(* It is alive and does not answer, for a while or for good. *)
BackendHangs ==
    /\ warm \in {"healthy", "silent"}
    /\ warm' = IF warm = "healthy" THEN "silent" ELSE "healthy"
    /\ UNCHANGED <<origin, env, row, task, sole, settled, pooled, lease>>

ReleaseRetried(t) ==
    /\ task[t].pc = "use" /\ pooled
    /\ \E failed \in BOOLEAN :
         /\ ~failed => warm = "healthy"
         /\ warm' = IF failed THEN "none" ELSE warm
         /\ IF failed THEN Goto(t, "lease") ELSE Done(t)
    /\ lease' = None
    /\ UNCHANGED <<origin, env, row, sole, settled, pooled>>

(* The exchange ends: after a failure the backend is stopped and taken out of the pool. *)
Release(t) ==
    /\ task[t].pc = "use" /\ pooled
    /\ \E failed \in BOOLEAN :
         /\ ~failed => warm = "healthy"
         /\ warm' = IF failed THEN "none" ELSE warm
    /\ lease' = None
    /\ Done(t)
    /\ UNCHANGED <<origin, env, row, sole, settled, pooled>>

(* provide_backend, stateless: a backend of its own, stopped in the end. *)
InvokeStateless(t) ==
    /\ task[t].pc = "lease" /\ ~pooled
    /\ Done(t)
    /\ UNCHANGED <<origin, env, row, sole, settled, pooled, warm, lease>>

CallStep(t) ==
    \/ Authorize(t) \/ AdmitCall(t) \/ InvokeNative(t) \/ EndNative(t) \/ Lease(t) \/ Release(t) \/ InvokeStateless(t)

ConnectorNext ==
    \/ RegisterConnector /\ UNCHANGED pool
    \/ BackendDies \/ BackendHangs
    \/ \E t \in Tasks : (CatalogStep(t) /\ UNCHANGED pool) \/ CallStep(t)

(* Threads go on; an exchange ends when the server answers or dies: a stdio server that is    *)
(* silent is waited for without end (stdio_backend.py, _rpc).  The lock comes to everybody who  *)
(* waits for it.                                                                                 *)
ConnectorFairness ==
    /\ \A t \in Tasks : /\ WF_connector((ReadRow(t) \/ WriteRow(t)) /\ UNCHANGED pool)
                        /\ WF_connector(Authorize(t) \/ AdmitCall(t) \/ InvokeNative(t) \/ EndNative(t)
                                        \/ InvokeStateless(t))
                        /\ WF_connector(warm # "silent" /\ Release(t))
                        /\ SF_connector(Lease(t))

ConnectorSpec == ConnectorInit /\ [][ConnectorNext]_connector /\ ConnectorFairness

-----------------------------------------------------------------------------
TaskRecord == [op : Operations, step : 1 .. 4, seen : Rows \cup {None},
               pc : {"idle", "read", "write", "authorize", "admit", "lease", "use", "run"}]

ConnectorTypeOK ==
    /\ origin \in {"seed", "dynamic"} /\ env \in BOOLEAN
    /\ row \in Rows \cup {None}
    /\ task \in [Tasks -> TaskRecord]
    /\ sole \in Tasks \cup {None} /\ settled \in {"no", "enabled", "disabled"}
    /\ pooled \in BOOLEAN /\ warm \in {"none", "healthy", "silent", "dead"}
    /\ lease \in Tasks \cup {None}

(* "Preserve operator intent": what an enable or a disable has left stays whatever seeding, of *)
(* a call, a listing or a restart, starts afterwards.  It speaks of a decision no other task     *)
(* overlapped: a seeding that had read the row before it writes the row back as it was, and      *)
(* settled leaves that out.                                                                       *)
IntentSurvivesSeeding == settled # "no" => row # None /\ row.status = settled

(* Once a connector is disabled no call of it is authorized, and none that was authorized        *)
(* before is admitted to its backend.  Native actions are looked at once: what was authorized     *)
(* before the disable still runs.                                                                  *)
DisabledIsOff ==
    [][\A t \in Tasks : task[t].pc # task'[t].pc /\ task'[t].pc \in {"admit", "lease"} =>
                         settled # "disabled"]_connector

(* The same of native actions.  No run checks it: it fails. *)
DisabledStopsNative ==
    [][\A t \in Tasks : task[t].pc # "run" /\ task'[t].pc = "run" => settled # "disabled"]_connector

(* Calls end, whoever holds the warm backend and however it fails, unless it keeps falling        *)
(* silent: a call that was given up goes on with the lease, and the next ones wait for it.        *)
CallsEnd ==
    <>[](warm # "silent") => \A t \in Tasks : task[t].pc = "authorize" ~> task[t].pc = "idle"
=============================================================================
